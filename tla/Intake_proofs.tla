--------------------------- MODULE Intake_proofs ---------------------------
(***************************************************************************)
(* Proofs about Intake, for every set of mails, requests and bookings, any *)
(* number of failures and any agents busy at a time.                       *)
(***************************************************************************)
EXTENDS Intake, FiniteSetTheorems, TLAPS

Sources == Mails \cup Requests
Working == {"aboard", "hide", "cancel", "rollback"}
Committing == {"take", "check", "create"} \cup Working
Reading == {"read", "extract", "select", "poison"}
Closing == {"log", "reply", "remove"}
Steps == {"idle", "next"} \cup Reading \cup Closing \cup Committing

PlanType == [source : Sources, booking : Bookings, copy : Nat,
             aboard : BOOLEAN, hidden : BOOLEAN]
JobType == [step : Steps, source : Sources \cup {None}, todo : Seq(Bookings), copy : Nat]

----------------------------------------------------------------------------
(* What is left to do *)

\* The rest of a list without repetitions is one, without the head.
LEMMA TailFacts ==
  ASSUME NEW E, NEW s \in Seq(E), IsInjective(s), s # << >>
  PROVE  /\ Head(s) \in E /\ Tail(s) \in Seq(E) /\ IsInjective(Tail(s))
         /\ Head(s) \notin Range(Tail(s)) /\ Range(s) = {Head(s)} \cup Range(Tail(s))
<1>1. /\ Len(s) \in Nat \ {0} /\ DOMAIN s = 1 .. Len(s) /\ Head(s) = s[1]
      /\ Tail(s) \in Seq(E) /\ DOMAIN Tail(s) = 1 .. Len(s) - 1
      /\ \A i \in 1 .. Len(s) - 1 : Tail(s)[i] = s[i + 1]
  OBVIOUS
<1>2. Head(s) \in E
  BY <1>1
<1>3. IsInjective(Tail(s))
  BY <1>1 DEF IsInjective
<1>4. Head(s) \notin Range(Tail(s))
  BY <1>1 DEF IsInjective, Range
<1>5. Range(s) \subseteq {Head(s)} \cup Range(Tail(s))
  <2> SUFFICES ASSUME NEW i \in 1 .. Len(s), i # 1 PROVE s[i] \in Range(Tail(s))
    BY <1>1 DEF Range
  <2>1. i - 1 \in 1 .. Len(s) - 1 /\ Tail(s)[i - 1] = s[i]
    BY <1>1
  <2> QED
    BY <2>1, <1>1 DEF Range
<1>6. {Head(s)} \cup Range(Tail(s)) \subseteq Range(s)
  BY <1>1 DEF Range
<1> QED
  BY <1>1, <1>2, <1>3, <1>4, <1>5, <1>6

LEMMA WhatIsFound ==
  /\ \A s \in Sources : /\ Found[s] \in Seq(Bookings) /\ IsInjective(Found[s])
                        /\ Range(Found[s]) \subseteq Bookings
  /\ << >> \in Seq(Bookings) /\ IsInjective(<< >>) /\ Range(<< >>) = {}
<1>1. ASSUME NEW s \in Sources PROVE Range(Found[s]) \subseteq Bookings
  BY DEF Bookings, Sources
<1>2. ASSUME NEW s \in Sources PROVE Found[s] \in Seq(Bookings) /\ IsInjective(Found[s])
  <2>1. Found[s] \in Seq(Range(Found[s])) /\ IsInjective(Found[s])
    BY IntakeAssumption DEF Sources
  <2>2. \A E, F : E \subseteq F => Seq(E) \subseteq Seq(F)
    OBVIOUS
  <2> QED
    BY <2>1, <2>2, <1>1
<1> QED
  BY <1>1, <1>2 DEF IsInjective, Range

----------------------------------------------------------------------------
(* The copies of a booking *)

CopyNos(P, s, b) == {p.copy : p \in {q \in P : q.source = s /\ q.booking = b}}
SameKey(p, q) == p.source = q.source /\ p.booking = q.booking /\ p.copy = q.copy

\* Stored plans are told apart by source, booking and copy, and the copies of
\* a booking are numbered without a gap.
Numbered(P) ==
  /\ \A p, q \in P : SameKey(p, q) => p = q
  /\ \A s \in Sources, b \in Bookings : \E n \in Nat : CopyNos(P, s, b) = 1 .. n

LEMMA CountCopies ==
  ASSUME NEW P, NEW s, NEW b, NEW n \in Nat, CopyNos(P, s, b) = 1 .. n,
         \A p, q \in P : SameKey(p, q) => p = q
  PROVE  Cardinality({p \in P : p.source = s /\ p.booking = b}) = n
<1> DEFINE C == {p \in P : p.source = s /\ p.booking = b}
           f == [k \in 1 .. n |-> CHOOSE p \in C : p.copy = k]
<1>1. \A k \in 1 .. n : \E p \in C : p.copy = k
  BY DEF CopyNos
<1>2. \A k \in 1 .. n : f[k] \in C /\ f[k].copy = k
  BY <1>1
<1>3. \A p \in C : p.copy \in 1 .. n
  BY DEF CopyNos
<1>4. \A p \in C : f[p.copy] = p
  BY <1>2, <1>3 DEF SameKey
<1>5. f \in Bijection(1 .. n, C)
  <2>1. f \in [1 .. n -> C]
    BY <1>2
  <2>2. f \in Injection(1 .. n, C)
    BY <2>1, <1>4, <1>2 DEF Injection, IsInjective
  <2>3. f \in Surjection(1 .. n, C)
    BY <2>1, <1>3, <1>4 DEF Surjection
  <2> QED
    BY <2>2, <2>3 DEF Bijection
<1>6. ExistsBijection(1 .. n, C)
  BY <1>5 DEF ExistsBijection
<1> QED
  BY <1>6, FS_CountingElements

\* The n-th copy is the last; the next may be added and the last deleted.
LEMMA AddCopy ==
  ASSUME NEW P \in SUBSET PlanType, Numbered(P), NEW n \in Nat, NEW x \in PlanType,
         CopyNos(P, x.source, x.booking) = 1 .. n, x.copy = n + 1
  PROVE  /\ Numbered(P \cup {x})
         /\ CopyNos(P \cup {x}, x.source, x.booking) = 1 .. (n + 1)
         /\ \A s, b : ~(s = x.source /\ b = x.booking)
              => CopyNos(P \cup {x}, s, b) = CopyNos(P, s, b)
<1>1. CopyNos(P \cup {x}, x.source, x.booking) = CopyNos(P, x.source, x.booking) \cup {n + 1}
  BY DEF CopyNos
<1>2. CopyNos(P \cup {x}, x.source, x.booking) = 1 .. (n + 1) /\ n + 1 \in Nat
  <2>1. 1 .. (n + 1) = 1 .. n \cup {n + 1} /\ n + 1 \in Nat
    OBVIOUS
  <2> QED
    BY <2>1, <1>1, Zenon
<1>3. \A s, b : ~(s = x.source /\ b = x.booking) => CopyNos(P \cup {x}, s, b) = CopyNos(P, s, b)
  BY DEF CopyNos
<1>4. ASSUME NEW p \in P PROVE ~SameKey(p, x)
  <2>1. SameKey(p, x) => x.copy \in CopyNos(P, x.source, x.booking)
    BY DEF SameKey, CopyNos
  <2> QED
    BY <2>1
<1>5. \A p, q \in P \cup {x} : SameKey(p, q) => p = q
  BY <1>4 DEF Numbered, SameKey
<1>6. ASSUME NEW s \in Sources, NEW b \in Bookings
      PROVE  \E k \in Nat : CopyNos(P \cup {x}, s, b) = 1 .. k
  <2>1. CASE s = x.source /\ b = x.booking
    BY <2>1, <1>2
  <2>2. CASE ~(s = x.source /\ b = x.booking)
    BY <2>2, <1>3 DEF Numbered
  <2> QED
    BY <2>1, <2>2
<1> QED
  BY <1>1, <1>2, <1>3, <1>5, <1>6 DEF Numbered

LEMMA DropCopy ==
  ASSUME NEW P \in SUBSET PlanType, Numbered(P), NEW n \in Nat, n # 0, NEW x \in P,
         CopyNos(P, x.source, x.booking) = 1 .. n, x.copy = n
  PROVE  /\ Numbered(P \ {x})
         /\ CopyNos(P \ {x}, x.source, x.booking) = 1 .. (n - 1)
         /\ \A s, b : ~(s = x.source /\ b = x.booking)
              => CopyNos(P \ {x}, s, b) = CopyNos(P, s, b)
<1>1. CopyNos(P \ {x}, x.source, x.booking) = CopyNos(P, x.source, x.booking) \ {n}
  <2>1. ASSUME NEW p \in P, p.source = x.source, p.booking = x.booking, p # x PROVE p.copy # n
    BY <2>1 DEF Numbered, SameKey
  <2> QED
    BY <2>1 DEF CopyNos
<1>2. 1 .. (n - 1) = 1 .. n \ {n} /\ n - 1 \in Nat
  OBVIOUS
<1>3. \A s, b : ~(s = x.source /\ b = x.booking) => CopyNos(P \ {x}, s, b) = CopyNos(P, s, b)
  BY DEF CopyNos
<1>4. \A p, q \in P \ {x} : SameKey(p, q) => p = q
  BY DEF Numbered
<1>5. ASSUME NEW s \in Sources, NEW b \in Bookings
      PROVE  \E k \in Nat : CopyNos(P \ {x}, s, b) = 1 .. k
  <2>1. CASE s = x.source /\ b = x.booking
    BY <2>1, <1>1, <1>2
  <2>2. CASE ~(s = x.source /\ b = x.booking)
    BY <2>2, <1>3 DEF Numbered
  <2> QED
    BY <2>1, <2>2
<1> QED
  BY <1>1, <1>2, <1>3, <1>4, <1>5 DEF Numbered

\* A plan rewritten in place keeps its number.
LEMMA RewriteCopy ==
  ASSUME NEW P \in SUBSET PlanType, Numbered(P), NEW x \in P, NEW y \in PlanType, SameKey(x, y)
  PROVE  /\ Numbered((P \ {x}) \cup {y})
         /\ \A s, b : CopyNos((P \ {x}) \cup {y}, s, b) = CopyNos(P, s, b)
<1>1. \A s, b : CopyNos((P \ {x}) \cup {y}, s, b) = CopyNos(P, s, b)
  BY DEF CopyNos, SameKey
<1>2. \A p, q \in (P \ {x}) \cup {y} : SameKey(p, q) => p = q
  BY DEF Numbered, SameKey
<1> QED
  BY <1>1, <1>2 DEF Numbered

----------------------------------------------------------------------------
(* Types, and what an agent holds at each of its steps *)

LeftOK == left \in [Sorts -> Nat] /\ \A s \in Sorts : left[s] <= Budget[s]

TypeInv ==
  /\ inbox \in [Mails -> {"new", "failed", "gone"}] /\ queue \subseteq Mails
  /\ plans \in SUBSET PlanType
  /\ told \in [Mails -> SUBSET Bookings]
  /\ job \in [Agents -> JobType]
  /\ live \in [Agents -> BOOLEAN]
  /\ LeftOK

JobOK(a, j) ==
  /\ j.step \notin {"idle", "next"} => j.source \in (IF a = Ingest THEN Mails ELSE {a})
  /\ a # Ingest => j.step \in {"idle"} \cup Committing
  /\ j.step \in Committing \ {"take"} => j.todo # << >>
  /\ IsInjective(j.todo)
  /\ j.todo # << >> => /\ j.step \in Committing \cup {"select"}
                       /\ Range(j.todo) \subseteq Range(Found[j.source])
  /\ j.copy # 0 <=> j.step \in Working
JobsOK == \A a \in Agents : JobOK(a, job[a])

\* While an agent sees to a plan, that plan is the last copy of its booking.
Topped ==
  \A a \in Agents :
    job[a].step \in Working => CopyNos(plans, job[a].source, Booking(a)) = 1 .. job[a].copy

Base == TypeInv /\ JobsOK /\ Numbered(plans) /\ Topped

LEMMA UsedIsNat ==
  ASSUME LeftOK
  PROVE  \A s \in Sorts : Used(s) \in Nat
BY IntakeAssumption DEF LeftOK, Used

LEMMA SpendCounts ==
  ASSUME LeftOK, NEW s \in Sorts, Spend(s)
  PROVE  /\ LeftOK' /\ Used(s)' = Used(s) + 1
         /\ \A t \in Sorts \ {s} : Used(t)' = Used(t)
<1>1. left' \in [Sorts -> Nat] /\ left'[s] = left[s] - 1 /\ \A t \in Sorts \ {s} : left'[t] = left[t]
  BY DEF LeftOK, Spend
<1>2. LeftOK'
  BY <1>1, IntakeAssumption DEF LeftOK
<1>3. Used(s)' = Used(s) + 1
  BY <1>1, IntakeAssumption DEF Used, LeftOK
<1>4. \A t \in Sorts \ {s} : Used(t)' = Used(t)
  BY <1>1 DEF Used
<1> QED
  BY <1>2, <1>3, <1>4

LEMMA SameLeft ==
  ASSUME UNCHANGED left, LeftOK
  PROVE  LeftOK' /\ \A s \in Sorts : Used(s)' = Used(s)
BY DEF LeftOK, Used

\* The ways a job is rewritten.
Going(j, s) == [j EXCEPT !.step = s]
Skipped(j) == [j EXCEPT !.step = "take", !.todo = Tail(@), !.copy = 0]
Reader(m) == [IdleJob EXCEPT !.step = "read", !.source = m]
NextJob == [IdleJob EXCEPT !.step = "next"]
Sent(r) == [IdleJob EXCEPT !.step = "take", !.source = r, !.todo = Found[r]]

LEMMA JobSet ==
  ASSUME TypeInv, JobsOK, NEW a \in Agents, NEW j \in JobType, JobOK(a, j),
         job' = [job EXCEPT ![a] = j]
  PROVE  /\ job' \in [Agents -> JobType] /\ JobsOK'
         /\ job'[a] = j /\ \A c \in Agents : c # a => job'[c] = job[c]
<1>1. /\ job' \in [Agents -> JobType]
      /\ job'[a] = j /\ \A c \in Agents : c # a => job'[c] = job[c]
  BY DEF TypeInv
<1>2. JobsOK'
  BY <1>1 DEF JobsOK
<1> QED
  BY <1>1, <1>2

LEMMA GoingFields ==
  ASSUME NEW j \in JobType, NEW s \in Steps
  PROVE  /\ Going(j, s) \in JobType /\ Going(j, s).step = s
         /\ Going(j, s).source = j.source /\ Going(j, s).todo = j.todo
         /\ Going(j, s).copy = j.copy
BY DEF Going, JobType

LEMMA SkippedFields ==
  ASSUME NEW j \in JobType, j.todo # << >>, IsInjective(j.todo)
  PROVE  /\ Skipped(j) \in JobType /\ Skipped(j).step = "take"
         /\ Skipped(j).source = j.source /\ Skipped(j).todo = Tail(j.todo)
         /\ Skipped(j).copy = 0
<1>1. j.todo \in Seq(Bookings)
  BY DEF JobType
<1>2. Tail(j.todo) \in Seq(Bookings)
  BY <1>1, TailFacts
<1> QED
  BY <1>2 DEF Skipped, JobType, Steps, Committing

LEMMA NewJobs ==
  /\ IdleJob \in JobType /\ NextJob \in JobType
  /\ IdleJob.step = "idle" /\ NextJob.step = "next"
  /\ IdleJob.todo = << >> /\ NextJob.todo = << >> /\ IdleJob.copy = 0 /\ NextJob.copy = 0
  /\ \A m \in Mails : /\ Reader(m) \in JobType /\ Reader(m).step = "read" /\ Reader(m).source = m
                      /\ Reader(m).todo = << >> /\ Reader(m).copy = 0
  /\ \A r \in Requests : /\ Sent(r) \in JobType /\ Sent(r).step = "take" /\ Sent(r).source = r
                         /\ Sent(r).todo = Found[r] /\ Sent(r).copy = 0
BY WhatIsFound DEF IdleJob, NextJob, Reader, Sent, JobType, Steps, Sources, Reading, Committing

LEMMA JobMoves ==
  ASSUME TypeInv, NEW a \in Agents
  PROVE  /\ \A s : GoTo(a, s) => job' = [job EXCEPT ![a] = Going(job[a], s)]
         /\ Skip(a) => job' = [job EXCEPT ![a] = Skipped(job[a])]
         /\ Answer(a) => job' = [job EXCEPT ![a] = IdleJob]
         /\ LeaveFile => job' = [job EXCEPT ![Ingest] = NextJob]
BY DEF TypeInv, GoTo, Skip, Answer, LeaveFile, Going, Skipped, NextJob

\* Skipping a booking and answering leave a job in order.
LEMMA RefusedOK ==
  ASSUME TypeInv, JobsOK, NEW a \in Agents, job[a].todo # << >>
  PROVE  /\ job[a] \in JobType /\ Skipped(job[a]) \in JobType
         /\ job[a].step \in Committing => JobOK(a, Skipped(job[a]))
         /\ JobOK(a, IdleJob)
<1>1. job[a] \in JobType /\ JobOK(a, job[a]) /\ job[a].todo \in Seq(Bookings)
  BY DEF TypeInv, JobsOK, JobType
<1>2. /\ Skipped(job[a]) \in JobType /\ Skipped(job[a]).step = "take"
      /\ Skipped(job[a]).source = job[a].source /\ Skipped(job[a]).todo = Tail(job[a].todo)
      /\ Skipped(job[a]).copy = 0
  BY <1>1, SkippedFields DEF JobOK
<1>3. IsInjective(Tail(job[a].todo)) /\ Range(Tail(job[a].todo)) \subseteq Range(job[a].todo)
  BY <1>1, TailFacts DEF JobOK
<1>4. JobOK(a, IdleJob)
  BY NewJobs, WhatIsFound DEF JobOK, Committing, Working
<1>5. ASSUME job[a].step \in Committing PROVE JobOK(a, Skipped(job[a]))
  <2>1. job[a].step \notin {"idle", "next"}
    BY <1>5 DEF Committing, Working
  <2> QED
    BY <1>1, <1>2, <1>3, <2>1 DEF JobOK, Committing, Working
<1> QED
  BY <1>1, <1>2, <1>4, <1>5

\* A job that moves on within the same booking stays in order.
LEMMA GoingOK ==
  ASSUME TypeInv, JobsOK, NEW a \in Agents, NEW s \in Steps,
         job[a].step \notin {"idle", "next"},
         s # "idle" /\ s # "next",
         a # Ingest => s \in Committing,
         s \in Committing \ {"take"} => job[a].todo # << >>,
         job[a].todo # << >> => s \in Committing \cup {"select"},
         job[a].copy # 0 <=> s \in Working
  PROVE  Going(job[a], s) \in JobType /\ JobOK(a, Going(job[a], s))
<1>1. job[a] \in JobType /\ JobOK(a, job[a])
  BY DEF TypeInv, JobsOK
<1> QED
  BY <1>1, GoingFields DEF JobOK

LEMMA AgentIs == \A a \in Agents : a = Ingest <=> a \notin Requests
  BY IntakeAssumption DEF Agents

LEMMA CopiesAre ==
  ASSUME Numbered(plans), NEW s \in Sources, NEW b \in Bookings
  PROVE  /\ Copies(s, b) \in Nat /\ CopyNos(plans, s, b) = 1 .. Copies(s, b)
         /\ CopiesOf(s, b) = {} <=> Copies(s, b) = 0
<1>1. PICK n \in Nat : CopyNos(plans, s, b) = 1 .. n
  BY DEF Numbered
<1>2. Copies(s, b) = n
  BY <1>1, CountCopies DEF Numbered, Copies, CopiesOf
<1>3. CopiesOf(s, b) = {} <=> CopyNos(plans, s, b) = {}
  BY DEF CopiesOf, CopyNos
<1>4. 1 .. n = {} <=> n = 0
  OBVIOUS
<1> QED
  BY <1>1, <1>2, <1>3, <1>4

\* The booking at hand, while there is one.
LEMMA BookingIs ==
  ASSUME TypeInv, JobsOK, NEW a \in Agents, job[a].todo # << >>
  PROVE  /\ Booking(a) \in Bookings /\ Booking(a) \in Range(job[a].todo)
         /\ job[a].source \in Sources /\ Booking(a) \in Range(Found[job[a].source])
         /\ Booking(a) \notin Range(Tail(job[a].todo))
         /\ Range(job[a].todo) = {Booking(a)} \cup Range(Tail(job[a].todo))
<1>1. job[a] \in JobType /\ JobOK(a, job[a]) /\ job[a].todo \in Seq(Bookings)
  BY DEF TypeInv, JobsOK, JobType
<1>2. job[a].step \notin {"idle", "next"} /\ Range(job[a].todo) \subseteq Range(Found[job[a].source])
  BY <1>1 DEF JobOK, Committing, Working
<1>3. job[a].source \in Sources
  BY <1>1, <1>2 DEF JobOK, Sources, Agents
<1>4. IsInjective(job[a].todo)
  BY <1>1 DEF JobOK
<1>5. /\ Booking(a) \in Bookings /\ Booking(a) \notin Range(Tail(job[a].todo))
      /\ Range(job[a].todo) = {Booking(a)} \cup Range(Tail(job[a].todo))
  BY <1>1, <1>4, TailFacts DEF Booking
<1> QED
  BY <1>2, <1>3, <1>5

LEMMA CommitJobs ==
  ASSUME TypeInv, JobsOK, Numbered(plans), NEW a \in Agents, CommitStep(a)
  PROVE  \E j \in JobType : JobOK(a, j) /\ job' = [job EXCEPT ![a] = j]
<1>j. job[a] \in JobType /\ JobOK(a, job[a]) /\ job[a].step \in Steps
  BY DEF TypeInv, JobsOK, JobType
<1>m. /\ \A s : GoTo(a, s) => job' = [job EXCEPT ![a] = Going(job[a], s)]
      /\ Skip(a) => job' = [job EXCEPT ![a] = Skipped(job[a])]
      /\ Answer(a) => job' = [job EXCEPT ![a] = IdleJob]
  BY JobMoves
<1>g. ASSUME NEW s \in Steps \ {"idle", "next"}, GoTo(a, s), job[a].step \notin {"idle", "next"},
             a # Ingest => s \in Committing,
             s \in Committing \ {"take"} => job[a].todo # << >>,
             job[a].todo # << >> => s \in Committing \cup {"select"},
             job[a].copy # 0 <=> s \in Working
      PROVE  \E j \in JobType : JobOK(a, j) /\ job' = [job EXCEPT ![a] = j]
  BY <1>g, <1>m, GoingOK
<1>r. ASSUME Skip(a) \/ Answer(a), job[a].step \in Committing \ {"take"}
      PROVE  \E j \in JobType : JobOK(a, j) /\ job' = [job EXCEPT ![a] = j]
  <2>1. job[a].todo # << >> /\ job[a].step \in Committing
    BY <1>r, <1>j DEF JobOK
  <2> QED
    BY <2>1, <1>r, <1>m, RefusedOK, NewJobs
<1>1. CASE Take(a)
  <2>1. job[a].step = "take" /\ job[a].copy = 0
    BY <1>1, <1>j DEF Take, At, JobOK, Working
  <2>2. CASE job[a].todo # << >>
    <3>1. GoTo(a, "check")
      BY <2>2, <1>1 DEF Take
    <3> QED
      BY <2>1, <2>2, <3>1, <1>g DEF Steps, Committing, Working
  <2>3. CASE job[a].todo = << >> /\ a = Ingest
    <3>1. GoTo(a, "log")
      BY <2>3, <1>1 DEF Take
    <3> QED
      BY <2>1, <2>3, <3>1, <1>g DEF Steps, Closing, Committing, Working
  <2>4. CASE job[a].todo = << >> /\ a # Ingest
    <3>1. job' = [job EXCEPT ![a] = IdleJob]
      BY <2>4, <1>1, <1>m DEF Take
    <3>2. JobOK(a, IdleJob)
      BY NewJobs, WhatIsFound DEF JobOK, Committing, Working
    <3> QED
      BY <3>1, <3>2, NewJobs
  <2> QED
    BY <2>2, <2>3, <2>4
<1>2. CASE Check(a)
  <2>1. job[a].step = "check" /\ job[a].copy = 0 /\ job[a].todo # << >>
    BY <1>2, <1>j DEF Check, At, JobOK, Committing, Working
  <2>2. CASE Skip(a)
    BY <2>1, <2>2, <1>r DEF Committing
  <2>3. CASE GoTo(a, "create")
    BY <2>1, <2>3, <1>g DEF Steps, Committing, Working
  <2> QED
    BY <2>2, <2>3, <1>2 DEF Check
<1>3. CASE CheckFails(a) \/ CreateFails(a) \/ Rollback(a)
  <2>1. job[a].step \in Committing \ {"take"} /\ (Skip(a) \/ Answer(a))
    BY <1>3 DEF CheckFails, CreateFails, Rollback, At, Refuse, Committing, Working
  <2> QED
    BY <2>1, <1>r
<1>4. CASE Create(a)
  <2> DEFINE j == [job[a] EXCEPT !.step = "aboard", !.copy = NextCopy(a)]
  <2>1. job[a].step = "create" /\ job[a].todo # << >>
    BY <1>4, <1>j DEF Create, At, JobOK, Committing, Working
  <2>2. job' = [job EXCEPT ![a] = j]
    BY <1>4 DEF Create, TypeInv
  <2>3. NextCopy(a) \in Nat \ {0}
    <3>1. Copies(job[a].source, Booking(a)) \in Nat
      BY <2>1, BookingIs, CopiesAre
    <3> QED
      BY <3>1 DEF NextCopy, Copies
  <2>4. /\ j \in JobType /\ j.step = "aboard" /\ j.source = job[a].source /\ j.todo = job[a].todo
        /\ j.copy # 0
    BY <2>3, <1>j DEF JobType, Steps, Committing, Working
  <2>5. JobOK(a, j)
    BY <2>1, <2>4, <1>j DEF JobOK, Committing, Working
  <2> QED
    BY <2>2, <2>4, <2>5
<1>5. CASE Extra(a) \/ ExtraFails(a)
  <2>1. job[a].step \in Working /\ job[a].copy # 0 /\ job[a].todo # << >>
    BY <1>5, <1>j DEF Extra, ExtraFails, JobOK, Range, Extras, Committing, Working
  <2>2. After(a, job[a].step) \in {"hide", "cancel", "done"}
    BY DEF After
  <2>3. CASE Skip(a)
    BY <2>1, <2>3, <1>r DEF Committing, Working
  <2>4. ASSUME NEW s \in Working, GoTo(a, s)
        PROVE  \E j \in JobType : JobOK(a, j) /\ job' = [job EXCEPT ![a] = j]
    BY <2>1, <2>4, <1>g DEF Steps, Committing, Working
  <2> QED
    BY <2>2, <2>3, <2>4, <1>5 DEF Extra, ExtraFails, Working
<1> QED
  BY <1>1, <1>2, <1>3, <1>4, <1>5 DEF CommitStep

----------------------------------------------------------------------------
(* What a step of Commit does to the stored plans *)

Owned(x, a) ==
  x.source = job[a].source /\ x.booking = Booking(a) /\ x.copy = job[a].copy

LEMMA ItsPlanIs ==
  ASSUME Base, NEW a \in Agents, job[a].step \in Working
  PROVE  \E x \in plans : ItsPlan(a) = {x} /\ Owned(x, a)
<1>1. job[a] \in JobType /\ JobOK(a, job[a]) /\ job[a].copy \in Nat /\ job[a].copy # 0
  BY DEF Base, TypeInv, JobsOK, JobType, JobOK
<1>2. job[a].copy \in CopyNos(plans, job[a].source, Booking(a))
  BY <1>1 DEF Base, Topped
<1>3. PICK x \in plans : Owned(x, a)
  BY <1>2 DEF CopyNos, Owned
<1>4. \A p \in plans : Owned(p, a) => p = x
  BY <1>3 DEF Base, Numbered, SameKey, Owned
<1>5. ItsPlan(a) = {x}
  BY <1>1, <1>3, <1>4 DEF ItsPlan, IsWith, Owned
<1> QED
  BY <1>3, <1>5

\* The plan Create stores: the next copy, with nobody aboard and not hidden.
LEMMA CreateAdds ==
  ASSUME Base, NEW a \in Agents, At(a, "create"), CreatePlan(a)
  PROVE  \E x \in PlanType :
           /\ x.source = job[a].source /\ x.booking = Booking(a)
           /\ x.copy = NextCopy(a) /\ NextCopy(a) = Copies(x.source, x.booking) + 1
           /\ ~x.aboard /\ ~x.hidden /\ plans' = plans \cup {x}
           /\ Numbered(plans') /\ CopyNos(plans', x.source, x.booking) = 1 .. NextCopy(a)
           /\ \A s, b : ~(s = x.source /\ b = x.booking)
                => CopyNos(plans', s, b) = CopyNos(plans, s, b)
<1> DEFINE x == [source |-> job[a].source, booking |-> Booking(a), copy |-> NextCopy(a),
                 aboard |-> FALSE, hidden |-> FALSE]
<1>1. job[a].todo # << >>
  BY DEF Base, JobsOK, JobOK, At, Committing, Working
<1>2. job[a].source \in Sources /\ Booking(a) \in Bookings
  BY <1>1, BookingIs DEF Base
<1>3. Copies(job[a].source, Booking(a)) \in Nat
      /\ CopyNos(plans, job[a].source, Booking(a)) = 1 .. Copies(job[a].source, Booking(a))
  BY <1>2, CopiesAre DEF Base
<1>4. NextCopy(a) = Copies(job[a].source, Booking(a)) + 1
  BY DEF NextCopy, Copies
<1>5. x \in PlanType /\ plans' = plans \cup {x}
  BY <1>2, <1>3, <1>4 DEF PlanType, CreatePlan
<1>6. plans \in SUBSET PlanType /\ Numbered(plans)
  BY DEF Base, TypeInv
<1>7. /\ x.source = job[a].source /\ x.booking = Booking(a) /\ x.copy = NextCopy(a)
      /\ ~x.aboard /\ ~x.hidden
  OBVIOUS
<1> HIDE DEF x
<1>8. /\ Numbered(plans \cup {x})
      /\ CopyNos(plans \cup {x}, x.source, x.booking) = 1 .. (Copies(job[a].source, Booking(a)) + 1)
      /\ \A s, b : ~(s = x.source /\ b = x.booking)
           => CopyNos(plans \cup {x}, s, b) = CopyNos(plans, s, b)
  BY <1>3, <1>4, <1>5, <1>6, <1>7, AddCopy
<1> QED
  BY <1>4, <1>5, <1>7, <1>8

\* An extra rewrites the plan at hand in place.
LEMMA EffectRewrites ==
  ASSUME Base, NEW a \in Agents, job[a].step \in Working, Effect(a)
  PROVE  \E x \in plans, y \in PlanType :
           /\ ItsPlan(a) = {x} /\ Owned(x, a) /\ SameKey(x, y)
           /\ y.aboard <=> x.aboard \/ At(a, "aboard")
           /\ y.hidden <=> x.hidden \/ At(a, "hide")
           /\ plans' = (plans \ {x}) \cup {y}
           /\ Numbered(plans') /\ \A s, b : CopyNos(plans', s, b) = CopyNos(plans, s, b)
<1>1. PICK x \in plans : ItsPlan(a) = {x} /\ Owned(x, a)
  BY ItsPlanIs
<1> DEFINE y == [x EXCEPT !.aboard = @ \/ At(a, "aboard"), !.hidden = @ \/ At(a, "hide")]
<1>2. x \in PlanType /\ plans \in SUBSET PlanType /\ Numbered(plans)
  BY DEF Base, TypeInv
<1>3. y \in PlanType
  BY <1>2 DEF PlanType, At
<1>4. SameKey(x, y) /\ (y.aboard <=> x.aboard \/ At(a, "aboard")) /\ (y.hidden <=> x.hidden \/ At(a, "hide"))
  BY <1>2 DEF PlanType, SameKey, At
<1>5. plans' = (plans \ {x}) \cup {y}
  BY <1>1 DEF Effect
<1> HIDE DEF y
<1>6. /\ Numbered((plans \ {x}) \cup {y})
      /\ \A s, b : CopyNos((plans \ {x}) \cup {y}, s, b) = CopyNos(plans, s, b)
  BY <1>2, <1>3, <1>4, RewriteCopy
<1> QED
  BY <1>1, <1>3, <1>4, <1>5, <1>6

LEMMA RollbackDrops ==
  ASSUME Base, NEW a \in Agents, job[a].step \in Working, plans' = plans \ ItsPlan(a)
  PROVE  \E x \in plans :
           /\ ItsPlan(a) = {x} /\ Owned(x, a) /\ plans' = plans \ {x}
           /\ Numbered(plans')
           /\ \A s, b : ~(s = x.source /\ b = x.booking)
                => CopyNos(plans', s, b) = CopyNos(plans, s, b)
           /\ CopyNos(plans', x.source, x.booking) = 1 .. (job[a].copy - 1)
<1>1. PICK x \in plans : ItsPlan(a) = {x} /\ Owned(x, a)
  BY ItsPlanIs
<1>2. plans \in SUBSET PlanType /\ Numbered(plans) /\ job[a].copy \in Nat /\ job[a].copy # 0
  BY DEF Base, TypeInv, JobsOK, JobOK, JobType
<1>3. CopyNos(plans, x.source, x.booking) = 1 .. job[a].copy /\ x.copy = job[a].copy
  BY <1>1 DEF Base, Topped, Owned
<1>4. /\ Numbered(plans \ {x})
      /\ CopyNos(plans \ {x}, x.source, x.booking) = 1 .. (job[a].copy - 1)
      /\ \A s, b : ~(s = x.source /\ b = x.booking)
           => CopyNos(plans \ {x}, s, b) = CopyNos(plans, s, b)
  BY <1>2, <1>3, DropCopy
<1> QED
  BY <1>1, <1>4

LEMMA CommitTouches ==
  ASSUME NEW a \in Agents, CommitStep(a)
  PROVE  /\ UNCHANGED <<inbox, queue, told, live>>
         /\ UNCHANGED left \/ Spend("fault") \/ Spend("lost")
         /\ job[a].step \in Committing
<1>1. Fails(a) \/ Works(a) \/ AnswerLost(a) => UNCHANGED left \/ Spend("fault") \/ Spend("lost")
  BY DEF Fails, Works, AnswerLost
<1>2. UNCHANGED disk => UNCHANGED <<inbox, queue>>
  BY DEF disk
<1>3. \A i : i \in Range(Extras) => i \in Working
  BY DEF Range, Extras, Working
<1>4. ASSUME Take(a) \/ Check(a) \/ CheckFails(a)
      PROVE  /\ UNCHANGED <<inbox, queue, told, live>>
             /\ UNCHANGED left \/ Spend("fault") \/ Spend("lost")
             /\ job[a].step \in Committing
  BY <1>1, <1>2, <1>4 DEF Take, Check, CheckFails, At, Committing
<1>5. ASSUME Create(a) \/ CreateFails(a)
      PROVE  /\ UNCHANGED <<inbox, queue, told, live>>
             /\ UNCHANGED left \/ Spend("fault") \/ Spend("lost")
             /\ job[a].step \in Committing
  BY <1>1, <1>2, <1>5 DEF Create, CreateFails, At, Committing
<1>6. ASSUME Extra(a) \/ ExtraFails(a) \/ Rollback(a)
      PROVE  /\ UNCHANGED <<inbox, queue, told, live>>
             /\ UNCHANGED left \/ Spend("fault") \/ Spend("lost")
             /\ job[a].step \in Committing
  BY <1>1, <1>2, <1>3, <1>6 DEF Extra, ExtraFails, Rollback, At, Committing, Working
<1> QED
  BY <1>4, <1>5, <1>6 DEF CommitStep

\* Where a job goes when its booking is skipped or its request answered.
LEMMA Refused ==
  ASSUME TypeInv, JobsOK, NEW a \in Agents, job[a].todo # << >>, Skip(a) \/ Answer(a)
  PROVE  /\ \/ job'[a].step = "take" /\ job'[a].source = job[a].source
               /\ job'[a].todo = Tail(job[a].todo)
            \/ job'[a].step = "idle" /\ job'[a].todo = << >>
         /\ job'[a].copy = 0 /\ job'[a].step \notin Working
         /\ \A c \in Agents : c # a => job'[c] = job[c]
<1>1. job[a] \in JobType /\ job \in [Agents -> JobType] /\ IsInjective(job[a].todo)
  BY DEF TypeInv, JobsOK, JobOK
<1>2. job' = [job EXCEPT ![a] = Skipped(job[a])] \/ job' = [job EXCEPT ![a] = IdleJob]
  BY JobMoves
<1> QED
  BY <1>1, <1>2, SkippedFields, NewJobs DEF Working

\* Two busy agents never have the same source.
LEMMA OtherSources ==
  ASSUME TypeInv, JobsOK, NEW a \in Agents, NEW c \in Agents, a # c,
         job[a].step \notin {"idle", "next"}, job[c].step \notin {"idle", "next"}
  PROVE  job[a].source # job[c].source
<1>1. /\ job[a].source \in (IF a = Ingest THEN Mails ELSE {a})
      /\ job[c].source \in (IF c = Ingest THEN Mails ELSE {c})
  BY DEF JobsOK, JobOK
<1>2. (a # Ingest => a \in Requests) /\ (c # Ingest => c \in Requests)
  BY DEF Agents
<1>3. Mails \cap Requests = {}
  BY IntakeAssumption
<1> QED
  BY <1>1, <1>2, <1>3

LEMMA CommitPlans ==
  ASSUME Base, NEW a \in Agents, CommitStep(a)
  PROVE  /\ plans' \in SUBSET PlanType /\ Numbered(plans')
         /\ \A s, b : s # job[a].source => CopyNos(plans', s, b) = CopyNos(plans, s, b)
         /\ job'[a].step \in Working
              => CopyNos(plans', job'[a].source, Head(job'[a].todo)) = 1 .. job'[a].copy
<1>b. TypeInv /\ JobsOK /\ Numbered(plans) /\ plans \in SUBSET PlanType
  BY DEF Base, TypeInv
<1>j. job[a] \in JobType /\ JobOK(a, job[a]) /\ job \in [Agents -> JobType]
  BY <1>b DEF TypeInv, JobsOK
<1>e. \A i : i \in Range(Extras) => i \in Working
  BY DEF Range, Extras, Working
<1>t. job[a].step \in Committing \ {"take"} => job[a].todo # << >>
  BY <1>j DEF JobOK
<1>r. Refuse(a) => Skip(a) \/ Answer(a)
  BY DEF Refuse
<1>g. ASSUME NEW s \in Steps, GoTo(a, s), job[a].step \in Working,
             \A t, b : CopyNos(plans', t, b) = CopyNos(plans, t, b)
      PROVE  job'[a].step \in Working
              => CopyNos(plans', job'[a].source, Head(job'[a].todo)) = 1 .. job'[a].copy
  <2>1. job' = [job EXCEPT ![a] = Going(job[a], s)]
    BY <1>g, <1>b, JobMoves
  <2>2. job'[a].source = job[a].source /\ job'[a].todo = job[a].todo /\ job'[a].copy = job[a].copy
    BY <2>1, <1>j, GoingFields
  <2> QED
    BY <2>2, <1>g DEF Base, Topped, Booking
<1>1. CASE Take(a) \/ Check(a)
  <2>1. UNCHANGED plans
    BY <1>1 DEF Take, Check, store
  <2>2. job'[a].step \notin Working
    <3>1. CASE \E s \in Steps \ Working : GoTo(a, s)
      BY <3>1, <1>b, <1>j, JobMoves, GoingFields
    <3>2. CASE Answer(a)
      BY <3>2, <1>b, <1>j, JobMoves, NewJobs DEF Working
    <3>3. CASE Skip(a) /\ job[a].step = "check"
      BY <3>3, <1>b, <1>t, Refused DEF Committing
    <3>4. "check" \in Steps \ Working /\ "log" \in Steps \ Working /\ "create" \in Steps \ Working
      BY DEF Steps, Committing, Working, Closing
    <3> QED
      BY <3>1, <3>2, <3>3, <3>4, <1>1 DEF Take, Check, At
  <2> QED
    BY <2>1, <2>2, <1>b
<1>2. CASE CheckFails(a)
  <2>1. UNCHANGED plans /\ (Skip(a) \/ Answer(a)) /\ job[a].todo # << >>
    BY <1>2, <1>t, <1>r DEF CheckFails, At, Committing, store
  <2> QED
    BY <2>1, <1>b, Refused
<1>3. CASE Create(a)
  <2>1. PICK x \in PlanType :
           /\ x.source = job[a].source /\ x.booking = Booking(a)
           /\ plans' = plans \cup {x}
           /\ Numbered(plans') /\ CopyNos(plans', x.source, x.booking) = 1 .. NextCopy(a)
           /\ \A s, b : ~(s = x.source /\ b = x.booking)
                => CopyNos(plans', s, b) = CopyNos(plans, s, b)
    BY <1>3, CreateAdds DEF Create
  <2>2. job'[a] = [job[a] EXCEPT !.step = "aboard", !.copy = NextCopy(a)]
    BY <1>3, <1>j DEF Create
  <2>3. job'[a].source = job[a].source /\ job'[a].todo = job[a].todo /\ job'[a].copy = NextCopy(a)
    BY <2>2, <1>j DEF JobType
  <2> QED
    BY <2>1, <2>3, <1>b DEF Booking
<1>4. CASE CreateFails(a)
  <2>1. job[a].todo # << >> /\ (Skip(a) \/ Answer(a)) /\ At(a, "create")
    BY <1>4, <1>t, <1>r DEF CreateFails, At, Committing
  <2>2. job'[a].step \notin Working
    BY <2>1, <1>b, Refused
  <2>3. CASE UNCHANGED plans
    BY <2>2, <2>3, <1>b
  <2>4. CASE CreatePlan(a)
    BY <2>1, <2>2, <2>4, <1>b, CreateAdds
  <2> QED
    BY <2>3, <2>4, <1>4 DEF CreateFails
<1>5. CASE Extra(a) \/ ExtraFails(a)
  <2>1. job[a].step \in Working /\ job[a].todo # << >>
    BY <1>5, <1>e, <1>t DEF Extra, ExtraFails, Committing, Working
  <2>2. /\ plans' \in SUBSET PlanType /\ Numbered(plans')
        /\ \A s, b : CopyNos(plans', s, b) = CopyNos(plans, s, b)
    <3>1. CASE UNCHANGED plans
      BY <3>1, <1>b
    <3>2. CASE Effect(a)
      BY <3>2, <2>1, <1>b, EffectRewrites
    <3> QED
      BY <3>1, <3>2, <1>5 DEF Extra, ExtraFails
  <2>3. CASE Skip(a)
    BY <2>1, <2>2, <2>3, <1>b, Refused
  <2>4. CASE \E s \in Steps : GoTo(a, s)
    BY <2>1, <2>2, <2>4, <1>g
  <2>5. After(a, job[a].step) \in {"hide", "cancel", "done"}
        /\ {"hide", "cancel", "rollback"} \subseteq Steps
    BY DEF After, Steps, Committing, Working
  <2> QED
    BY <2>3, <2>4, <2>5, <1>5 DEF Extra, ExtraFails
<1>6. CASE Rollback(a)
  <2>1. job[a].step \in Working /\ job[a].todo # << >> /\ (Skip(a) \/ Answer(a))
    BY <1>6, <1>t, <1>r DEF Rollback, At, Committing, Working
  <2>2. job'[a].step \notin Working
    BY <2>1, <1>b, Refused
  <2>3. CASE UNCHANGED plans
    BY <2>2, <2>3, <1>b
  <2>4. CASE plans' = plans \ ItsPlan(a)
    <3>1. PICK x \in plans :
           /\ Owned(x, a) /\ Numbered(plans')
           /\ \A s, b : ~(s = x.source /\ b = x.booking)
                => CopyNos(plans', s, b) = CopyNos(plans, s, b)
      BY <2>1, <2>4, RollbackDrops
    <3> QED
      BY <2>2, <2>4, <3>1, <1>b DEF Owned
  <2> QED
    BY <2>3, <2>4, <1>6 DEF Rollback
<1> QED
  BY <1>1, <1>2, <1>3, <1>4, <1>5, <1>6 DEF CommitStep

LEMMA CommitBase ==
  ASSUME Base, NEW a \in Agents, CommitStep(a)
  PROVE  Base'
<1>b. TypeInv /\ JobsOK /\ Numbered(plans)
  BY DEF Base
<1>1. PICK j \in JobType : JobOK(a, j) /\ job' = [job EXCEPT ![a] = j]
  BY <1>b, CommitJobs
<1>2. /\ job' \in [Agents -> JobType] /\ JobsOK'
      /\ \A c \in Agents : c # a => job'[c] = job[c]
  BY <1>1, <1>b, JobSet
<1>3. LeftOK'
  BY <1>b, CommitTouches, SpendCounts, SameLeft DEF TypeInv, Sorts
<1>4. TypeInv'
  BY <1>2, <1>3, <1>b, CommitTouches, CommitPlans DEF TypeInv
<1>5. ASSUME NEW c \in Agents, job'[c].step \in Working
      PROVE  CopyNos(plans', job'[c].source, Booking(c)') = 1 .. job'[c].copy
  <2>1. CASE c = a
    BY <2>1, <1>5, CommitPlans DEF Booking
  <2>2. CASE c # a
    <3>1. job'[c] = job[c] /\ Booking(c)' = Booking(c)
      BY <2>2, <1>2 DEF Booking
    <3>2. job[c].source # job[a].source
      BY <2>2, <3>1, <1>5, <1>b, CommitTouches, OtherSources DEF Committing, Working
    <3>3. CopyNos(plans', job[c].source, Booking(c)) = CopyNos(plans, job[c].source, Booking(c))
      BY <3>2, CommitPlans
    <3>4. CopyNos(plans, job[c].source, Booking(c)) = 1 .. job[c].copy
      BY <3>1, <1>5 DEF Base, Topped
    <3> QED
      BY <3>1, <3>3, <3>4
  <2> QED
    BY <2>1, <2>2
<1> QED
  BY <1>2, <1>4, <1>5, CommitPlans DEF Base, Topped

\* The steps of the loop outside Commit, of a request outside Commit, and of
\* the world leave the plans alone.
LoopOnly ==
  \/ StartDrain \/ EndDrain
  \/ \E m \in Mails : NextFile(m)
  \/ Admit \/ AdmitFails \/ Extract \/ ExtractFails \/ Panic
  \/ SelectTripForBatch \/ SelectFails \/ LogIngest \/ Reply \/ Remove \/ SetAside

\* The end of a life of the process.
Ends == Die /\ ((~live[Ingest] /\ UNCHANGED left) \/ Spend("crash"))

LEMMA NextCases ==
  ASSUME [Next]_vars
  PROVE  \/ LoopOnly
         \/ \E a \in Agents : CommitStep(a)
         \/ \E r \in Requests : Request(r) \/ Disconnect(r)
         \/ Shutdown \/ Ends \/ UNCHANGED vars
BY DEF Next, LoopStep, LoopOnly, Exit, Crash, Ends, Agents

\* What a job of the loop becomes outside Commit.
LEMMA LoopJobs ==
  ASSUME TypeInv, JobsOK, LoopOnly
  PROVE  /\ UNCHANGED <<plans, cancelled, live>>
         /\ \E j \in JobType :
              JobOK(Ingest, j) /\ j.step \notin Working /\ job' = [job EXCEPT ![Ingest] = j]
<1>j. /\ Ingest \in Agents /\ job[Ingest] \in JobType /\ JobOK(Ingest, job[Ingest])
      /\ job \in [Agents -> JobType]
  BY DEF TypeInv, JobsOK, Agents
<1>m. /\ \A s : GoTo(Ingest, s) => job' = [job EXCEPT ![Ingest] = Going(job[Ingest], s)]
      /\ LeaveFile => job' = [job EXCEPT ![Ingest] = NextJob]
  BY <1>j, JobMoves
<1>n. JobOK(Ingest, IdleJob) /\ JobOK(Ingest, NextJob)
  BY NewJobs, WhatIsFound DEF JobOK, Committing, Working
<1>w. /\ {"idle", "next"} \cap Working = {}
      /\ {"take", "poison", "extract", "select", "reply", "remove"} \subseteq Steps \ Working
      /\ "next" \in Steps
  BY DEF Working, Steps, Committing, Reading, Closing
<1>g. ASSUME NEW s \in Steps \ Working, GoTo(Ingest, s), job[Ingest].step \notin {"idle", "next"},
             s \notin {"idle", "next"}, s \in Committing => s = "take",
             job[Ingest].todo # << >> => s \in Committing \cup {"select"},
             job[Ingest].copy = 0
      PROVE  \E j \in JobType :
               JobOK(Ingest, j) /\ j.step \notin Working /\ job' = [job EXCEPT ![Ingest] = j]
  BY <1>g, <1>j, <1>m, GoingOK, GoingFields
<1>1. CASE StartDrain
  <2>1. job' = [job EXCEPT ![Ingest] = Going(job[Ingest], "next")] /\ job[Ingest].step = "idle"
    BY <1>1, <1>m DEF StartDrain, At
  <2>2. JobOK(Ingest, Going(job[Ingest], "next"))
    BY <2>1, <1>j, <1>w, GoingFields DEF JobOK, Committing, Working
  <2> QED
    BY <2>1, <2>2, <1>1, <1>j, <1>w, GoingFields DEF StartDrain, store
<1>2. CASE EndDrain
  BY <1>2, <1>n, <1>w, NewJobs DEF EndDrain, store
<1>3. ASSUME NEW m \in Mails, NextFile(m)
      PROVE  /\ UNCHANGED <<plans, cancelled, live>>
             /\ \E j \in JobType :
                  JobOK(Ingest, j) /\ j.step \notin Working /\ job' = [job EXCEPT ![Ingest] = j]
  <2>1. JobOK(Ingest, Reader(m))
    BY NewJobs, WhatIsFound DEF JobOK, Committing, Working
  <2>2. job' = [job EXCEPT ![Ingest] = Reader(m)]
    BY <1>3 DEF NextFile, Reader
  <2> QED
    BY <2>1, <2>2, <1>3, NewJobs DEF NextFile, store, Working
<1>4. CASE AdmitFails \/ ExtractFails \/ Remove \/ SetAside
  <2>1. LeaveFile /\ UNCHANGED <<plans, cancelled, live>>
    BY <1>4 DEF AdmitFails, ExtractFails, Remove, SetAside, MoveFile, store
  <2> QED
    BY <2>1, <1>m, <1>n, <1>w, NewJobs
<1>5. CASE Extract
  <2> DEFINE j == [job[Ingest] EXCEPT !.step = "select", !.todo = Found[Mail]]
  <2>1. job' = [job EXCEPT ![Ingest] = j] /\ job[Ingest].step = "extract"
    BY <1>5, <1>j DEF Extract, At
  <2>2. Mail \in Mails /\ Found[Mail] \in Seq(Bookings) /\ IsInjective(Found[Mail]) /\ job[Ingest].copy = 0
    BY <2>1, <1>j, WhatIsFound DEF JobOK, Mail, Sources, Working
  <2>3. /\ j \in JobType /\ j.step = "select" /\ j.source = Mail /\ j.todo = Found[Mail] /\ j.copy = 0
    BY <2>2, <1>j, <1>w DEF JobType, Mail
  <2>4. JobOK(Ingest, j)
    BY <2>2, <2>3 DEF JobOK, Committing, Working
  <2> QED
    BY <2>1, <2>3, <2>4, <1>5, <1>w DEF Extract, store
<1>6. CASE SelectFails
  <2> DEFINE j == [job[Ingest] EXCEPT !.step = "log", !.todo = << >>]
  <2>1. job' = [job EXCEPT ![Ingest] = j] /\ job[Ingest].step = "select"
    BY <1>6, <1>j DEF SelectFails, At
  <2>2. /\ j \in JobType /\ j.step = "log" /\ j.source = job[Ingest].source /\ j.todo = << >>
        /\ j.copy = job[Ingest].copy
    BY <1>j, WhatIsFound DEF JobType, Steps, Closing
  <2>3. JobOK(Ingest, j)
    BY <2>1, <2>2, <1>j, WhatIsFound DEF JobOK, Committing, Working
  <2> QED
    BY <2>1, <2>2, <2>3, <1>6 DEF SelectFails, store, Working
<1>7. CASE Admit \/ Panic \/ SelectTripForBatch \/ LogIngest \/ Reply
  <2>1. UNCHANGED <<plans, cancelled, live>>
    BY <1>7 DEF Admit, Panic, SelectTripForBatch, LogIngest, Reply, store
  <2>2. PICK s \in {"take", "poison", "extract", "reply", "remove"} :
             GoTo(Ingest, s) /\ (job[Ingest].step = "select" <=> s = "take")
    BY <1>7 DEF Admit, Panic, SelectTripForBatch, LogIngest, Reply, At
  <2>3. job[Ingest].step \in {"read", "extract", "select", "log", "reply"}
    BY <1>7 DEF Admit, Panic, SelectTripForBatch, LogIngest, Reply, At
  <2>4. /\ job[Ingest].copy = 0 /\ job[Ingest].step \notin {"idle", "next"}
        /\ job[Ingest].todo # << >> => job[Ingest].step = "select"
    BY <2>3, <1>j DEF JobOK, Committing, Working
  <2>5. s \in Steps \ Working /\ s \notin {"idle", "next"} /\ (s \in Committing => s = "take")
    BY <1>w, <2>2 DEF Committing, Working
  <2> QED
    BY <2>1, <2>2, <2>4, <2>5, <1>g DEF Committing
<1> QED
  BY <1>1, <1>2, <1>3, <1>4, <1>5, <1>6, <1>7 DEF LoopOnly

LEMMA LoopTouches ==
  ASSUME TypeInv, JobsOK, LoopOnly
  PROVE  /\ inbox' \in [Mails -> {"new", "failed", "gone"}] /\ queue' \subseteq Mails
         /\ told' \in [Mails -> SUBSET Bookings]
         /\ UNCHANGED left \/ Spend("fault") \/ Spend("move")
<1>j. job[Ingest].step \notin {"idle", "next"} => Mail \in Mails
  BY DEF JobsOK, JobOK, Agents, Mail
<1>f. /\ Works(Ingest) => UNCHANGED left
      /\ Fails(Ingest) => UNCHANGED left \/ Spend("fault")
  BY DEF Works, Fails
<1>1. CASE StartDrain \/ EndDrain \/ \E m \in Mails : NextFile(m)
  BY <1>1 DEF StartDrain, EndDrain, NextFile, TypeInv, disk
<1>2. CASE Admit \/ AdmitFails \/ Extract \/ ExtractFails \/ Panic \/ SelectTripForBatch
             \/ SelectFails \/ LogIngest
  BY <1>2, <1>f
     DEF Admit, AdmitFails, Extract, ExtractFails, Panic, SelectTripForBatch, SelectFails,
         LogIngest, TypeInv, disk
<1>3. CASE Reply
  <2>1. Mail \in Mails /\ Range(Found[Mail]) \in SUBSET Bookings
    BY <1>3, <1>j, WhatIsFound DEF Reply, At, Sources
  <2>2. told' \in [Mails -> SUBSET Bookings]
    BY <2>1, <1>3 DEF Reply, TypeInv
  <2> QED
    BY <2>2, <1>3, <1>f DEF Reply, TypeInv, disk
<1>4. CASE Remove \/ SetAside
  <2>1. Mail \in Mails
    BY <1>4, <1>j DEF Remove, SetAside, MoveFile, At
  <2>2. inbox' \in [Mails -> {"new", "failed", "gone"}]
    BY <2>1, <1>4 DEF Remove, SetAside, MoveFile, TypeInv
  <2> QED
    BY <2>2, <1>4 DEF Remove, SetAside, MoveFile, TypeInv
<1> QED
  BY <1>1, <1>2, <1>3, <1>4 DEF LoopOnly

\* An agent outside Commit moves on: what the others see to is untouched.
LEMMA QuietTopped ==
  ASSUME Base, UNCHANGED plans, NEW a \in Agents, NEW j \in JobType, JobOK(a, j),
         j.step \notin Working, job' = [job EXCEPT ![a] = j]
  PROVE  job' \in [Agents -> JobType] /\ JobsOK' /\ Topped'
<1>1. /\ job' \in [Agents -> JobType] /\ JobsOK'
      /\ job'[a] = j /\ \A c \in Agents : c # a => job'[c] = job[c]
  BY JobSet DEF Base
<1> QED
  BY <1>1 DEF Base, Topped, Booking

LEMMA AllIdle ==
  ASSUME job' = [a \in Agents |-> IdleJob]
  PROVE  job' \in [Agents -> JobType] /\ JobsOK' /\ Topped'
<1>1. \A a \in Agents : job'[a] = IdleJob
  OBVIOUS
<1>2. ASSUME NEW a \in Agents PROVE JobOK(a, IdleJob) /\ IdleJob.step \notin Working
  BY NewJobs, WhatIsFound DEF JobOK, Committing, Working
<1> QED
  BY <1>1, <1>2, NewJobs DEF JobsOK, Topped

LEMMA BaseStays == Base /\ [Next]_vars => Base'
<1> SUFFICES ASSUME Base, [Next]_vars PROVE Base'
  OBVIOUS
<1>b. TypeInv /\ JobsOK /\ Numbered(plans) /\ LeftOK
  BY DEF Base, TypeInv
<1>s. "fault" \in Sorts /\ "move" \in Sorts /\ "cut" \in Sorts /\ "stop" \in Sorts /\ "crash" \in Sorts
  BY DEF Sorts
<1>1. CASE LoopOnly
  <2>1. LeftOK'
    BY <1>1, <1>b, <1>s, LoopTouches, SpendCounts, SameLeft
  <2>2. UNCHANGED <<plans, live>> /\ job' \in [Agents -> JobType] /\ JobsOK' /\ Topped'
    BY <1>1, <1>b, LoopJobs, QuietTopped DEF Agents
  <2>3. TypeInv'
    BY <2>1, <2>2, <1>1, <1>b, LoopTouches DEF TypeInv
  <2> QED
    BY <2>2, <2>3, <1>b DEF Base
<1>2. CASE \E a \in Agents : CommitStep(a)
  BY <1>2, CommitBase
<1>3. ASSUME NEW r \in Requests, Request(r) PROVE Base'
  <2>1. /\ r \in Agents /\ r # Ingest /\ job' = [job EXCEPT ![r] = Sent(r)]
        /\ UNCHANGED <<inbox, queue, plans, told, live, left>>
    BY <1>3, IntakeAssumption DEF Request, Sent, Agents, disk, store
  <2>2. JobOK(r, Sent(r))
    BY <2>1, NewJobs, WhatIsFound DEF JobOK, Sources, Committing, Working
  <2>3. job' \in [Agents -> JobType] /\ JobsOK' /\ Topped'
    BY <2>1, <2>2, NewJobs, QuietTopped DEF Working
  <2>4. TypeInv'
    BY <2>1, <2>3, <1>b, SameLeft DEF TypeInv
  <2> QED
    BY <2>1, <2>3, <2>4, <1>b DEF Base
<1>4. CASE Shutdown \/ \E r \in Requests : Disconnect(r)
  <2>1. /\ UNCHANGED <<inbox, queue, plans, told, job>> /\ live' \in [Agents -> BOOLEAN]
        /\ Spend("cut") \/ Spend("stop")
    BY <1>4, <1>b DEF Shutdown, Disconnect, disk, store, TypeInv
  <2>2. LeftOK'
    BY <2>1, <1>b, <1>s, SpendCounts
  <2>3. TypeInv' /\ JobsOK' /\ Topped'
    BY <2>1, <2>2, <1>b DEF TypeInv, JobsOK, Base, Topped, Booking
  <2> QED
    BY <2>1, <2>3, <1>b DEF Base
<1>5. CASE Ends
  <2>1. /\ UNCHANGED <<inbox, plans, told>> /\ queue' = {} /\ job' = [a \in Agents |-> IdleJob]
        /\ live' \in [Agents -> BOOLEAN]
        /\ (UNCHANGED left) \/ Spend("crash")
    BY <1>5 DEF Ends, Die, store
  <2>2. LeftOK'
    BY <2>1, <1>b, <1>s, SpendCounts, SameLeft
  <2>3. job' \in [Agents -> JobType] /\ JobsOK' /\ Topped'
    BY <2>1, AllIdle
  <2>4. TypeInv'
    BY <2>1, <2>2, <2>3, <1>b DEF TypeInv
  <2> QED
    BY <2>1, <2>3, <2>4, <1>b DEF Base
<1>6. CASE UNCHANGED vars
  <2>1. UNCHANGED <<inbox, queue, plans, told, job, live, left>>
    BY <1>6 DEF vars, disk, store
  <2>2. TypeInv' /\ JobsOK' /\ Topped'
    BY <2>1, <1>b, SameLeft DEF TypeInv, JobsOK, Base, Topped, Booking
  <2> QED
    BY <2>1, <2>2, <1>b DEF Base
<1> QED
  BY <1>1, <1>2, <1>3, <1>4, <1>5, <1>6, NextCases

LEMMA BaseInit == Init => Base
<1> SUFFICES ASSUME Init PROVE Base
  OBVIOUS
<1>1. \A a \in Agents : job[a] = IdleJob
  BY DEF Init
<1>2. ASSUME NEW a \in Agents PROVE JobOK(a, IdleJob) /\ IdleJob.step \notin Working
  BY NewJobs, WhatIsFound DEF JobOK, Committing, Working
<1>3. JobsOK /\ Topped /\ job \in [Agents -> JobType]
  BY <1>1, <1>2, NewJobs DEF JobsOK, Topped, Init
<1>4. LeftOK
  BY IntakeAssumption DEF Init, LeftOK
<1>5. TypeInv
  BY <1>3, <1>4 DEF Init, TypeInv
<1>6. Numbered(plans)
  <2>1. 0 \in Nat /\ 1 .. 0 = {} /\ \A s, b : CopyNos({}, s, b) = {}
    BY DEF CopyNos
  <2> QED
    BY <2>1 DEF Init, Numbered
<1> QED
  BY <1>3, <1>5, <1>6 DEF Base

----------------------------------------------------------------------------
(* What is used up is never given back *)

LEMMA NextLeft ==
  ASSUME Base, [Next]_vars
  PROVE  \/ UNCHANGED left
         \/ \E s \in Sorts : Spend(s)
<1>b. TypeInv /\ JobsOK
  BY DEF Base
<1>1. ASSUME LoopOnly PROVE UNCHANGED left \/ \E s \in Sorts : Spend(s)
  BY <1>1, <1>b, LoopTouches DEF Sorts
<1>2. ASSUME NEW a \in Agents, CommitStep(a) PROVE UNCHANGED left \/ \E s \in Sorts : Spend(s)
  BY <1>2, CommitTouches DEF Sorts
<1>3. ASSUME NEW r \in Requests, Request(r) \/ Disconnect(r)
      PROVE  UNCHANGED left \/ \E s \in Sorts : Spend(s)
  BY <1>3 DEF Request, Disconnect, Sorts
<1>4. ASSUME Shutdown \/ Ends PROVE UNCHANGED left \/ \E s \in Sorts : Spend(s)
  BY <1>4 DEF Shutdown, Ends, Sorts
<1> QED
  BY <1>1, <1>2, <1>3, <1>4, NextCases DEF vars

LEMMA UsedGrows ==
  ASSUME Base, [Next]_vars
  PROVE  \A s \in Sorts : Used(s) \in Nat /\ Used(s)' \in Nat /\ Used(s)' >= Used(s)
<1>1. LeftOK
  BY DEF Base, TypeInv
<1>2. LeftOK' /\ \A s \in Sorts : Used(s) \in Nat
  BY <1>1, BaseStays, UsedIsNat DEF Base, TypeInv
<1>3. CASE UNCHANGED left
  BY <1>1, <1>2, <1>3, SameLeft
<1>4. ASSUME NEW s \in Sorts, Spend(s) PROVE \A t \in Sorts : Used(t)' \in Nat /\ Used(t)' >= Used(t)
  <2>1. Used(s)' = Used(s) + 1 /\ \A t \in Sorts \ {s} : Used(t)' = Used(t)
    BY <1>1, <1>4, SpendCounts
  <2> QED
    BY <2>1, <1>2
<1> QED
  BY <1>2, <1>3, <1>4, NextLeft

\* A context is dead only after a client went away or the server was told to
\* stop in this life of the process.
LiveSpent ==
  /\ \A r \in Requests : ~live[r] => Used("cut") > 0
  /\ ~live[Ingest] => Used("stop") > 0

LEMMA LiveSpentStays ==
  ASSUME Base, LiveSpent, [Next]_vars
  PROVE  LiveSpent'
<1>b. TypeInv /\ JobsOK /\ LeftOK /\ live \in [Agents -> BOOLEAN]
      /\ "cut" \in Sorts /\ "stop" \in Sorts
  BY DEF Base, TypeInv, Sorts
<1>u. \A s \in Sorts : Used(s) \in Nat /\ Used(s)' \in Nat /\ Used(s)' >= Used(s)
  BY UsedGrows
<1>1. CASE UNCHANGED live
  BY <1>1, <1>b, <1>u DEF LiveSpent
<1>2. ASSUME NEW r \in Requests, Disconnect(r) PROVE LiveSpent'
  <2>1. Used("cut")' = Used("cut") + 1 /\ live' = [live EXCEPT ![r] = FALSE] /\ r # Ingest
    BY <1>2, <1>b, SpendCounts, IntakeAssumption DEF Disconnect
  <2>2. live'[Ingest] = live[Ingest]
    BY <2>1, <1>b DEF Agents
  <2> QED
    BY <2>1, <2>2, <1>b, <1>u DEF LiveSpent
<1>3. CASE Shutdown
  <2>1. /\ Used("stop")' = Used("stop") + 1 /\ live' = [live EXCEPT ![Ingest] = FALSE]
        /\ Ingest \notin Requests
    BY <1>3, <1>b, SpendCounts, IntakeAssumption DEF Shutdown
  <2>2. \A r \in Requests : live'[r] = live[r]
    BY <2>1, <1>b DEF Agents
  <2> QED
    BY <2>1, <2>2, <1>b, <1>u DEF LiveSpent
<1>4. CASE Ends
  BY <1>4 DEF Ends, Die, LiveSpent, Agents
<1>5. ASSUME LoopOnly \/ (\E a \in Agents : CommitStep(a)) \/ (\E r \in Requests : Request(r))
             \/ UNCHANGED vars
      PROVE  UNCHANGED live
  BY <1>5, <1>b, LoopJobs, CommitTouches DEF Request, vars
<1> QED
  BY <1>1, <1>2, <1>3, <1>4, <1>5, NextCases

----------------------------------------------------------------------------
(* Which plan an agent is with *)

LEMMA NotWith ==
  ASSUME JobsOK, NEW c \in Agents, job[c].step \notin Working
  PROVE  \A p : ~IsWith(p, c)
BY DEF JobsOK, JobOK, IsWith

LEMMA NotWithNext ==
  ASSUME JobsOK', NEW c \in Agents, job'[c].step \notin Working
  PROVE  \A p : ~IsWith(p, c)'
BY DEF JobsOK, JobOK, IsWith

LEMMA OthersKeep ==
  ASSUME Base, NEW a \in Agents, CommitStep(a)
  PROVE  \A c \in Agents \ {a} : /\ job'[c] = job[c]
                                 /\ \A p : IsWith(p, c)' <=> IsWith(p, c)
<1>1. \A c \in Agents \ {a} : job'[c] = job[c]
  BY CommitJobs, JobSet DEF Base
<1> QED
  BY <1>1 DEF IsWith, Booking

\* An agent that sees to a plan keeps to it until it is done with it.
LEMMA WorkingMoves ==
  ASSUME Base, NEW a \in Agents, CommitStep(a), job[a].step \in Working
  PROVE  /\ job[a].todo # << >> /\ job[a].step \in Committing \ {"take"}
         /\ Extra(a) \/ ExtraFails(a) \/ Rollback(a)
         /\ \/ job'[a].step \notin Working
            \/ /\ job'[a].source = job[a].source /\ job'[a].todo = job[a].todo
               /\ job'[a].copy = job[a].copy
               /\ \A p : IsWith(p, a)' <=> IsWith(p, a)
<1>b. TypeInv /\ JobsOK /\ job[a] \in JobType
  BY DEF Base, TypeInv
<1>1. Extra(a) \/ ExtraFails(a) \/ Rollback(a)
  BY DEF CommitStep, Take, Check, CheckFails, Create, CreateFails, At, Working
<1>2. job[a].todo # << >> /\ job[a].step \in Committing \ {"take"}
  BY <1>b DEF JobsOK, JobOK, Committing, Working
<1>3. CASE Skip(a) \/ Answer(a)
  BY <1>2, <1>3, <1>1, <1>b, Refused
<1>4. ASSUME NEW s \in Steps, GoTo(a, s)
      PROVE  /\ job'[a].source = job[a].source /\ job'[a].todo = job[a].todo
             /\ job'[a].copy = job[a].copy
             /\ \A p : IsWith(p, a)' <=> IsWith(p, a)
  <2>1. job' = [job EXCEPT ![a] = Going(job[a], s)] /\ job \in [Agents -> JobType]
    BY <1>4, <1>b, JobMoves DEF TypeInv
  <2>2. job'[a].source = job[a].source /\ job'[a].todo = job[a].todo /\ job'[a].copy = job[a].copy
    BY <2>1, <1>b, GoingFields
  <2> QED
    BY <2>2 DEF IsWith, Booking
<1>5. After(a, job[a].step) \in {"hide", "cancel", "done"}
      /\ {"hide", "cancel", "rollback"} \subseteq Steps
  BY DEF After, Steps, Committing, Working
<1> QED
  BY <1>1, <1>2, <1>3, <1>4, <1>5 DEF Extra, ExtraFails, Rollback, Refuse

Quiet(a) ==
  /\ UNCHANGED <<plans, cancelled>>
  /\ job[a].step \notin Working /\ job'[a].step \notin Working

LEMMA QuietOrNot ==
  ASSUME Base, NEW a \in Agents, CommitStep(a)
  PROVE  \/ Quiet(a)
         \/ Create(a)
         \/ /\ At(a, "create") /\ ~Duplicate(a) /\ CreatePlan(a) /\ Spend("lost") /\ Refuse(a)
            /\ UNCHANGED cancelled /\ job'[a].step \notin Working
         \/ Extra(a) \/ ExtraFails(a) \/ Rollback(a)
<1>b. TypeInv /\ JobsOK /\ job[a] \in JobType /\ job \in [Agents -> JobType]
  BY DEF Base, TypeInv
<1>t. job[a].step \in Committing \ {"take"} => job[a].todo # << >>
  BY <1>b DEF JobsOK, JobOK
<1>1. CASE Take(a)
  <2>1. UNCHANGED <<plans, cancelled>> /\ job[a].step = "take"
    BY <1>1 DEF Take, store, At
  <2>2. "check" \in Steps \ Working /\ "log" \in Steps \ Working
    BY DEF Steps, Committing, Closing, Working
  <2>3. job'[a].step \notin Working
    BY <1>1, <1>b, <2>2, JobMoves, GoingFields, NewJobs DEF Take, Working
  <2> QED
    BY <2>1, <2>3 DEF Quiet, Working
<1>2. CASE Check(a)
  <2>1. UNCHANGED <<plans, cancelled>> /\ job[a].step = "check" /\ job[a].todo # << >>
    BY <1>2, <1>t DEF Check, store, At, Committing
  <2>2. CASE Skip(a)
    BY <2>1, <2>2, <1>b, Refused DEF Quiet, Working
  <2>3. CASE GoTo(a, "create")
    <3>1. job'[a].step = "create"
      BY <2>3, <1>b, JobMoves, GoingFields DEF Steps, Committing
    <3> QED
      BY <2>1, <3>1 DEF Quiet, Working
  <2> QED
    BY <2>2, <2>3, <1>2 DEF Check
<1>3. CASE CheckFails(a)
  <2>1. UNCHANGED <<plans, cancelled>> /\ job[a].step = "check" /\ job[a].todo # << >>
        /\ (Skip(a) \/ Answer(a))
    BY <1>3, <1>t DEF CheckFails, store, At, Refuse, Committing
  <2> QED
    BY <2>1, <1>b, Refused DEF Quiet, Working
<1>4. CASE CreateFails(a)
  <2>1. UNCHANGED cancelled /\ job[a].step = "create" /\ job[a].todo # << >>
        /\ (Skip(a) \/ Answer(a)) /\ Refuse(a)
    BY <1>4, <1>t DEF CreateFails, store, At, Refuse, Committing
  <2>2. job'[a].step \notin Working
    BY <2>1, <1>b, Refused
  <2> QED
    BY <2>1, <2>2, <1>4 DEF CreateFails, Quiet, AnswerLost, Working, At
<1> QED
  BY <1>1, <1>2, <1>3, <1>4 DEF CommitStep

\* The clean-up, and an extra that works or fails, touch at most the plan at
\* hand.
LEMMA WorkingPlans ==
  ASSUME Base, NEW a \in Agents, Extra(a) \/ ExtraFails(a) \/ Rollback(a)
  PROVE  /\ job[a].step \in Working
         /\ \E x \in plans :
              /\ ItsPlan(a) = {x} /\ Owned(x, a) /\ IsWith(x, a)
              /\ \/ plans' = plans
                 \/ \E y \in PlanType : SameKey(x, y) /\ plans' = (plans \ {x}) \cup {y}
                 \/ plans' = plans \ {x} /\ Rollback(a)
<1>1. job[a].step \in Working
  BY DEF Extra, ExtraFails, Rollback, At, Range, Extras, Working
<1>2. PICK x \in plans : ItsPlan(a) = {x} /\ Owned(x, a)
  BY <1>1, ItsPlanIs
<1>3. IsWith(x, a)
  BY <1>2 DEF ItsPlan
<1>4. CASE Effect(a)
  BY <1>1, <1>2, <1>3, <1>4, EffectRewrites
<1>5. Effect(a) \/ plans' = plans \/ (plans' = plans \ {x} /\ Rollback(a))
  BY <1>2 DEF Extra, ExtraFails, Rollback
<1> QED
  BY <1>1, <1>2, <1>3, <1>4, <1>5

----------------------------------------------------------------------------
(* A plan at rest stays, and stays at rest *)

LEMMA RestStays ==
  ASSUME Base, NEW a \in Agents, CommitStep(a), NEW p \in plans, AtRest(p)
  PROVE  p \in plans' /\ AtRest(p)'
<1>b. JobsOK' /\ JobsOK
  BY CommitBase DEF Base
<1>o. \A c \in Agents \ {a} : IsWith(p, c)' <=> IsWith(p, c)
  BY OthersKeep
<1>n. job'[a].step \notin Working => ~IsWith(p, a)'
  BY <1>b, NotWithNext
<1>s. SUFFICES p \in plans' /\ ~IsWith(p, a)'
  BY <1>o DEF AtRest
<1>w. ~IsWith(p, a)
  BY DEF AtRest
<1>1. CASE Quiet(a)
  BY <1>1, <1>n DEF Quiet
<1>2. CASE CreatePlan(a) /\ At(a, "create") /\ job'[a].step \notin Working
  BY <1>2, <1>n DEF CreatePlan
<1>3. CASE Create(a)
  <2>1. PICK x \in PlanType :
           /\ x.source = job[a].source /\ x.booking = Booking(a) /\ x.copy = NextCopy(a)
           /\ NextCopy(a) = Copies(x.source, x.booking) + 1 /\ plans' = plans \cup {x}
    BY <1>3, CreateAdds DEF Create
  <2>2. Copies(x.source, x.booking) \in Nat
        /\ CopyNos(plans, x.source, x.booking) = 1 .. Copies(x.source, x.booking)
    BY CopiesAre DEF Base, PlanType
  <2>3. NextCopy(a) \notin CopyNos(plans, x.source, x.booking)
    BY <2>1, <2>2
  <2>4. job'[a] = [job[a] EXCEPT !.step = "aboard", !.copy = NextCopy(a)] /\ job[a] \in JobType
    BY <1>3 DEF Create, Base, TypeInv
  <2>5. job'[a].source = job[a].source /\ job'[a].todo = job[a].todo /\ job'[a].copy = NextCopy(a)
    BY <2>4 DEF JobType
  <2>6. IsWith(p, a)' => NextCopy(a) \in CopyNos(plans, x.source, x.booking)
    BY <2>1, <2>5 DEF IsWith, Booking, CopyNos
  <2> QED
    BY <2>1, <2>3, <2>6
<1>4. CASE Extra(a) \/ ExtraFails(a) \/ Rollback(a)
  <2>1. job[a].step \in Working /\ \E x \in plans : IsWith(x, a)
          /\ (plans' = plans \/ plans' = plans \ {x} \/ \E y : plans' = (plans \ {x}) \cup {y})
    BY <1>4, WorkingPlans
  <2>2. p \in plans'
    BY <2>1, <1>w
  <2> QED
    BY <2>1, <2>2, <1>n, <1>w, WorkingMoves
<1> QED
  BY <1>1, <1>2, <1>3, <1>4, QuietOrNot

\* Outside Commit nobody takes up a plan.
LEMMA QuietRest ==
  ASSUME Base, [Next]_vars, ~\E a \in Agents : CommitStep(a)
  PROVE  UNCHANGED <<plans, cancelled>> /\ \A p : AtRest(p) => AtRest(p)'
<1>b. TypeInv /\ JobsOK
  BY DEF Base
<1>1. ASSUME NEW a \in Agents, NEW j \in JobType, JobOK(a, j), j.step \notin Working,
             job' = [job EXCEPT ![a] = j]
      PROVE  \A p : AtRest(p) => AtRest(p)'
  <2>1. JobsOK' /\ job'[a] = j /\ \A c \in Agents : c # a => job'[c] = job[c]
    BY <1>1, <1>b, JobSet
  <2>2. \A p : ~IsWith(p, a)'
    BY <2>1, <1>1, NotWithNext
  <2>3. \A c \in Agents : c # a => \A p : IsWith(p, c)' <=> IsWith(p, c)
    BY <2>1 DEF IsWith, Booking
  <2> QED
    BY <2>2, <2>3 DEF AtRest
<1>2. CASE LoopOnly
  BY <1>2, <1>1, <1>b, LoopJobs DEF Agents
<1>3. ASSUME NEW r \in Requests, Request(r)
      PROVE  UNCHANGED <<plans, cancelled>> /\ \A p : AtRest(p) => AtRest(p)'
  <2>1. /\ r \in Agents /\ r # Ingest /\ job' = [job EXCEPT ![r] = Sent(r)]
        /\ UNCHANGED <<plans, cancelled>>
    BY <1>3, IntakeAssumption DEF Request, Sent, Agents, store
  <2>2. JobOK(r, Sent(r)) /\ Sent(r) \in JobType /\ Sent(r).step \notin Working
    BY <2>1, NewJobs, WhatIsFound DEF JobOK, Sources, Committing, Working
  <2> QED
    BY <2>1, <2>2, <1>1
<1>4. CASE Ends
  <2>1. UNCHANGED <<plans, cancelled>> /\ \A c \in Agents : job'[c] = IdleJob
    BY <1>4 DEF Ends, Die, store
  <2> QED
    BY <2>1 DEF AtRest, IsWith, IdleJob
<1>5. CASE Shutdown \/ (\E r \in Requests : Disconnect(r)) \/ UNCHANGED vars
  <2>1. UNCHANGED <<plans, cancelled, job>>
    BY <1>5 DEF Shutdown, Disconnect, vars, store
  <2> QED
    BY <2>1 DEF AtRest, IsWith, Booking
<1> QED
  BY <1>2, <1>3, <1>4, <1>5, NextCases

----------------------------------------------------------------------------
(* The superseded flight and its replacement *)

\* The replacement is not only stored: nobody is still at it who might delete
\* it again.
NoOrphan ==
  Used("lost") = 0 =>
    \A o \in cancelled : \E p \in plans : Replaces[p.booking] = o /\ AtRest(p)

LEMMA NoOrphanStays ==
  ASSUME Base, NoOrphan, [Next]_vars
  PROVE  NoOrphan'
<1> SUFFICES ASSUME Used("lost")' = 0, NEW o \in cancelled'
             PROVE  \E p \in plans' : Replaces[p.booking] = o /\ AtRest(p)'
  BY DEF NoOrphan
<1>u. Used("lost") = 0
  BY UsedGrows DEF Sorts
<1>l. ~Spend("lost")
  BY <1>u, SpendCounts DEF Base, TypeInv, Sorts
<1>1. ASSUME o \in cancelled,
             \A p \in plans : AtRest(p) => p \in plans' /\ AtRest(p)'
      PROVE  \E p \in plans' : Replaces[p.booking] = o /\ AtRest(p)'
  BY <1>1, <1>u DEF NoOrphan
<1>2. CASE ~\E a \in Agents : CommitStep(a)
  BY <1>2, <1>1, QuietRest
<1>3. ASSUME NEW a \in Agents, CommitStep(a)
      PROVE  \E p \in plans' : Replaces[p.booking] = o /\ AtRest(p)'
  <2>1. CASE o \in cancelled
    BY <2>1, <1>1, <1>3, RestStays
  <2>2. CASE o \notin cancelled
    <3>1. Extra(a) /\ At(a, "cancel") /\ o = Replaces[Booking(a)] /\ Effect(a)
      BY <2>2, <1>3, <1>l, QuietOrNot
         DEF Quiet, Create, Extra, ExtraFails, Rollback, Effect, AnswerLost
    <3>2. job[a].step \in Working
      BY <3>1 DEF At, Working
    <3>3. PICK x \in plans, y \in PlanType :
               Owned(x, a) /\ SameKey(x, y) /\ plans' = (plans \ {x}) \cup {y}
      BY <3>1, <3>2, EffectRewrites
    <3>4. y \in plans' /\ Replaces[y.booking] = o /\ y.source = job[a].source
      BY <3>1, <3>3 DEF Owned, SameKey
    <3>5. job'[a].step \notin Working
      <4>1. Skip(a)
        BY <3>1 DEF Extra, After, At
      <4> QED
        BY <4>1, <3>2, <1>3, WorkingMoves, Refused DEF Base
    <3>6. ~IsWith(y, a)'
      BY <3>5, <1>3, CommitBase, NotWithNext DEF Base
    <3>7. ASSUME NEW c \in Agents, c # a PROVE ~IsWith(y, c)'
      <4>1. IsWith(y, c)' <=> IsWith(y, c)
        BY <3>7, <1>3, OthersKeep
      <4>2. CASE job[c].step \in Working
        <5>1. job[c].source # job[a].source
          BY <4>2, <3>2, <3>7, OtherSources DEF Base, Working
        <5> QED
          BY <5>1, <4>1, <3>4 DEF IsWith
      <4>3. CASE job[c].step \notin Working
        BY <4>3, <4>1, NotWith DEF Base
      <4> QED
        BY <4>2, <4>3
    <3> QED
      BY <3>4, <3>6, <3>7 DEF AtRest
  <2> QED
    BY <2>1, <2>2
<1> QED
  BY <1>2, <1>3

\* A superseded flight is cancelled only while its replacement is stored,
\* unless the answer to a statement was lost: the old part is stamped last,
\* when nothing can fail any more that would delete the new plan
\* (commit.go:202-204).
THEOREM CancelledAreReplaced == Spec => []CancelledIsReplaced
<1>1. Init => NoOrphan
  BY DEF Init, NoOrphan
<1>2. Base /\ NoOrphan /\ [Next]_vars => Base' /\ NoOrphan'
  BY BaseStays, NoOrphanStays
<1>3. NoOrphan => CancelledIsReplaced
  BY DEF NoOrphan, CancelledIsReplaced
<1> QED
  BY <1>1, <1>2, <1>3, BaseInit, PTL DEF Spec

THEOREM TypeCorrect == Spec => []TypeInv
<1>1. Base => TypeInv
  BY DEF Base
<1> QED
  BY <1>1, BaseInit, BaseStays, PTL DEF Spec

----------------------------------------------------------------------------
(* Half a plan *)

Clean == Used("lost") + Used("cut") + Used("stop") + Used("crash") = 0

\* How far the plan at hand has come.
Furnished(a) ==
  \A p \in ItsPlan(a) :
    /\ job[a].step \in {"hide", "cancel"} => p.aboard
    /\ job[a].step = "cancel" /\ p.booking \in Hides => p.hidden

\* Without a lost answer or a dead context, whoever cleans up has met one
\* failure, and a plan left half done has met a second, in the clean-up.
NoHalves ==
  Clean => /\ \A p \in plans : Half(p) /\ AtRest(p) => Used("fault") >= 2
           /\ \A a \in Agents : At(a, "rollback") => Used("fault") >= 1
           /\ \A a \in Agents : Furnished(a)

LEMMA CleanStep ==
  ASSUME Base, LiveSpent, [Next]_vars, Clean'
  PROVE  /\ Clean /\ Used("fault") \in Nat /\ Used("fault")' \in Nat
         /\ Used("fault")' >= Used("fault")
         /\ \A a \in Agents : live[a]
         /\ ~Spend("lost") /\ ~Spend("cut") /\ ~Spend("stop") /\ ~Spend("crash")
         /\ Spend("fault") => Used("fault")' = Used("fault") + 1
<1>s. {"fault", "lost", "cut", "stop", "crash"} \subseteq Sorts /\ LeftOK
  BY DEF Sorts, Base, TypeInv
<1>u. \A s \in Sorts : Used(s) \in Nat /\ Used(s)' \in Nat /\ Used(s)' >= Used(s)
  BY UsedGrows
<1>1. /\ Used("lost")' = 0 /\ Used("cut")' = 0 /\ Used("stop")' = 0 /\ Used("crash")' = 0
      /\ Used("lost") = 0 /\ Used("cut") = 0 /\ Used("stop") = 0 /\ Used("crash") = 0
  <2>1. \A i, j, k, l \in Nat : i + j + k + l = 0 => i = 0 /\ j = 0 /\ k = 0 /\ l = 0
    OBVIOUS
  <2>2. Used("lost")' + Used("cut")' + Used("stop")' + Used("crash")' = 0
    BY DEF Clean
  <2>3. /\ Used("lost")' = 0 /\ Used("cut")' = 0 /\ Used("stop")' = 0 /\ Used("crash")' = 0
    BY <1>s, <1>u, <2>1, <2>2
  <2> QED
    BY <1>s, <1>u, <2>3
<1>2. Clean
  BY <1>1 DEF Clean
<1>3. \A a \in Agents : live[a]
  BY <1>1 DEF LiveSpent, Agents
<1>4. \A s \in Sorts : Spend(s) => Used(s)' = Used(s) + 1
  BY <1>s, SpendCounts
<1> QED
  BY <1>1, <1>2, <1>3, <1>4, <1>s, <1>u

\* Outside Commit: whoever is at a plan stays where they are.
LEMMA NoHalvesQuiet ==
  ASSUME Base, LiveSpent, NoHalves, [Next]_vars, ~\E a \in Agents : CommitStep(a)
  PROVE  NoHalves'
<1> SUFFICES ASSUME Clean' PROVE NoHalves'
  BY DEF NoHalves
<1>b. TypeInv /\ JobsOK
  BY DEF Base
<1>c. Clean /\ Used("fault")' >= Used("fault") /\ Used("fault") \in Nat /\ Used("fault")' \in Nat
      /\ (\A a \in Agents : live[a])
      /\ ~Spend("cut") /\ ~Spend("stop") /\ ~Spend("crash")
  BY CleanStep
<1>p. UNCHANGED plans
  BY QuietRest
<1>1. ASSUME NEW a \in Agents, NEW j \in JobType, JobOK(a, j), j.step \notin Working,
             job' = [job EXCEPT ![a] = j], job[a].step \notin Working
      PROVE  NoHalves'
  <2>1. JobsOK' /\ job'[a] = j /\ \A c \in Agents : c # a => job'[c] = job[c]
    BY <1>1, <1>b, JobSet
  <2>2. \A p : ~IsWith(p, a)' /\ ~IsWith(p, a)
    BY <2>1, <1>1, <1>b, NotWithNext, NotWith
  <2>3. \A c \in Agents : c # a => \A p : IsWith(p, c)' <=> IsWith(p, c)
    BY <2>1 DEF IsWith, Booking
  <2>4. \A p : AtRest(p)' => AtRest(p)
    BY <2>2, <2>3 DEF AtRest
  <2>5. \A p \in plans' : Half(p) /\ AtRest(p)' => Used("fault")' >= 2
    <3> SUFFICES ASSUME NEW p \in plans', Half(p), AtRest(p)' PROVE Used("fault")' >= 2
      OBVIOUS
    <3>1. Used("fault") >= 2
      BY <2>4, <1>c, <1>p DEF NoHalves
    <3> QED
      BY <3>1, <1>c
  <2>6. \A c \in Agents : At(c, "rollback")' => Used("fault")' >= 1
    <3> SUFFICES ASSUME NEW c \in Agents, At(c, "rollback")' PROVE Used("fault")' >= 1
      OBVIOUS
    <3>1. c # a /\ At(c, "rollback")
      BY <2>1, <1>1 DEF At, Working
    <3>2. Used("fault") >= 1
      BY <3>1, <1>c DEF NoHalves
    <3> QED
      BY <3>2, <1>c
  <2>7. \A c \in Agents : Furnished(c)'
    <3> SUFFICES ASSUME NEW c \in Agents PROVE Furnished(c)'
      OBVIOUS
    <3>1. CASE c = a
      BY <3>1, <2>2 DEF Furnished, ItsPlan
    <3>2. CASE c # a
      BY <3>2, <2>1, <2>3, <1>p, <1>c DEF NoHalves, Furnished, ItsPlan
    <3> QED
      BY <3>1, <3>2
  <2> QED
    BY <2>5, <2>6, <2>7 DEF NoHalves, Half
<1>2. CASE LoopOnly
  <2>1. job[Ingest].step \notin Working
    BY <1>2 DEF LoopOnly, StartDrain, EndDrain, NextFile, Admit, AdmitFails, Extract, ExtractFails,
                Panic, SelectTripForBatch, SelectFails, LogIngest, Reply, Remove, SetAside,
                MoveFile, At, Working
  <2> QED
    BY <2>1, <1>2, <1>1, <1>b, LoopJobs DEF Agents
<1>3. ASSUME NEW r \in Requests, Request(r) PROVE NoHalves'
  <2>1. /\ r \in Agents /\ r # Ingest /\ job' = [job EXCEPT ![r] = Sent(r)]
        /\ job[r].step \notin Working
    BY <1>3, IntakeAssumption DEF Request, Sent, Agents, At, Working
  <2>2. JobOK(r, Sent(r)) /\ Sent(r) \in JobType /\ Sent(r).step \notin Working
    BY <2>1, NewJobs, WhatIsFound DEF JobOK, Sources, Committing, Working
  <2> QED
    BY <2>1, <2>2, <1>1
<1>4. ASSUME NEW r \in Requests, Disconnect(r) PROVE FALSE
  BY <1>4, <1>c DEF Disconnect
<1>5. CASE Shutdown \/ Ends
  BY <1>5, <1>c DEF Shutdown, Ends, Agents
<1>6. CASE UNCHANGED vars
  BY <1>6, <1>c DEF vars, store, NoHalves, Half, AtRest, IsWith, At, Booking, Furnished, ItsPlan
<1> QED
  BY <1>2, <1>3, <1>4, <1>5, <1>6, NextCases

\* An extra that works leaves the plan furnished for the next step, and whole
\* after the last.
LEMMA ExtraFurnishes ==
  ASSUME Base, NEW a \in Agents, Extra(a), Furnished(a),
         NEW x \in plans, NEW y \in PlanType, ItsPlan(a) = {x}, Owned(x, a), SameKey(x, y),
         y.aboard <=> x.aboard \/ At(a, "aboard"),
         y.hidden <=> x.hidden \/ At(a, "hide")
  PROVE  /\ job'[a].step \notin Working => ~Half(y)
         /\ job'[a].step \in {"hide", "cancel"} => y.aboard
         /\ job'[a].step = "cancel" /\ y.booking \in Hides => y.hidden
         /\ job'[a].step # "rollback"
<1>1. job[a].step \in {"aboard", "hide", "cancel"}
  BY DEF Extra, Range, Extras
<1>2. job[a].step \in Working /\ CommitStep(a) /\ job[a] \in JobType /\ TypeInv /\ JobsOK
  BY <1>1 DEF Working, CommitStep, Base, TypeInv
<1>3. y.aboard
  BY <1>1 DEF Furnished, At
<1>4. y.booking = Booking(a)
  BY DEF SameKey, Owned
<1>5. job[a].step # "aboard" /\ y.booking \in Hides => y.hidden
  BY <1>1 DEF Furnished, At, SameKey
<1>6. CASE After(a, job[a].step) = "done"
  <2>1. job[a].step = "aboard" => Booking(a) \notin Hides
    BY <1>6 DEF After
  <2>2. job'[a].step \notin Working
    BY <1>6, <1>2, WorkingMoves, Refused DEF Extra
  <2> QED
    BY <2>1, <2>2, <1>3, <1>4, <1>5 DEF Half, Working
<1>7. CASE After(a, job[a].step) # "done"
  <2>1. After(a, job[a].step) \in {"hide", "cancel"}
    BY <1>7 DEF After
  <2>2. job'[a].step = After(a, job[a].step)
    BY <1>7, <2>1, <1>2, JobMoves, GoingFields DEF Extra, Steps, Committing, Working, TypeInv
  <2>3. job[a].step = "aboard" /\ After(a, job[a].step) = "cancel" => Booking(a) \notin Hides
    BY DEF After
  <2> QED
    BY <2>1, <2>2, <2>3, <1>3, <1>4, <1>5 DEF Working
<1> QED
  BY <1>6, <1>7

LEMMA NoHalvesCommit ==
  ASSUME Base, LiveSpent, NoHalves, NEW a \in Agents, CommitStep(a)
  PROVE  NoHalves'
<1> SUFFICES ASSUME Clean' PROVE NoHalves'
  BY DEF NoHalves
<1>n. [Next]_vars
  BY DEF Next, LoopStep, Agents
<1>b. TypeInv /\ JobsOK /\ JobsOK' /\ job[a] \in JobType
  BY CommitBase DEF Base, TypeInv
<1>c. Clean /\ Used("fault")' >= Used("fault") /\ Used("fault") \in Nat /\ Used("fault")' \in Nat
      /\ live[a] /\ ~Spend("lost") /\ (Spend("fault") => Used("fault")' = Used("fault") + 1)
  BY <1>n, CleanStep
<1>h. /\ \A p \in plans : Half(p) /\ AtRest(p) => Used("fault") >= 2
      /\ \A c \in Agents : At(c, "rollback") => Used("fault") >= 1
      /\ \A c \in Agents : Furnished(c)
  BY <1>c DEF NoHalves
<1>f. Fails(a) => Used("fault")' = Used("fault") + 1
  BY <1>c DEF Fails
<1>o. \A c \in Agents \ {a} : job'[c] = job[c] /\ \A p : IsWith(p, c)' <=> IsWith(p, c)
  BY OthersKeep
<1>w. job[a].step \notin Working => \A p : ~IsWith(p, a)
  BY <1>b, NotWith
<1>v. job'[a].step \notin Working => \A p : ~IsWith(p, a)'
  BY <1>b, NotWithNext
\* The plans of the others are as they were.
<1>q. ASSUME job[a].step \in Committing \ {"take"},
             \A p \in plans' : p.source # job[a].source => p \in plans
      PROVE  \A c \in Agents \ {a} : Furnished(c)'
  <2> SUFFICES ASSUME NEW c \in Agents \ {a}, NEW p \in plans', IsWith(p, c)'
               PROVE  /\ job'[c].step \in {"hide", "cancel"} => p.aboard
                      /\ job'[c].step = "cancel" /\ p.booking \in Hides => p.hidden
    BY DEF Furnished, ItsPlan
  <2>1. IsWith(p, c) /\ job'[c] = job[c]
    BY <1>o
  <2>2. job[c].step \in Working
    BY <2>1, <1>b, NotWith
  <2>3. p.source # job[a].source
    BY <2>1, <2>2, <1>q, <1>b, OtherSources DEF IsWith, Committing, Working
  <2>4. p \in ItsPlan(c)
    BY <2>1, <2>3, <1>q DEF ItsPlan
  <2> QED
    BY <2>1, <2>4, <1>h DEF Furnished
<1>r. \A c \in Agents \ {a} : At(c, "rollback")' => Used("fault")' >= 1
  <2> SUFFICES ASSUME NEW c \in Agents \ {a}, At(c, "rollback")' PROVE Used("fault")' >= 1
    OBVIOUS
  <2>1. Used("fault") >= 1
    BY <1>o, <1>h DEF At
  <2> QED
    BY <2>1, <1>c
\* What is left to show, case by case.
<1>z. ASSUME \A p \in plans' : Half(p) /\ AtRest(p)' /\ ~(p \in plans /\ AtRest(p)) => Used("fault")' >= 2,
             At(a, "rollback")' => Used("fault")' >= 1,
             \A c \in Agents : Furnished(c)'
      PROVE  NoHalves'
  <2>1. \A p \in plans' : Half(p) /\ AtRest(p)' => Used("fault")' >= 2
    <3> SUFFICES ASSUME NEW p \in plans', Half(p), AtRest(p)', p \in plans, AtRest(p)
                 PROVE  Used("fault")' >= 2
      BY <1>z
    <3>1. Used("fault") >= 2
      BY <1>h
    <3> QED
      BY <3>1, <1>c
  <2>2. \A c \in Agents : At(c, "rollback")' => Used("fault")' >= 1
    BY <1>z, <1>r
  <2> QED
    BY <2>1, <2>2, <1>z DEF NoHalves, Half
<1>1. CASE Quiet(a)
  <2>1. UNCHANGED plans /\ \A p : ~IsWith(p, a) /\ ~IsWith(p, a)'
    BY <1>1, <1>w, <1>v DEF Quiet
  <2>2. \A c \in Agents : Furnished(c)'
    <3>1. Furnished(a)'
      BY <2>1 DEF Furnished, ItsPlan
    <3>2. ASSUME NEW c \in Agents \ {a} PROVE Furnished(c)'
      BY <2>1, <1>o, <1>h DEF Furnished, ItsPlan
    <3> QED
      BY <3>1, <3>2
  <2>3. \A p : AtRest(p)' => AtRest(p)
    BY <2>1, <1>o DEF AtRest
  <2>4. ~At(a, "rollback")'
    BY <1>1 DEF Quiet, At, Working
  <2> QED
    BY <2>1, <2>2, <2>3, <2>4, <1>z
<1>2. CASE Create(a)
  <2>1. PICK x \in PlanType :
           /\ x.source = job[a].source /\ x.booking = Booking(a) /\ x.copy = NextCopy(a)
           /\ NextCopy(a) = Copies(x.source, x.booking) + 1 /\ plans' = plans \cup {x}
    BY <1>2, CreateAdds DEF Create
  <2>2. job'[a] = [job[a] EXCEPT !.step = "aboard", !.copy = NextCopy(a)]
    BY <1>2 DEF Create, Base, TypeInv
  <2>3. job'[a].source = job[a].source /\ job'[a].todo = job[a].todo /\ job'[a].copy = NextCopy(a)
        /\ job'[a].step = "aboard"
    BY <2>2, <1>b DEF JobType
  <2>4. job'[a].copy # 0
    BY <2>3, <1>b DEF JobsOK, JobOK, Working
  <2>5. IsWith(x, a)'
    BY <2>1, <2>3, <2>4 DEF IsWith, Booking
  <2>6. \A c \in Agents : Furnished(c)'
    <3>1. Furnished(a)'
      BY <2>3 DEF Furnished
    <3>2. job[a].step \in Committing \ {"take"}
      BY <1>2 DEF Create, At, Committing
    <3> QED
      BY <3>1, <3>2, <2>1, <1>q
  <2>7. \A p \in plans' : AtRest(p)' => p \in plans /\ AtRest(p)
    <3>1. job[a].step \notin Working
      BY <1>2 DEF Create, At, Working
    <3>2. \A p : AtRest(p)' => AtRest(p)
      BY <3>1, <1>w, <1>o DEF AtRest
    <3>3. ~AtRest(x)'
      BY <2>5 DEF AtRest
    <3> QED
      BY <3>2, <3>3, <2>1
  <2> QED
    BY <2>3, <2>6, <2>7, <1>z DEF At
<1>3. CASE Extra(a)
  <2>1. job[a].step \in Working /\ Effect(a) /\ job[a].step \in Committing \ {"take"}
    BY <1>3, WorkingPlans DEF Extra, Committing, Working
  <2>2. PICK x \in plans, y \in PlanType :
           /\ ItsPlan(a) = {x} /\ Owned(x, a) /\ SameKey(x, y)
           /\ y.aboard <=> x.aboard \/ At(a, "aboard")
           /\ y.hidden <=> x.hidden \/ At(a, "hide")
           /\ plans' = (plans \ {x}) \cup {y}
    BY <2>1, EffectRewrites
  <2>3. /\ job'[a].step \notin Working => ~Half(y)
        /\ job'[a].step \in {"hide", "cancel"} => y.aboard
        /\ job'[a].step = "cancel" /\ y.booking \in Hides => y.hidden
        /\ job'[a].step # "rollback"
    BY <2>2, <1>3, <1>h, ExtraFurnishes
  <2>4. job'[a].step \in Working => \A p : IsWith(p, a)' <=> IsWith(p, a)
    BY <2>1, WorkingMoves
  <2>5. IsWith(x, a) /\ IsWith(y, a) /\ \A p \in plans : IsWith(p, a) => p = x
    BY <2>2 DEF ItsPlan, IsWith, SameKey, Owned
  <2>6. Furnished(a)'
    <3>1. CASE job'[a].step \in Working
      <4>1. \A p \in plans' : IsWith(p, a)' => p = y
        BY <3>1, <2>2, <2>4, <2>5
      <4> QED
        BY <4>1, <2>3 DEF Furnished, ItsPlan
    <3>2. CASE job'[a].step \notin Working
      BY <3>2, <1>v DEF Furnished, ItsPlan
    <3> QED
      BY <3>1, <3>2
  <2>7. \A c \in Agents : Furnished(c)'
    BY <2>1, <2>2, <2>6, <1>q DEF SameKey, Owned
  <2>8. \A p \in plans' : Half(p) /\ AtRest(p)' => p \in plans /\ AtRest(p)
    <3> SUFFICES ASSUME NEW p \in plans', Half(p), AtRest(p)' PROVE p \in plans /\ AtRest(p)
      OBVIOUS
    <3>1. CASE p = y
      <4>1. ~IsWith(y, a)'
        BY <3>1 DEF AtRest
      <4> QED
        BY <4>1, <3>1, <2>3, <2>4, <2>5
    <3>2. CASE p # y
      BY <3>2, <2>2, <2>5, <1>o DEF AtRest
    <3> QED
      BY <3>1, <3>2
  <2> QED
    BY <2>3, <2>7, <2>8, <1>z DEF At
<1>4. CASE ExtraFails(a)
  <2>1. UNCHANGED plans /\ Fails(a) /\ GoTo(a, "rollback") /\ job[a].step \in Working
    BY <1>4, <1>c, WorkingPlans DEF ExtraFails, AnswerLost
  <2>2. job'[a].step = "rollback"
    BY <2>1, <1>b, JobMoves, GoingFields DEF TypeInv, Steps, Committing, Working
  <2>3. \A p : IsWith(p, a)' <=> IsWith(p, a)
    BY <2>1, <2>2, WorkingMoves DEF Working
  <2>4. \A p : AtRest(p)' => AtRest(p)
    BY <2>3, <1>o DEF AtRest
  <2>5. \A c \in Agents : Furnished(c)'
    <3>1. Furnished(a)'
      BY <2>2 DEF Furnished
    <3>2. ASSUME NEW c \in Agents \ {a} PROVE Furnished(c)'
      BY <2>1, <1>o, <1>h DEF Furnished, ItsPlan
    <3> QED
      BY <3>1, <3>2
  <2>6. Used("fault")' >= 1
    BY <2>1, <1>f, <1>c
  <2> QED
    BY <2>1, <2>4, <2>5, <2>6, <1>z
<1>5. CASE Rollback(a)
  <2>1. At(a, "rollback") /\ job[a].step \in Working /\ job[a].todo # << >>
        /\ job[a].step \in Committing \ {"take"}
    BY <1>5, WorkingMoves DEF Rollback, At, Working
  <2>2. job'[a].step \notin Working
    BY <2>1, <1>5, <1>b, Refused DEF Rollback, Refuse
  <2>3. ~At(a, "rollback")'
    BY <2>2 DEF At, Working
  <2>4. Furnished(a)'
    BY <2>2, <1>v DEF Furnished, ItsPlan
  <2>5. CASE Fails(a) /\ UNCHANGED plans
    <3>1. Used("fault")' >= 2
      <4>1. Used("fault") >= 1
        BY <2>1, <1>h
      <4> QED
        BY <4>1, <2>5, <1>f, <1>c
    <3>2. \A c \in Agents : Furnished(c)'
      BY <2>1, <2>4, <2>5, <1>q
    <3> QED
      BY <2>3, <3>1, <3>2, <1>z
  <2>6. CASE plans' = plans \ ItsPlan(a)
    <3>1. \A c \in Agents : Furnished(c)'
      BY <2>1, <2>4, <2>6, <1>q
    <3>2. \A p \in plans' : AtRest(p)' => p \in plans /\ AtRest(p)
      BY <2>6, <1>o DEF AtRest, ItsPlan
    <3> QED
      BY <2>3, <3>1, <3>2, <1>z
  <2> QED
    BY <2>5, <2>6, <1>5 DEF Rollback
<1> QED
  BY <1>1, <1>2, <1>3, <1>4, <1>5, <1>c, QuietOrNot

\* No single failed statement leaves a plan behind without its passengers or
\* its privacy: whoever cleans up has met one failure already, so a plan left
\* half done takes a second, or a context that takes both statements down, a
\* lost answer or a crash (commit.go:200-207).
THEOREM HalfPlansNeedMore == Spec => []HalfPlanNeedsMoreThanAFault
<1>1. Init => LiveSpent
  BY DEF Init, LiveSpent, Agents
<1>2. Init => NoHalves
  BY DEF Init, NoHalves, At, IdleJob, Furnished, ItsPlan
<1>3. Base /\ LiveSpent /\ NoHalves /\ [Next]_vars => Base' /\ LiveSpent' /\ NoHalves'
  BY BaseStays, LiveSpentStays, NoHalvesQuiet, NoHalvesCommit
<1>4. Base /\ NoHalves => HalfPlanNeedsMoreThanAFault
  <2> SUFFICES ASSUME Base, NoHalves, ~Clean PROVE HalfPlanNeedsMoreThanAFault
    BY DEF NoHalves, HalfPlanNeedsMoreThanAFault
  <2>1. Used("lost") \in Nat /\ Used("cut") \in Nat /\ Used("stop") \in Nat /\ Used("crash") \in Nat
    BY UsedIsNat DEF Base, TypeInv, Sorts
  <2>2. Used("lost") + Used("cut") + Used("stop") + Used("crash") > 0
    BY <2>1 DEF Clean
  <2> QED
    BY <2>2 DEF HalfPlanNeedsMoreThanAFault
<1> QED
  BY <1>1, <1>2, <1>3, <1>4, BaseInit, PTL DEF Spec

----------------------------------------------------------------------------
(* Files, and the mail being worked on *)

Busy == job[Ingest].step \notin {"idle", "next"}
Processing(m) == Busy /\ Mail = m

InboxOK ==
  /\ \A m \in queue : inbox[m] = "new"
  /\ \A m \in Mails : Processing(m) => inbox[m] = "new" /\ m \notin queue

\* What the steps of the loop outside Commit do to the mail at hand.
LEMMA LoopMoves ==
  ASSUME TypeInv, JobsOK, LoopOnly
  PROVE  \/ /\ StartDrain /\ ~Busy /\ ~Busy' /\ UNCHANGED inbox
            /\ \A m \in queue' : inbox[m] = "new"
         \/ EndDrain /\ ~Busy /\ ~Busy' /\ UNCHANGED <<inbox, queue>>
         \/ \E m \in Mails : /\ NextFile(m) /\ m \in queue /\ ~Busy /\ Processing(m)'
                             /\ job'[Ingest].step = "read" /\ queue' = queue \ {m} /\ UNCHANGED inbox
         \/ /\ Busy /\ UNCHANGED <<inbox, queue>> /\ job[Ingest].step \in Reading /\ ~Busy'
            /\ AdmitFails \/ ExtractFails
         \/ /\ Busy /\ UNCHANGED <<inbox, queue>> /\ Busy' /\ UNCHANGED Mail
            /\ \/ /\ (Admit \/ Panic) /\ job[Ingest].step \in {"read", "extract"}
                  /\ job'[Ingest].step \in {"extract", "poison"}
               \/ /\ Extract /\ job[Ingest].step = "extract" /\ job'[Ingest].step = "select"
                  /\ job'[Ingest].todo = Found[Mail]
               \/ /\ SelectTripForBatch /\ job[Ingest].step = "select" /\ job'[Ingest].step = "take"
                  /\ job'[Ingest].todo = job[Ingest].todo
               \/ /\ SelectFails /\ job[Ingest].step = "select" /\ job'[Ingest].step = "log"
                  /\ job'[Ingest].todo = << >>
               \/ /\ LogIngest /\ job[Ingest].step = "log" /\ job'[Ingest].step = "reply"
                  /\ job'[Ingest].todo = << >> /\ job[Ingest].todo = << >>
               \/ /\ Reply /\ job[Ingest].step = "reply" /\ job'[Ingest].step = "remove"
                  /\ job'[Ingest].todo = << >> /\ job[Ingest].todo = << >>
         \/ /\ Busy /\ ~Busy' /\ UNCHANGED queue /\ job[Ingest].step \in {"remove", "poison"}
            /\ \/ Remove /\ inbox' = [inbox EXCEPT ![Mail] = "gone"] /\ At(Ingest, "remove")
               \/ SetAside /\ inbox' = [inbox EXCEPT ![Mail] = "failed"]
               \/ Spend("move") /\ UNCHANGED inbox
<1>j. /\ job[Ingest] \in JobType /\ JobOK(Ingest, job[Ingest]) /\ job \in [Agents -> JobType]
      /\ Ingest \in Agents
  BY DEF TypeInv, JobsOK, Agents
<1>m. /\ \A s : GoTo(Ingest, s) => job' = [job EXCEPT ![Ingest] = Going(job[Ingest], s)]
      /\ LeaveFile => job'[Ingest].step = "next"
  <2>1. LeaveFile => job' = [job EXCEPT ![Ingest] = NextJob]
    BY <1>j, JobMoves
  <2> QED
    BY <2>1, <1>j, JobMoves, NewJobs
<1>g. ASSUME NEW s \in Steps, GoTo(Ingest, s)
      PROVE  /\ job'[Ingest].step = s /\ job'[Ingest].source = job[Ingest].source
             /\ job'[Ingest].todo = job[Ingest].todo
  BY <1>g, <1>j, <1>m, GoingFields
<1>s. {"next", "poison", "extract", "take", "reply", "remove"} \subseteq Steps
  BY DEF Steps, Reading, Committing, Closing
<1>1. CASE StartDrain
  <2>1. GoTo(Ingest, "next") /\ job[Ingest].step = "idle" /\ UNCHANGED inbox
        /\ queue' = {m \in Mails : inbox[m] = "new"}
    BY <1>1 DEF StartDrain, At
  <2>2. job'[Ingest].step = "next"
    BY <2>1, <1>g, <1>s
  <2> QED
    BY <2>1, <2>2, <1>1 DEF Busy
<1>2. CASE EndDrain
  BY <1>2, <1>j, NewJobs DEF EndDrain, At, Busy, disk
<1>3. ASSUME NEW m \in Mails, NextFile(m)
      PROVE  /\ m \in queue /\ ~Busy /\ Processing(m)'
             /\ job'[Ingest].step = "read" /\ queue' = queue \ {m} /\ UNCHANGED inbox
  <2>1. job' = [job EXCEPT ![Ingest] = Reader(m)]
    BY <1>3 DEF NextFile, Reader
  <2>2. job'[Ingest].step = "read" /\ job'[Ingest].source = m
    BY <2>1, <1>j, NewJobs
  <2> QED
    BY <2>2, <1>3 DEF NextFile, At, Busy, Processing, Mail
<1>4. CASE AdmitFails \/ ExtractFails
  BY <1>4, <1>m DEF AdmitFails, ExtractFails, At, Busy, disk, Reading
<1>5. CASE Admit \/ Panic
  <2>1. UNCHANGED <<inbox, queue>> /\ job[Ingest].step \in {"read", "extract"}
        /\ (GoTo(Ingest, "poison") \/ GoTo(Ingest, "extract"))
    BY <1>5 DEF Admit, Panic, At, disk
  <2>2. job'[Ingest].step \in {"extract", "poison"} /\ job'[Ingest].source = job[Ingest].source
    BY <2>1, <1>g, <1>s
  <2> QED
    BY <2>1, <2>2, <1>5 DEF Busy, Mail
<1>6. CASE Extract
  <2>1. UNCHANGED <<inbox, queue>> /\ job[Ingest].step = "extract"
        /\ job'[Ingest] = [job[Ingest] EXCEPT !.step = "select", !.todo = Found[Mail]]
    BY <1>6, <1>j DEF Extract, At, disk
  <2>2. /\ job'[Ingest].step = "select" /\ job'[Ingest].source = job[Ingest].source
        /\ job'[Ingest].todo = Found[Mail]
    BY <2>1, <1>j DEF JobType
  <2> QED
    BY <2>1, <2>2, <1>6 DEF Busy, Mail
<1>7. CASE SelectFails
  <2>1. UNCHANGED <<inbox, queue>> /\ job[Ingest].step = "select"
        /\ job'[Ingest] = [job[Ingest] EXCEPT !.step = "log", !.todo = << >>]
    BY <1>7, <1>j DEF SelectFails, At, disk
  <2>2. /\ job'[Ingest].step = "log" /\ job'[Ingest].source = job[Ingest].source
        /\ job'[Ingest].todo = << >>
    BY <2>1, <1>j DEF JobType
  <2> QED
    BY <2>1, <2>2, <1>7 DEF Busy, Mail
<1>8. CASE SelectTripForBatch
  <2>1. UNCHANGED <<inbox, queue>> /\ job[Ingest].step = "select" /\ GoTo(Ingest, "take")
    BY <1>8 DEF SelectTripForBatch, At, disk
  <2>2. /\ job'[Ingest].step = "take" /\ job'[Ingest].source = job[Ingest].source
        /\ job'[Ingest].todo = job[Ingest].todo
    BY <2>1, <1>g, <1>s
  <2> QED
    BY <2>1, <2>2, <1>8 DEF Busy, Mail
<1>9. CASE LogIngest
  <2>1. UNCHANGED <<inbox, queue>> /\ job[Ingest].step = "log" /\ GoTo(Ingest, "reply")
    BY <1>9 DEF LogIngest, At, disk
  <2>2. /\ job'[Ingest].step = "reply" /\ job'[Ingest].source = job[Ingest].source
        /\ job'[Ingest].todo = job[Ingest].todo /\ job[Ingest].todo = << >>
    BY <2>1, <1>g, <1>s, <1>j DEF JobOK, Committing, Working
  <2> QED
    BY <2>1, <2>2, <1>9 DEF Busy, Mail
<1>10. CASE Reply
  <2>1. UNCHANGED <<inbox, queue>> /\ job[Ingest].step = "reply" /\ GoTo(Ingest, "remove")
    BY <1>10 DEF Reply, At, disk
  <2>2. /\ job'[Ingest].step = "remove" /\ job'[Ingest].source = job[Ingest].source
        /\ job'[Ingest].todo = job[Ingest].todo /\ job[Ingest].todo = << >>
    BY <2>1, <1>g, <1>s, <1>j DEF JobOK, Committing, Working
  <2> QED
    BY <2>1, <2>2, <1>10 DEF Busy, Mail
<1>11. CASE Remove \/ SetAside
  <2>1. LeaveFile /\ UNCHANGED queue /\ job[Ingest].step \in {"remove", "poison"}
        /\ (Remove => At(Ingest, "remove"))
    BY <1>11 DEF Remove, SetAside, MoveFile, At
  <2> QED
    BY <2>1, <1>11, <1>m DEF Remove, SetAside, MoveFile, Busy
<1> QED
  BY <1>1, <1>2, <1>3, <1>4, <1>5, <1>6, <1>7, <1>8, <1>9, <1>10, <1>11 DEF LoopOnly

LEMMA InboxStays ==
  ASSUME Base, InboxOK, [Next]_vars
  PROVE  InboxOK'
<1>b. TypeInv /\ JobsOK /\ queue \subseteq Mails /\ inbox \in [Mails -> {"new", "failed", "gone"}]
  BY DEF Base, TypeInv
<1>m. Busy => Mail \in Mails
  BY <1>b DEF Busy, Mail, JobsOK, JobOK, Agents
<1>1. CASE LoopOnly
  <2>1. CASE \E m \in Mails : m \in queue /\ ~Busy /\ Processing(m)' /\ queue' = queue \ {m} /\ UNCHANGED inbox
    BY <2>1 DEF InboxOK, Processing
  <2>2. CASE Busy /\ ~Busy' /\ UNCHANGED queue
             /\ ((\E to : inbox' = [inbox EXCEPT ![Mail] = to]) \/ UNCHANGED inbox)
    <3>1. \A n \in Mails : n # Mail => inbox'[n] = inbox[n]
      BY <2>2, <1>b
    <3>2. Mail \notin queue
      BY <2>2, <1>m DEF InboxOK, Processing
    <3>3. \A n \in queue' : inbox'[n] = "new"
      BY <2>2, <3>1, <3>2, <1>b DEF InboxOK
    <3> QED
      BY <2>2, <3>3 DEF InboxOK, Processing
  <2>3. CASE UNCHANGED <<inbox, queue>> /\ (~Busy' \/ (Busy /\ Busy' /\ UNCHANGED Mail))
    BY <2>3 DEF InboxOK, Processing
  <2>4. CASE ~Busy' /\ UNCHANGED inbox /\ \A m \in queue' : inbox[m] = "new"
    BY <2>4 DEF InboxOK, Processing
  <2> QED
    BY <2>1, <2>2, <2>3, <2>4, <1>1, <1>b, LoopMoves
<1>2. ASSUME NEW a \in Agents, CommitStep(a) PROVE InboxOK'
  <2>1. UNCHANGED <<inbox, queue>> /\ job[a].step \in Committing
    BY <1>2, CommitTouches
  <2>2. CASE a # Ingest
    <3>1. job'[Ingest] = job[Ingest]
      BY <2>2, <1>2, OthersKeep DEF Agents
    <3> QED
      BY <2>1, <3>1 DEF InboxOK, Processing, Busy, Mail
  <2>3. CASE a = Ingest
    <3>1. Busy
      BY <2>1, <2>3 DEF Busy, Committing, Working
    <3>2. Busy' => UNCHANGED Mail
      <4>1. PICK j \in JobType : JobOK(Ingest, j) /\ job' = [job EXCEPT ![Ingest] = j]
        BY <1>2, <2>3, CommitJobs DEF Base
      <4>2. Take(a) \/ Check(a) \/ Create(a) \/ Extra(a) \/ ExtraFails(a) \/ Skip(a) \/ Answer(a)
        BY <1>2 DEF CommitStep, CheckFails, CreateFails, Rollback, Refuse
      <4>3. ASSUME NEW s, GoTo(a, s) PROVE job'[a].source = job[a].source
        BY <4>3, <1>b DEF GoTo, TypeInv, JobType
      <4>4. ASSUME Skip(a) PROVE job'[a].source = job[a].source
        BY <4>4, <1>b DEF Skip, TypeInv, JobType
      <4>5. ASSUME Create(a) PROVE job'[a].source = job[a].source
        BY <4>5, <1>b DEF Create, TypeInv, JobType
      <4>6. ASSUME Answer(a) PROVE ~Busy'
        BY <4>6, <2>3, <1>b, NewJobs DEF Answer, TypeInv, Busy
      <4> QED
        BY <4>2, <4>3, <4>4, <4>5, <4>6, <2>3 DEF Take, Check, Extra, ExtraFails, Mail
    <3> QED
      BY <2>1, <3>1, <3>2 DEF InboxOK, Processing
  <2> QED
    BY <2>2, <2>3
<1>3. CASE Ends
  <2>1. queue' = {} /\ job'[Ingest].step = "idle"
    BY <1>3, NewJobs DEF Ends, Die, Agents
  <2> QED
    BY <2>1 DEF InboxOK, Processing, Busy
<1>4. CASE Shutdown \/ (\E r \in Requests : Request(r) \/ Disconnect(r)) \/ UNCHANGED vars
  <2>1. UNCHANGED <<inbox, queue>> /\ job'[Ingest] = job[Ingest]
    BY <1>4, <1>b, IntakeAssumption DEF Shutdown, Request, Disconnect, vars, disk, TypeInv, Agents
  <2> QED
    BY <2>1 DEF InboxOK, Processing, Busy, Mail
<1> QED
  BY <1>1, <1>2, <1>3, <1>4, NextCases

----------------------------------------------------------------------------
(* How a step of Commit changes the number of copies *)

LEMMA CopiesNext ==
  ASSUME Numbered(plans'), NEW s \in Sources, NEW b \in Bookings
  PROVE  Copies(s, b)' \in Nat /\ CopyNos(plans', s, b) = 1 .. Copies(s, b)'
<1>1. PICK n \in Nat : CopyNos(plans', s, b) = 1 .. n
  BY DEF Numbered
<1>2. Cardinality({p \in plans' : p.source = s /\ p.booking = b}) = n
  BY <1>1, CountCopies DEF Numbered
<1> QED
  BY <1>1, <1>2 DEF Copies, CopiesOf

LEMMA SameUpTo == \A i, j \in Nat : 1 .. i = 1 .. j => i = j
<1> SUFFICES ASSUME NEW i \in Nat, NEW j \in Nat, 1 .. i = 1 .. j, i < j PROVE FALSE
  OBVIOUS
<1>1. j \in 1 .. j /\ j \notin 1 .. i
  OBVIOUS
<1> QED
  BY <1>1

\* Only the booking at hand gains a copy, in Create, or loses one, while its
\* plan is seen to.
LEMMA CommitCopies ==
  ASSUME Base, NEW a \in Agents, CommitStep(a), NEW s \in Sources, NEW b \in Bookings
  PROVE  /\ Copies(s, b) \in Nat /\ Copies(s, b)' \in Nat /\ Copies(s, b)' <= Copies(s, b) + 1
         /\ Copies(s, b)' > Copies(s, b) => job[a].step = "create"
         /\ Copies(s, b)' # Copies(s, b) =>
              /\ s = job[a].source /\ b = Booking(a)
              /\ job[a].step = "create" \/ job[a].step \in Working
<1>0. Numbered(plans) /\ Numbered(plans')
  BY CommitPlans DEF Base
<1>1. /\ Copies(s, b) \in Nat /\ CopyNos(plans, s, b) = 1 .. Copies(s, b)
      /\ Copies(s, b)' \in Nat /\ CopyNos(plans', s, b) = 1 .. Copies(s, b)'
  BY <1>0, CopiesAre, CopiesNext
<1>e. CopyNos(plans', s, b) = CopyNos(plans, s, b) => Copies(s, b)' = Copies(s, b)
  BY <1>1, SameUpTo
<1>2. CASE Quiet(a)
  BY <1>2, <1>1, <1>e DEF Quiet
<1>3. CASE At(a, "create") /\ CreatePlan(a)
  <2>1. PICK x \in PlanType :
           /\ x.source = job[a].source /\ x.booking = Booking(a)
           /\ NextCopy(a) = Copies(x.source, x.booking) + 1
           /\ CopyNos(plans', x.source, x.booking) = 1 .. NextCopy(a)
           /\ \A t, c : ~(t = x.source /\ c = x.booking)
                => CopyNos(plans', t, c) = CopyNos(plans, t, c)
    BY <1>3, CreateAdds
  <2>2. CASE s = x.source /\ b = x.booking
    <3>1. 1 .. Copies(s, b)' = 1 .. (Copies(s, b) + 1)
      BY <2>1, <2>2, <1>1
    <3>2. Copies(s, b)' = Copies(s, b) + 1
      BY <3>1, <1>1, SameUpTo
    <3> QED
      BY <3>2, <2>1, <2>2, <1>1, <1>3 DEF At
  <2>3. CASE ~(s = x.source /\ b = x.booking)
    BY <2>1, <2>3, <1>1, <1>e
  <2> QED
    BY <2>2, <2>3
<1>4. CASE Extra(a) \/ ExtraFails(a) \/ Rollback(a)
  <2>1. job[a].step \in Working
    BY <1>4, WorkingPlans
  <2>2. CASE plans' = plans
    BY <2>2, <1>1, <1>e
  <2>3. CASE Effect(a)
    BY <2>1, <2>3, <1>1, <1>e, EffectRewrites
  <2>4. CASE plans' = plans \ ItsPlan(a)
    <3>1. PICK x \in plans :
           /\ Owned(x, a)
           /\ \A t, c : ~(t = x.source /\ c = x.booking)
                => CopyNos(plans', t, c) = CopyNos(plans, t, c)
           /\ CopyNos(plans', x.source, x.booking) = 1 .. (job[a].copy - 1)
      BY <2>1, <2>4, RollbackDrops
    <3>2. CASE s = x.source /\ b = x.booking
      <4>1. job[a].copy \in Nat /\ job[a].copy # 0 /\ CopyNos(plans, s, b) = 1 .. job[a].copy
        BY <2>1, <3>1, <3>2 DEF Base, Topped, TypeInv, JobType, JobsOK, JobOK, Owned
      <4>2. Copies(s, b) = job[a].copy
        BY <4>1, <1>1, SameUpTo
      <4>3. 1 .. Copies(s, b)' = 1 .. (job[a].copy - 1) /\ job[a].copy - 1 \in Nat
        BY <3>1, <3>2, <1>1, <4>1
      <4>4. Copies(s, b)' = job[a].copy - 1
        BY <4>3, <1>1, SameUpTo
      <4> QED
        BY <4>2, <4>4, <4>1, <3>1, <3>2, <2>1, <1>1 DEF Owned
    <3>3. CASE ~(s = x.source /\ b = x.booking)
      BY <3>1, <3>3, <1>1, <1>e
    <3> QED
      BY <3>2, <3>3
  <2> QED
    BY <2>2, <2>3, <2>4, <1>4 DEF Extra, ExtraFails, Rollback
<1> QED
  BY <1>2, <1>3, <1>4, QuietOrNot DEF Create

\* The loop in Commit: the mail stays at hand; a booking is dropped from what
\* is left to do only with Skip, and never while its plan is seen to.
LEMMA LoopCommits ==
  ASSUME Base, CommitStep(Ingest)
  PROVE  /\ Busy /\ Busy' /\ UNCHANGED Mail /\ Mail \in Mails
         /\ job[Ingest].step \in Committing /\ job'[Ingest].step \in Committing \cup {"log"}
         /\ \/ /\ job'[Ingest].todo = job[Ingest].todo
               /\ job[Ingest].step \in {"create"} \cup Working => job'[Ingest].step \in Working
               /\ job'[Ingest].step = "log" => job[Ingest].todo = << >>
            \/ /\ job[Ingest].todo # << >> /\ Skip(Ingest)
               /\ job'[Ingest].step = "take" /\ job'[Ingest].todo = Tail(job[Ingest].todo)
<1>b. /\ TypeInv /\ JobsOK /\ job \in [Agents -> JobType] /\ job[Ingest] \in JobType
      /\ Ingest \in Agents /\ JobOK(Ingest, job[Ingest])
  BY DEF Base, TypeInv, JobsOK, Agents
<1>1. job[Ingest].step \in Committing
  BY <1>b, CommitTouches
<1>2. Busy /\ Mail \in Mails
  BY <1>1, <1>b DEF Busy, Mail, JobOK, Committing, Working
<1>t. job[Ingest].step \in Committing \ {"take"} => job[Ingest].todo # << >>
  BY <1>b DEF JobOK
<1>r. Refuse(Ingest) => Skip(Ingest)
  BY DEF Refuse
<1>3. ASSUME Skip(Ingest), job[Ingest].todo # << >>
      PROVE  /\ Busy' /\ UNCHANGED Mail /\ job'[Ingest].step = "take"
             /\ job'[Ingest].todo = Tail(job[Ingest].todo)
  <2>1. job'[Ingest] = Skipped(job[Ingest])
    BY <1>3, <1>b, JobMoves
  <2> QED
    BY <2>1, <1>3, <1>b, SkippedFields DEF JobOK, Busy, Mail
<1>4. ASSUME NEW s \in Steps \ {"idle", "next"}, GoTo(Ingest, s)
      PROVE  /\ Busy' /\ UNCHANGED Mail /\ job'[Ingest].step = s
             /\ job'[Ingest].todo = job[Ingest].todo
  <2>1. job'[Ingest] = Going(job[Ingest], s)
    BY <1>4, <1>b, JobMoves
  <2> QED
    BY <2>1, <1>4, <1>b, GoingFields DEF Busy, Mail
<1>s. {"check", "log", "create", "hide", "cancel", "rollback"} \subseteq Steps \ {"idle", "next"}
  BY DEF Steps, Committing, Working, Closing
<1>5. CASE Take(Ingest)
  BY <1>5, <1>1, <1>2, <1>4, <1>s DEF Take, At, Committing, Working
<1>6. CASE Check(Ingest)
  BY <1>6, <1>1, <1>2, <1>3, <1>4, <1>t, <1>s DEF Check, At, Committing, Working
<1>7. CASE CheckFails(Ingest) \/ CreateFails(Ingest) \/ Rollback(Ingest)
  <2>1. Skip(Ingest) /\ job[Ingest].todo # << >>
    BY <1>7, <1>r, <1>t DEF CheckFails, CreateFails, Rollback, At, Committing, Working
  <2> QED
    BY <2>1, <1>1, <1>2, <1>3 DEF Committing
<1>8. CASE Create(Ingest)
  <2>1. job'[Ingest] = [job[Ingest] EXCEPT !.step = "aboard", !.copy = NextCopy(Ingest)]
    BY <1>8, <1>b DEF Create
  <2>2. /\ job'[Ingest].step = "aboard" /\ job'[Ingest].source = job[Ingest].source
        /\ job'[Ingest].todo = job[Ingest].todo
    BY <2>1, <1>b DEF JobType
  <2> QED
    BY <2>2, <1>1, <1>2 DEF Busy, Mail, Committing, Working
<1>9. CASE Extra(Ingest) \/ ExtraFails(Ingest)
  <2>1. job[Ingest].step \in Working
    BY <1>9, <1>b, WorkingPlans
  <2>2. CASE Skip(Ingest)
    BY <2>1, <2>2, <1>1, <1>2, <1>3, <1>t DEF Committing, Working
  <2>3. ASSUME NEW s \in {"hide", "cancel", "rollback"}, GoTo(Ingest, s)
        PROVE  /\ Busy' /\ UNCHANGED Mail /\ job'[Ingest].step \in Working
               /\ job'[Ingest].todo = job[Ingest].todo
    BY <2>3, <1>4, <1>s DEF Working
  <2>4. After(Ingest, job[Ingest].step) \in {"hide", "cancel", "done"}
    BY DEF After
  <2>5. CASE \E s \in {"hide", "cancel", "rollback"} : GoTo(Ingest, s)
    BY <2>5, <2>3, <1>1, <1>2 DEF Committing, Working
  <2> QED
    BY <2>2, <2>4, <2>5, <1>1, <1>2, <1>3, <1>t, <1>9, <2>1 DEF Extra, ExtraFails, Committing, Working
<1> QED
  BY <1>5, <1>6, <1>7, <1>8, <1>9 DEF CommitStep

----------------------------------------------------------------------------
(* Copies are paid for *)

\* The times a file was left in new/ by a failed move or the end of a process.
\* A process told to stop has not ended yet.
Rounds ==
  Used("move") + Used("crash") + Used("stop") - (IF live[Ingest] THEN 0 ELSE 1)

\* The bookings of the mail at hand that are still to be committed.
Pending ==
  IF job[Ingest].step \in Reading THEN Range(Found[Mail]) ELSE Range(job[Ingest].todo)
InHand(b) == job[Ingest].step \in Working /\ b = Booking(Ingest)

Counted ==
  \A m \in Mails : \A b \in Range(Found[m]) :
    /\ Copies(m, b) <= 1 + Rounds
    /\ inbox[m] = "new" /\ ~Processing(m) => Copies(m, b) <= Rounds
    /\ Processing(m) /\ b \in Pending /\ ~InHand(b) => Copies(m, b) <= Rounds

LEMMA RoundsGrow ==
  ASSUME Base, LiveSpent, [Next]_vars
  PROVE  /\ Rounds \in Nat /\ Rounds' \in Nat /\ Rounds' >= Rounds
         /\ Ends => Rounds' >= Rounds + 1
         /\ LoopOnly /\ Spend("move") => Rounds' >= Rounds + 1
<1>b. TypeInv /\ JobsOK /\ LeftOK /\ live[Ingest] \in BOOLEAN
      /\ {"move", "crash", "stop"} \subseteq Sorts
  BY DEF Base, TypeInv, Sorts, Agents
<1>u. \A s \in Sorts : Used(s) \in Nat /\ Used(s)' \in Nat /\ Used(s)' >= Used(s)
  BY UsedGrows
<1>l. ~live[Ingest] => Used("stop") > 0
  BY DEF LiveSpent
<1>k. ~live'[Ingest] => Used("stop")' > 0
  BY LiveSpentStays DEF LiveSpent
<1>1. Rounds \in Nat /\ Rounds' \in Nat
  BY <1>b, <1>u, <1>l, <1>k DEF Rounds
<1>2. ASSUME live'[Ingest] = live[Ingest]
      PROVE  Rounds' >= Rounds /\ (Spend("move") => Rounds' >= Rounds + 1)
  <2>1. Spend("move") => Used("move")' = Used("move") + 1
    BY <1>b, SpendCounts
  <2> QED
    BY <2>1, <1>2, <1>b, <1>u DEF Rounds
<1>3. CASE Shutdown
  <2>1. Used("stop")' = Used("stop") + 1 /\ live[Ingest]
    BY <1>3, <1>b, SpendCounts DEF Shutdown
  <2>2. Rounds' >= Rounds
    BY <2>1, <1>b, <1>u DEF Rounds
  <2>3. ~Ends /\ ~LoopOnly
    <3>1. live' = [live EXCEPT ![Ingest] = FALSE] /\ live \in [Agents -> BOOLEAN]
      BY <1>3, <1>b DEF Shutdown, TypeInv
    <3>2. ~live'[Ingest]
      BY <3>1 DEF Agents
    <3>3. Ends => live'[Ingest]
      BY DEF Ends, Die, Agents
    <3> QED
      BY <2>1, <3>2, <3>3, <1>b, LoopJobs
  <2> QED
    BY <2>2, <2>3, <1>1
<1>4. CASE Ends
  <2>1. live'[Ingest]
    BY <1>4 DEF Ends, Die, Agents
  <2>2. Spend("crash") => Used("crash")' = Used("crash") + 1
    BY <1>b, SpendCounts
  <2>3. Rounds' >= Rounds + 1
    BY <2>1, <2>2, <1>4, <1>b, <1>u DEF Ends, Rounds
  <2> QED
    BY <2>3, <1>1
<1>5. CASE LoopOnly
  <2>1. live'[Ingest] = live[Ingest]
    BY <1>5, <1>b, LoopJobs
  <2> QED
    BY <2>1, <1>1, <1>2, <1>4
<1>6. CASE (\E a \in Agents : CommitStep(a)) \/ (\E r \in Requests : Request(r) \/ Disconnect(r))
           \/ UNCHANGED vars
  <2>1. live'[Ingest] = live[Ingest]
    BY <1>6, <1>b, CommitTouches, IntakeAssumption DEF Request, Disconnect, vars, TypeInv, Agents
  <2> QED
    BY <2>1, <1>1, <1>2, <1>4, <1>5
<1> QED
  BY <1>3, <1>4, <1>5, <1>6, NextCases

LEMMA CountedTerms ==
  ASSUME Base, NEW m \in Mails, NEW b \in Range(Found[m])
  PROVE  m \in Sources /\ b \in Bookings /\ Copies(m, b) \in Nat
<1>1. m \in Sources /\ b \in Bookings
  BY WhatIsFound DEF Sources
<1> QED
  BY <1>1, CopiesAre DEF Base

\* Outside Commit no copy is made.
LEMMA CountedQuiet ==
  ASSUME Base, LiveSpent, InboxOK, Counted, [Next]_vars, ~\E a \in Agents : CommitStep(a)
  PROVE  Counted'
<1> SUFFICES ASSUME NEW m \in Mails, NEW b \in Range(Found[m])
             PROVE  /\ Copies(m, b)' <= 1 + Rounds'
                    /\ inbox'[m] = "new" /\ ~Processing(m)' => Copies(m, b)' <= Rounds'
                    /\ Processing(m)' /\ b \in Pending' /\ ~InHand(b)' => Copies(m, b)' <= Rounds'
  BY DEF Counted
<1>b. TypeInv /\ JobsOK /\ inbox \in [Mails -> {"new", "failed", "gone"}]
  BY DEF Base, TypeInv
<1>c. Copies(m, b)' = Copies(m, b) /\ Copies(m, b) \in Nat
  BY QuietRest, CountedTerms DEF Copies, CopiesOf
<1>r. /\ Rounds \in Nat /\ Rounds' \in Nat /\ Rounds' >= Rounds
      /\ Ends => Rounds' >= Rounds + 1
      /\ LoopOnly /\ Spend("move") => Rounds' >= Rounds + 1
  BY RoundsGrow
<1>h. /\ Copies(m, b) <= 1 + Rounds
      /\ inbox[m] = "new" /\ ~Processing(m) => Copies(m, b) <= Rounds
      /\ Processing(m) /\ b \in Pending /\ ~InHand(b) => Copies(m, b) <= Rounds
  BY DEF Counted
<1>1. Copies(m, b)' <= 1 + Rounds'
  BY <1>c, <1>r, <1>h
<1>2. CASE Rounds' >= Rounds + 1
  BY <1>2, <1>c, <1>r, <1>h
<1>3. CASE /\ inbox'[m] = "new" /\ ~Processing(m)' => inbox[m] = "new" /\ ~Processing(m)
           /\ Processing(m)' /\ b \in Pending' /\ ~InHand(b)' =>
                \/ inbox[m] = "new" /\ ~Processing(m)
                \/ Processing(m) /\ b \in Pending /\ ~InHand(b)
  <2>1. CASE inbox[m] = "new" /\ ~Processing(m)
    BY <2>1, <1>1, <1>c, <1>r, <1>h
  <2>2. CASE Processing(m) /\ b \in Pending /\ ~InHand(b)
    BY <2>2, <1>1, <1>c, <1>r, <1>h
  <2> QED
    BY <2>1, <2>2, <1>1, <1>3
\* A mail that goes back unread still has all its bookings pending.
<1>4. CASE Busy /\ ~Busy' /\ UNCHANGED inbox /\ job[Ingest].step \in Reading
  <2>1. Processing(m) => b \in Pending /\ ~InHand(b)
    BY <1>4 DEF Processing, Pending, InHand, Reading, Working
  <2>2. ~Processing(m)'
    BY <1>4 DEF Processing
  <2>3. inbox'[m] = "new" => Copies(m, b) <= Rounds
    BY <2>1, <1>4, <1>h
  <2> QED
    BY <2>2, <2>3, <1>1, <1>c, <1>r
<1>5. CASE LoopOnly
  <2>1. CASE ~Busy /\ ~Busy' /\ UNCHANGED inbox
    BY <2>1, <1>3 DEF Processing
  <2>2. CASE \E n \in Mails : n \in queue /\ ~Busy /\ Processing(n)' /\ UNCHANGED inbox
    BY <2>2, <1>3 DEF Processing, InboxOK
  <2>3. CASE Busy /\ Busy' /\ UNCHANGED <<inbox, queue, Mail>> /\ (Pending' \subseteq Pending)
             /\ job[Ingest].step \notin Working
    <3>1. ~InHand(b)
      BY <2>3 DEF InHand
    <3>2. Processing(m)' <=> Processing(m)
      BY <2>3 DEF Processing
    <3> QED
      BY <2>3, <3>1, <3>2, <1>3
  <2>4. CASE Busy /\ ~Busy' /\ \E to \in {"gone", "failed"} : inbox' = [inbox EXCEPT ![Mail] = to]
    <3>1. ~Processing(m)'
      BY <2>4 DEF Processing
    <3>2. inbox'[m] = "new" => inbox[m] = "new" /\ ~Processing(m)
      BY <2>4, <1>b DEF Processing
    <3> QED
      BY <3>1, <3>2, <1>3
  <2>5. CASE Busy /\ Busy' /\ UNCHANGED <<inbox, queue>> /\ UNCHANGED Mail
             /\ \/ /\ job[Ingest].step \in {"read", "extract"}
                   /\ job'[Ingest].step \in {"extract", "poison"}
                \/ /\ job[Ingest].step = "extract" /\ job'[Ingest].step = "select"
                \/ /\ job[Ingest].step = "select" /\ job'[Ingest].step = "take"
                   /\ job'[Ingest].todo = job[Ingest].todo
                \/ /\ job[Ingest].step = "select" /\ job'[Ingest].step = "log"
                   /\ job'[Ingest].todo = << >>
                \/ /\ job[Ingest].step \in {"log", "reply"} /\ job'[Ingest].step \in {"reply", "remove"}
                   /\ job'[Ingest].todo = << >>
    <3>1. job[Ingest].step \notin Working
      BY <2>5 DEF Working
    <3>2. Pending' \subseteq Pending
      <4>1. CASE job[Ingest].step \in Reading /\ job'[Ingest].step \in Reading
        BY <4>1, <2>5 DEF Pending
      <4>2. CASE job'[Ingest].todo = << >> /\ job'[Ingest].step \notin Reading
        BY <4>2, WhatIsFound DEF Pending
      <4>3. CASE job[Ingest].step = "select" /\ job'[Ingest].step = "take"
                 /\ job'[Ingest].todo = job[Ingest].todo
        <5>1. Range(job[Ingest].todo) \subseteq Range(Found[Mail])
          BY <4>3, <1>b, WhatIsFound DEF JobsOK, JobOK, Mail, Agents
        <5> QED
          BY <5>1, <4>3 DEF Pending, Reading
      <4> QED
        BY <4>1, <4>2, <4>3, <2>5 DEF Reading
    <3> QED
      BY <3>1, <3>2, <2>3, <2>5
  <2> QED
    BY <2>1, <2>2, <2>4, <2>5, <1>2, <1>4, <1>5, <1>b, <1>r, LoopMoves
<1>6. CASE Shutdown \/ (\E r \in Requests : Request(r) \/ Disconnect(r)) \/ UNCHANGED vars
  <2>1. UNCHANGED inbox /\ job'[Ingest] = job[Ingest]
    BY <1>6, <1>b, IntakeAssumption DEF Shutdown, Request, Disconnect, vars, disk, TypeInv, Agents
  <2>2. (Processing(m)' <=> Processing(m)) /\ Pending' = Pending /\ (InHand(b)' <=> InHand(b))
    BY <2>1 DEF Processing, Busy, Mail, Pending, InHand, Booking
  <2> QED
    BY <2>1, <2>2, <1>3
<1> QED
  BY <1>2, <1>5, <1>6, <1>r, NextCases

LEMMA CountedCommit ==
  ASSUME Base, LiveSpent, Counted, NEW a \in Agents, CommitStep(a)
  PROVE  Counted'
<1> SUFFICES ASSUME NEW m \in Mails, NEW b \in Range(Found[m])
             PROVE  /\ Copies(m, b)' <= 1 + Rounds'
                    /\ inbox'[m] = "new" /\ ~Processing(m)' => Copies(m, b)' <= Rounds'
                    /\ Processing(m)' /\ b \in Pending' /\ ~InHand(b)' => Copies(m, b)' <= Rounds'
  BY DEF Counted
<1>b. TypeInv /\ JobsOK /\ JobOK(a, job[a])
  BY DEF Base, JobsOK
<1>m. m \in Sources /\ b \in Bookings
  BY CountedTerms
<1>c. /\ Copies(m, b) \in Nat /\ Copies(m, b)' \in Nat /\ Copies(m, b)' <= Copies(m, b) + 1
      /\ Copies(m, b)' > Copies(m, b) => job[a].step = "create"
      /\ Copies(m, b)' # Copies(m, b) =>
           /\ m = job[a].source /\ b = Booking(a)
           /\ job[a].step = "create" \/ job[a].step \in Working
  BY <1>m, CommitCopies
<1>n. [Next]_vars
  BY DEF Next, LoopStep, Agents
<1>r. Rounds \in Nat /\ Rounds' \in Nat /\ Rounds' >= Rounds
  BY <1>n, RoundsGrow
<1>h. /\ Copies(m, b) <= 1 + Rounds
      /\ inbox[m] = "new" /\ ~Processing(m) => Copies(m, b) <= Rounds
      /\ Processing(m) /\ b \in Pending /\ ~InHand(b) => Copies(m, b) <= Rounds
  BY DEF Counted
<1>i. UNCHANGED inbox
  BY CommitTouches
<1>1. CASE a # Ingest
  <2>1. job'[Ingest] = job[Ingest]
    BY <1>1, OthersKeep DEF Agents
  <2>2. job[a].step \in Committing
    BY CommitTouches
  <2>3. m # job[a].source
    BY <2>2, <1>1, <1>b, IntakeAssumption DEF JobOK, Committing, Working, Agents
  <2>4. Copies(m, b)' = Copies(m, b)
    BY <2>3, <1>c
  <2>5. (Processing(m)' <=> Processing(m)) /\ Pending' = Pending /\ (InHand(b)' <=> InHand(b))
    BY <2>1 DEF Processing, Busy, Mail, Pending, InHand, Booking
  <2>6. CASE Copies(m, b) <= Rounds
    BY <2>4, <2>6, <1>c, <1>r
  <2> QED
    BY <2>4, <2>5, <2>6, <1>c, <1>h, <1>i, <1>r
<1>2. CASE a = Ingest
  <2>1. /\ Busy /\ Busy' /\ UNCHANGED Mail
        /\ job[Ingest].step \in Committing /\ job'[Ingest].step \in Committing \cup {"log"}
    BY <1>2, LoopCommits
  <2>2. Processing(m)' <=> Processing(m)
    BY <2>1 DEF Processing
  <2>3. Pending = Range(job[Ingest].todo) /\ Pending' = Range(job'[Ingest].todo)
    BY <2>1 DEF Pending, Reading, Committing, Working
  <2>4. CASE ~Processing(m)
    <3>1. Copies(m, b)' = Copies(m, b)
      BY <2>1, <2>4, <1>2, <1>c DEF Processing, Mail
    <3>2. CASE Copies(m, b) <= Rounds
      BY <3>1, <3>2, <1>c, <1>r
    <3> QED
      BY <3>1, <3>2, <2>2, <2>4, <1>c, <1>h, <1>i, <1>r
  <2>5. CASE Processing(m)
    <3>1. Copies(m, b)' <= 1 + Rounds'
      <4>1. CASE job[Ingest].step = "create" /\ b = Booking(Ingest)
        <5>1. job[Ingest].todo # << >>
          BY <4>1, <1>2, <1>b DEF JobOK, Committing
        <5>2. b \in Pending /\ ~InHand(b)
          BY <4>1, <5>1, <2>3, <1>2, <1>b, BookingIs DEF InHand, Working
        <5>3. Copies(m, b) <= Rounds
          BY <5>2, <2>5, <1>h
        <5> QED
          BY <5>3, <1>c, <1>r
      <4>2. CASE Copies(m, b)' <= Copies(m, b)
        BY <4>2, <1>c, <1>h, <1>r
      <4> QED
        BY <4>1, <4>2, <1>2, <1>c
    <3>2. ASSUME b \in Pending', ~InHand(b)'
          PROVE  b \in Pending /\ ~InHand(b) /\ Copies(m, b)' = Copies(m, b)
      <4>1. CASE /\ job'[Ingest].todo = job[Ingest].todo
                 /\ job[Ingest].step \in {"create"} \cup Working => job'[Ingest].step \in Working
        <5>1. b = Booking(Ingest) => b = Booking(Ingest)'
          BY <4>1 DEF Booking
        <5>2. b = Booking(Ingest) => job[Ingest].step \notin {"create"} \cup Working
          BY <4>1, <5>1, <3>2 DEF InHand
        <5> QED
          BY <4>1, <5>2, <3>2, <2>3, <1>2, <1>c DEF InHand
      <4>2. CASE job[Ingest].todo # << >> /\ job'[Ingest].todo = Tail(job[Ingest].todo)
        <5>1. b # Booking(Ingest) /\ b \in Range(job[Ingest].todo)
          BY <4>2, <3>2, <2>3, <1>2, <1>b, BookingIs
        <5> QED
          BY <5>1, <2>3, <1>2, <1>c DEF InHand
      <4> QED
        BY <4>1, <4>2, <1>2, LoopCommits
    <3>3. ASSUME b \in Pending', ~InHand(b)' PROVE Copies(m, b)' <= Rounds'
      <4>1. Copies(m, b) <= Rounds
        BY <3>2, <3>3, <2>5, <1>h
      <4> QED
        BY <4>1, <3>2, <3>3, <1>c, <1>r
    <3> QED
      BY <3>1, <3>3, <2>2, <2>5
  <2> QED
    BY <2>4, <2>5
<1> QED
  BY <1>1, <1>2

ImportsOnce ==
  \A p, q \in plans :
    p.source \in Imports /\ q.source \in Imports /\ p.booking = q.booking => p = q

LEMMA ImportsOnceStays ==
  ASSUME Base, ImportsOnce, [Next]_vars
  PROVE  ImportsOnce'
<1>1. CASE UNCHANGED plans
  BY <1>1 DEF ImportsOnce
<1>2. ASSUME NEW a \in Agents, CommitStep(a) PROVE ImportsOnce'
  <2>1. CASE At(a, "create") /\ ~Duplicate(a) /\ CreatePlan(a)
    <3>1. PICK x \in PlanType :
             x.source = job[a].source /\ x.booking = Booking(a) /\ plans' = plans \cup {x}
      BY <2>1, CreateAdds
    <3>2. x.source \in Imports => a \in Imports
      <4>1. job[a].source \in (IF a = Ingest THEN Mails ELSE {a})
        BY <2>1 DEF Base, JobsOK, JobOK, At
      <4> QED
        BY <4>1, <3>1, IntakeAssumption
    <3>3. x.source \in Imports => \A p \in plans : p.booking # x.booking
      BY <3>1, <3>2, <2>1 DEF Duplicate, Stored
    <3> QED
      BY <3>1, <3>3 DEF ImportsOnce
  <2>2. CASE Extra(a) \/ ExtraFails(a) \/ Rollback(a)
    <3>1. PICK x \in plans :
            \/ plans' = plans
            \/ \E y \in PlanType : SameKey(x, y) /\ plans' = (plans \ {x}) \cup {y}
            \/ plans' = plans \ {x}
      BY <2>2, WorkingPlans
    <3>2. ASSUME NEW y \in PlanType, SameKey(x, y), plans' = (plans \ {x}) \cup {y}
          PROVE  ImportsOnce'
      BY <3>2 DEF ImportsOnce, SameKey
    <3> QED
      BY <3>1, <3>2, <1>1 DEF ImportsOnce
  <2> QED
    BY <2>1, <2>2, <1>1, <1>2, QuietOrNot DEF Quiet, Create
<1> QED
  BY <1>1, <1>2, QuietRest

\* A mail's booking is stored twice only after the process died or was stopped,
\* or the file could not be moved, one copy for each; no failed statement, audit
\* row or reply repeats it.  Two imports of one calendar never store an event
\* twice (ingest.go:119-138, and the unique index on the event of a trip).
THEOREM CopiesHaveCauses == Spec => []CopiesHaveACause
<1>1. Init => LiveSpent /\ InboxOK /\ Counted /\ ImportsOnce
  <2> SUFFICES ASSUME Init PROVE LiveSpent /\ InboxOK /\ Counted /\ ImportsOnce
    OBVIOUS
  <2>1. ~Busy /\ LiveSpent /\ ImportsOnce
    BY NewJobs DEF Init, LiveSpent, Agents, Busy, ImportsOnce
  <2>2. InboxOK
    BY <2>1 DEF Init, InboxOK, Processing
  <2>3. \A m, b : Copies(m, b) = 0
    BY FS_EmptySet DEF Init, Copies, CopiesOf
  <2>4. Rounds = 0
    <3>1. live[Ingest] /\ Used("move") = 0 /\ Used("crash") = 0 /\ Used("stop") = 0
      BY IntakeAssumption DEF Init, Agents, Used, Sorts
    <3> QED
      BY <3>1 DEF Rounds
  <2> QED
    BY <2>1, <2>2, <2>3, <2>4 DEF Counted
<1>2. Base /\ LiveSpent /\ InboxOK /\ Counted /\ ImportsOnce /\ [Next]_vars
        => Base' /\ LiveSpent' /\ InboxOK' /\ Counted' /\ ImportsOnce'
  BY BaseStays, LiveSpentStays, InboxStays, CountedQuiet, CountedCommit, ImportsOnceStays
<1>3. Base /\ LiveSpent /\ Counted /\ ImportsOnce => CopiesHaveACause
  <2> SUFFICES ASSUME Base, LiveSpent, Counted, ImportsOnce, NEW m \in Mails, NEW b \in Range(Found[m])
               PROVE  Copies(m, b) <= 1 + Used("move") + Used("crash") + Used("stop")
    BY DEF ImportsOnce, CopiesHaveACause
  <2>1. Used("move") \in Nat /\ Used("crash") \in Nat /\ Used("stop") \in Nat
    BY UsedIsNat DEF Base, TypeInv, Sorts
  <2>2. Copies(m, b) <= 1 + Rounds /\ Copies(m, b) \in Nat
    BY CountedTerms DEF Counted
  <2> QED
    BY <2>1, <2>2 DEF Rounds
<1> QED
  BY <1>1, <1>2, <1>3, BaseInit, PTL DEF Spec

----------------------------------------------------------------------------
(* Nothing is lost without a trace *)

W == Used("fault") + Used("lost")
Untraced(m, b) == CopiesOf(m, b) = {} /\ b \notin told[m]

\* While the server is not being stopped: a booking of the mail at hand that
\* has been dealt with and left no trace has cost a failure, and one that no
\* reply told of either has cost two.
Traced ==
  Used("stop") = 0 =>
    /\ \A m \in Mails : inbox[m] = "gone" => \A b \in Range(Found[m]) : Untraced(m, b) => W >= 2
    /\ \A m \in Mails : Processing(m) /\ job[Ingest].step \in Committing \cup Closing =>
         \A b \in Range(Found[m]) \ Range(job[Ingest].todo) :
           Untraced(m, b) => W >= (IF At(Ingest, "remove") THEN 2 ELSE 1)
    /\ At(Ingest, "rollback") => W >= 1
    /\ At(Ingest, "select") => job[Ingest].todo = Found[Mail]

LEMMA CostStep ==
  ASSUME Base, LiveSpent, [Next]_vars, Used("stop")' = 0
  PROVE  /\ Used("stop") = 0 /\ live[Ingest] /\ ~Spend("stop")
         /\ W \in Nat /\ W' \in Nat /\ W' >= W
         /\ Spend("fault") => W' = W + 1
         /\ Spend("lost") => W' = W + 1
<1>s. {"fault", "lost", "stop"} \subseteq Sorts /\ LeftOK
  BY DEF Sorts, Base, TypeInv
<1>u. \A s \in Sorts : Used(s) \in Nat /\ Used(s)' \in Nat /\ Used(s)' >= Used(s)
  BY UsedGrows
<1>1. Used("stop") = 0 /\ live[Ingest]
  BY <1>s, <1>u DEF LiveSpent
<1>2. \A s \in Sorts : Spend(s) => Used(s)' = Used(s) + 1
  BY <1>s, SpendCounts
<1>3. W \in Nat /\ W' \in Nat /\ W' >= W
  BY <1>s, <1>u DEF W
<1>4. Spend("fault") => Used("lost")' = Used("lost")
  BY <1>s, SpendCounts
<1>5. Spend("lost") => Used("fault")' = Used("fault")
  BY <1>s, SpendCounts
<1>6. Spend("fault") => W' = W + 1
  BY <1>2, <1>4, <1>s, <1>u DEF W
<1>7. Spend("lost") => W' = W + 1
  BY <1>2, <1>5, <1>s, <1>u DEF W
<1>8. ~Spend("stop")
  BY <1>1, <1>2, <1>s
<1> QED
  BY <1>1, <1>3, <1>6, <1>7, <1>8

LEMMA TracedQuiet ==
  ASSUME Base, LiveSpent, InboxOK, Traced, [Next]_vars, ~\E a \in Agents : CommitStep(a)
  PROVE  Traced'
<1> SUFFICES ASSUME Used("stop")' = 0 PROVE Traced'
  BY DEF Traced
<1>b. TypeInv /\ JobsOK /\ inbox \in [Mails -> {"new", "failed", "gone"}] /\ JobOK(Ingest, job[Ingest])
      /\ told \in [Mails -> SUBSET Bookings]
  BY DEF Base, TypeInv, JobsOK, Agents
<1>c. /\ Used("stop") = 0 /\ live[Ingest] /\ ~Spend("stop")
      /\ W \in Nat /\ W' \in Nat /\ W' >= W /\ (Spend("fault") => W' = W + 1)
  BY CostStep
<1>h. /\ \A m \in Mails : inbox[m] = "gone" => \A b \in Range(Found[m]) : Untraced(m, b) => W >= 2
      /\ \A m \in Mails : Processing(m) /\ job[Ingest].step \in Committing \cup Closing =>
           \A b \in Range(Found[m]) \ Range(job[Ingest].todo) :
             Untraced(m, b) => W >= (IF At(Ingest, "remove") THEN 2 ELSE 1)
      /\ At(Ingest, "rollback") => W >= 1
      /\ At(Ingest, "select") => job[Ingest].todo = Found[Mail]
  BY <1>c DEF Traced
<1>p. UNCHANGED plans
  BY QuietRest
<1>w. (W >= 2 => W' >= 2) /\ (W >= 1 => W' >= 1)
  BY <1>c
<1>t. ASSUME UNCHANGED told
      PROVE  \A m, b : Untraced(m, b)' <=> Untraced(m, b)
  BY <1>t, <1>p DEF Untraced, CopiesOf
<1>g. ASSUME UNCHANGED <<told, inbox>>
      PROVE  \A m \in Mails : inbox'[m] = "gone" => \A b \in Range(Found[m]) : Untraced(m, b)' => W' >= 2
  BY <1>g, <1>t, <1>h, <1>w
<1>1. CASE Reply
  <2>1. /\ job[Ingest].step = "reply" /\ job'[Ingest].step = "remove" /\ UNCHANGED <<inbox, queue>>
        /\ Busy /\ Busy' /\ UNCHANGED Mail /\ job[Ingest].todo = << >>
    <3>1. LoopOnly /\ job[Ingest].step = "reply"
      BY <1>1 DEF LoopOnly, Reply, At
    <3> QED
      BY <3>1, <1>b, LoopMoves DEF Busy, Reading, EndDrain, StartDrain, NextFile, At
  <2>2. Mail \in Mails /\ inbox[Mail] = "new"
    BY <2>1, <1>b DEF JobOK, Mail, InboxOK, Processing
  <2>3. \A m \in Mails : m # Mail => \A b : Untraced(m, b)' => Untraced(m, b)
    BY <1>1, <1>p, <1>b DEF Reply, Untraced, CopiesOf
  <2>4. ASSUME NEW b \in Range(Found[Mail]), Untraced(Mail, b)' PROVE W' >= 2
    <3>1. CASE Works(Ingest) /\ told' = [told EXCEPT ![Mail] = Range(Found[Mail])]
      <4>1. told'[Mail] = Range(Found[Mail])
        BY <3>1, <2>2, <1>b
      <4> QED
        BY <4>1, <2>1, <2>4 DEF Untraced
    <3>2. CASE Fails(Ingest) /\ UNCHANGED told
      <4>1. Untraced(Mail, b)
        BY <3>2, <2>1, <2>4, <1>p DEF Untraced, CopiesOf
      <4>2. W >= 1
        BY <4>1, <2>1, <2>2, <1>h, WhatIsFound DEF Processing, At, Closing
      <4> QED
        BY <4>2, <3>2, <1>c DEF Fails
    <3> QED
      BY <3>1, <3>2, <1>1 DEF Reply
  <2>5. \A m \in Mails : inbox'[m] = "gone" => \A b \in Range(Found[m]) : Untraced(m, b)' => W' >= 2
    <3> SUFFICES ASSUME NEW m \in Mails, inbox'[m] = "gone", NEW b \in Range(Found[m]), Untraced(m, b)'
                 PROVE  W' >= 2
      OBVIOUS
    <3>1. m # Mail /\ inbox[m] = "gone"
      BY <2>1, <2>2
    <3> QED
      BY <3>1, <2>3, <1>h, <1>w
  <2>6. \A m \in Mails : Processing(m)' => \A b \in Range(Found[m]) : Untraced(m, b)' => W' >= 2
    <3> SUFFICES ASSUME NEW m \in Mails, Processing(m)', NEW b \in Range(Found[m]), Untraced(m, b)'
                 PROVE  W' >= 2
      OBVIOUS
    <3>1. m = Mail
      BY <2>1 DEF Processing
    <3>2. b \in Range(Found[Mail]) /\ Untraced(Mail, b)'
      BY <3>1, <2>1 DEF Untraced
    <3> QED
      BY <3>2, <2>4
  <2> QED
    BY <2>1, <2>5, <2>6, <1>c DEF Traced, At
<1>2. CASE LoopOnly /\ ~Reply
  <2>1. UNCHANGED told
    BY <1>2 DEF LoopOnly, StartDrain, EndDrain, NextFile, Admit, AdmitFails, Extract, ExtractFails,
                Panic, SelectTripForBatch, SelectFails, LogIngest, Remove, SetAside, MoveFile
  <2>2. CASE ~Busy' /\ UNCHANGED inbox
    BY <2>1, <2>2, <1>g DEF Traced, Processing, At, Busy
  <2>3. CASE Processing(Mail)' /\ UNCHANGED inbox /\ job'[Ingest].step \in {"read", "extract", "poison"}
    BY <2>1, <2>3, <1>g DEF Traced, At, Committing, Working, Closing
  <2>4. CASE Busy /\ UNCHANGED inbox /\ UNCHANGED Mail /\ job'[Ingest].step = "select"
             /\ job'[Ingest].todo = Found[Mail]
    BY <2>1, <2>4, <1>g DEF Traced, At, Committing, Working, Closing
  <2>5. CASE Busy /\ UNCHANGED inbox /\ UNCHANGED Mail /\ job[Ingest].step = "select"
             /\ job'[Ingest].step = "take" /\ job'[Ingest].todo = job[Ingest].todo
    <3>1. job'[Ingest].todo = Found[Mail]
      BY <2>5, <1>h DEF At
    <3>2. \A m \in Mails : Processing(m)' => Range(Found[m]) \ Range(job'[Ingest].todo) = {}
      BY <2>5, <3>1 DEF Processing
    <3> QED
      BY <2>1, <2>5, <3>2, <1>g DEF Traced, At
  <2>6. CASE SelectFails /\ Busy /\ UNCHANGED inbox /\ job'[Ingest].step = "log"
    <3>1. W' >= 1
      BY <2>6, <1>c DEF SelectFails, Fails
    <3> QED
      BY <2>1, <2>6, <3>1, <1>g DEF Traced, At
  <2>7. CASE Busy /\ Busy' /\ UNCHANGED inbox /\ UNCHANGED Mail /\ job[Ingest].step = "log"
             /\ job'[Ingest].step = "reply" /\ job[Ingest].todo = << >> /\ job'[Ingest].todo = << >>
    <3>1. ASSUME NEW m \in Mails, Processing(m)', NEW b \in Range(Found[m]), Untraced(m, b)'
          PROVE  W' >= 1
      <4>1. Processing(m) /\ Untraced(m, b)
        BY <2>1, <2>7, <3>1, <1>t DEF Processing
      <4>2. W >= 1
        BY <4>1, <2>7, <1>h, WhatIsFound DEF Closing, At
      <4> QED
        BY <4>2, <1>w
    <3> QED
      BY <2>1, <2>7, <3>1, <1>g DEF Traced, At
  <2>8. CASE /\ Busy /\ ~Busy' /\ At(Ingest, "remove")
             /\ inbox' = [inbox EXCEPT ![Mail] = "gone"]
    <3>1. \A m \in Mails : inbox'[m] = "gone" => inbox[m] = "gone" \/ Processing(m)
      BY <2>8, <1>b DEF Processing
    <3>2. job[Ingest].todo = << >>
      BY <2>8, <1>b DEF JobOK, At, Committing, Working
    <3>3. ASSUME NEW m \in Mails, inbox'[m] = "gone", NEW b \in Range(Found[m]), Untraced(m, b)'
          PROVE  W' >= 2
      <4>1. Untraced(m, b)
        BY <3>3, <2>1, <1>t
      <4>2. CASE inbox[m] = "gone"
        BY <4>1, <4>2, <1>h, <1>w
      <4>3. CASE Processing(m)
        <5>1. W >= 2
          BY <4>1, <4>3, <3>2, <2>8, <1>h, WhatIsFound DEF Closing, At
        <5> QED
          BY <5>1, <1>w
      <4> QED
        BY <4>2, <4>3, <3>1, <3>3
    <3> QED
      BY <2>8, <3>3 DEF Traced, Processing, At, Busy
  <2>9. CASE Busy /\ ~Busy' /\ inbox' = [inbox EXCEPT ![Mail] = "failed"]
    <3>1. \A m \in Mails : inbox'[m] = "gone" => inbox[m] = "gone"
      BY <2>9, <1>b
    <3> QED
      BY <2>1, <2>9, <3>1, <1>t, <1>h, <1>w DEF Traced, Processing, At, Busy
  <2>10. \A m \in Mails : Processing(m)' => Processing(Mail)'
    BY DEF Processing
  <2> QED
    BY <2>2, <2>3, <2>4, <2>5, <2>6, <2>7, <2>8, <2>9, <2>10, <1>2, <1>b, LoopMoves
       DEF Processing, Busy
<1>3. CASE Ends
  <2>1. UNCHANGED <<told, inbox>> /\ job'[Ingest].step = "idle"
    BY <1>3, NewJobs DEF Ends, Die, Agents, store
  <2> QED
    BY <2>1, <1>g DEF Traced, Processing, At, Busy
<1>4. CASE Shutdown \/ (\E r \in Requests : Request(r) \/ Disconnect(r)) \/ UNCHANGED vars
  <2>1. UNCHANGED <<inbox, told>> /\ job'[Ingest] = job[Ingest]
    BY <1>4, <1>b, IntakeAssumption DEF Shutdown, Request, Disconnect, vars, disk, TypeInv, Agents
  <2>2. \A m : Processing(m)' <=> Processing(m)
    BY <2>1 DEF Processing, Busy, Mail
  <2>3. ASSUME NEW m \in Mails, Processing(m), job[Ingest].step \in Committing \cup Closing,
               NEW b \in Range(Found[m]) \ Range(job[Ingest].todo), Untraced(m, b)
        PROVE  W' >= (IF At(Ingest, "remove") THEN 2 ELSE 1)
    <3>1. W >= (IF At(Ingest, "remove") THEN 2 ELSE 1)
      BY <2>3, <1>h
    <3> QED
      BY <3>1, <1>w
  <2>4. \A m \in Mails : Processing(m)' /\ job'[Ingest].step \in Committing \cup Closing =>
          \A b \in Range(Found[m]) \ Range(job'[Ingest].todo) :
            Untraced(m, b)' => W' >= (IF At(Ingest, "remove")' THEN 2 ELSE 1)
    BY <2>1, <2>2, <2>3, <1>t DEF At
  <2> QED
    BY <2>1, <2>4, <1>g, <1>h, <1>w DEF Traced, At, Mail
<1> QED
  BY <1>1, <1>2, <1>3, <1>4, NextCases

\* The loop drops a booking after a failure, or once its plan is complete.
LEMMA LoopSkips ==
  ASSUME Base, CommitStep(Ingest), live[Ingest], Skip(Ingest), job[Ingest].todo # << >>
  PROVE  \/ Spend("fault") \/ Spend("lost")
         \/ At(Ingest, "rollback")
         \/ Extra(Ingest)
<1>b. /\ TypeInv /\ JobsOK /\ job \in [Agents -> JobType] /\ job[Ingest] \in JobType
      /\ Ingest \in Agents /\ Ingest \notin Imports
  BY IntakeAssumption DEF Base, TypeInv, Agents
<1>1. job'[Ingest].step = "take"
  BY <1>b DEF Skip, JobType
<1>g. ASSUME NEW s \in {"check", "log", "create", "rollback"} PROVE ~GoTo(Ingest, s)
  <2>1. GoTo(Ingest, s) => job'[Ingest].step = s
    BY <1>b DEF GoTo, JobType
  <2> QED
    BY <2>1, <1>1
<1>2. Fails(Ingest) => Spend("fault")
  BY DEF Fails
<1>3. ~Take(Ingest)
  BY <1>g DEF Take
<1>4. ~Check(Ingest)
  BY <1>g, <1>b DEF Check
<1>5. ~Create(Ingest)
  <2>1. Create(Ingest) => job'[Ingest] = [job[Ingest] EXCEPT !.step = "aboard", !.copy = NextCopy(Ingest)]
    BY <1>b DEF Create
  <2>2. Create(Ingest) => job'[Ingest].step = "aboard"
    BY <2>1, <1>b DEF JobType
  <2> QED
    BY <2>2, <1>1
<1>6. ~ExtraFails(Ingest)
  BY <1>g DEF ExtraFails
<1>7. CheckFails(Ingest) \/ CreateFails(Ingest) => Spend("fault") \/ Spend("lost")
  BY <1>2, <1>b DEF CheckFails, CreateFails, Duplicate, AnswerLost
<1> QED
  BY <1>3, <1>4, <1>5, <1>6, <1>7 DEF CommitStep, Rollback

LEMMA TracedCommit ==
  ASSUME Base, LiveSpent, InboxOK, Traced, NEW a \in Agents, CommitStep(a)
  PROVE  Traced'
<1> SUFFICES ASSUME Used("stop")' = 0 PROVE Traced'
  BY DEF Traced
<1>b. TypeInv /\ JobsOK /\ JobOK(a, job[a]) /\ JobsOK' /\ Numbered(plans)
  BY CommitBase DEF Base, JobsOK
<1>n. [Next]_vars
  BY DEF Next, LoopStep, Agents
<1>c. /\ Used("stop") = 0 /\ live[Ingest] /\ W \in Nat /\ W' \in Nat /\ W' >= W
      /\ (Spend("fault") => W' = W + 1) /\ (Spend("lost") => W' = W + 1)
  BY <1>n, CostStep
<1>h. /\ \A m \in Mails : inbox[m] = "gone" => \A b \in Range(Found[m]) : Untraced(m, b) => W >= 2
      /\ \A m \in Mails : Processing(m) /\ job[Ingest].step \in Committing \cup Closing =>
           \A b \in Range(Found[m]) \ Range(job[Ingest].todo) :
             Untraced(m, b) => W >= (IF At(Ingest, "remove") THEN 2 ELSE 1)
      /\ At(Ingest, "rollback") => W >= 1
      /\ At(Ingest, "select") => job[Ingest].todo = Found[Mail]
  BY <1>c DEF Traced
<1>w. (W >= 2 => W' >= 2) /\ (W >= 1 => W' >= 1)
  BY <1>c
<1>i. UNCHANGED <<inbox, told>> /\ job[a].step \in Committing
  BY CommitTouches
<1>k. ASSUME NEW m \in Mails, NEW b \in Range(Found[m]), Untraced(m, b)',
             ~(m = job[a].source /\ b = Booking(a) /\ (job[a].step = "create" \/ job[a].step \in Working))
      PROVE  Untraced(m, b)
  <2>1. m \in Sources /\ b \in Bookings
    BY CountedTerms
  <2>2. Copies(m, b)' = Copies(m, b)
    BY <2>1, <1>k, CommitCopies
  <2>3. Copies(m, b)' = 0
    BY <1>k, FS_EmptySet DEF Untraced, Copies
  <2>4. CopiesOf(m, b) = {}
    BY <2>1, <2>2, <2>3, <1>b, CopiesAre
  <2> QED
    BY <2>4, <1>k, <1>i DEF Untraced
<1>1. \A m \in Mails : inbox'[m] = "gone" => \A b \in Range(Found[m]) : Untraced(m, b)' => W' >= 2
  <2> SUFFICES ASSUME NEW m \in Mails, inbox'[m] = "gone", NEW b \in Range(Found[m]), Untraced(m, b)'
               PROVE  W' >= 2
    OBVIOUS
  <2>1. inbox[m] = "gone"
    BY <1>i
  <2>2. m # job[a].source
    <3>1. CASE a = Ingest
      <4>1. Processing(job[a].source)
        BY <3>1, <1>i DEF Processing, Busy, Mail, Committing, Working
      <4> QED
        BY <4>1, <2>1 DEF InboxOK
    <3>2. CASE a # Ingest
      BY <3>2, <1>b, <1>i, IntakeAssumption DEF JobOK, Agents, Committing, Working
    <3> QED
      BY <3>1, <3>2
  <2>3. Untraced(m, b)
    BY <2>2, <1>k
  <2> QED
    BY <2>1, <2>3, <1>h, <1>w
<1>2. CASE a # Ingest
  <2>1. job'[Ingest] = job[Ingest]
    BY <1>2, OthersKeep DEF Agents
  <2>2. \A m \in Mails : m # job[a].source
    BY <1>2, <1>b, <1>i, IntakeAssumption DEF JobOK, Agents, Committing, Working
  <2>3. ASSUME NEW m \in Mails, Processing(m)', job'[Ingest].step \in Committing \cup Closing,
               NEW b \in Range(Found[m]) \ Range(job'[Ingest].todo), Untraced(m, b)'
        PROVE  W' >= (IF At(Ingest, "remove")' THEN 2 ELSE 1)
    <3>1. Untraced(m, b) /\ Processing(m)
      BY <2>1, <2>2, <2>3, <1>k DEF Processing, Busy, Mail
    <3>2. W >= (IF At(Ingest, "remove") THEN 2 ELSE 1)
      BY <3>1, <2>1, <2>3, <1>h
    <3> QED
      BY <3>2, <2>1, <1>w DEF At
  <2> QED
    BY <2>1, <2>3, <1>1, <1>h, <1>w DEF Traced, At, Mail
<1>3. CASE a = Ingest
  <2>1. /\ Busy /\ Busy' /\ UNCHANGED Mail /\ Mail \in Mails
        /\ job[Ingest].step \in Committing /\ job'[Ingest].step \in Committing \cup {"log"}
    BY <1>3, LoopCommits
  <2>2. ~At(Ingest, "remove")' /\ ~At(Ingest, "select")' /\ ~At(Ingest, "remove")
    BY <2>1 DEF At, Committing, Working
  <2>3. ASSUME NEW b \in Range(Found[Mail]), b \notin Range(job[Ingest].todo), Untraced(Mail, b)'
        PROVE  W' >= 1
    <3>1. job[Ingest].step = "create" \/ job[Ingest].step \in Working => b # Booking(Ingest)
      <4>1. job[Ingest].step = "create" \/ job[Ingest].step \in Working => job[Ingest].todo # << >>
        BY <1>3, <1>b DEF JobOK, Committing, Working
      <4> QED
        BY <4>1, <2>3, <1>3, <1>b, BookingIs
    <3>2. Untraced(Mail, b)
      BY <3>1, <2>1, <2>3, <1>3, <1>k
    <3>3. W >= 1
      BY <3>2, <2>1, <2>2, <2>3, <1>h DEF Processing
    <3> QED
      BY <3>3, <1>w
  <2>4. ASSUME job[Ingest].todo # << >>, Skip(Ingest), Booking(Ingest) \in Range(Found[Mail]),
               NEW b, b = Booking(Ingest), Untraced(Mail, b)'
        PROVE  W' >= 1
    <3>1. CASE Spend("fault") \/ Spend("lost")
      BY <3>1, <1>c
    <3>2. CASE At(Ingest, "rollback")
      BY <3>2, <1>h, <1>w
    <3>3. CASE Extra(Ingest)
      <4>1. job[Ingest].step \in Working /\ Effect(Ingest)
        BY <3>3, <1>3, WorkingPlans DEF Extra
      <4>2. PICK x \in plans, y \in PlanType :
                 Owned(x, Ingest) /\ SameKey(x, y) /\ plans' = (plans \ {x}) \cup {y}
        BY <4>1, <1>3, EffectRewrites
      <4>3. y \in plans' /\ y.source = Mail /\ y.booking = b
        BY <4>2, <2>4 DEF Owned, SameKey, Mail
      <4> QED
        BY <4>3, <2>1, <2>4 DEF Untraced, CopiesOf
    <3> QED
      BY <3>1, <3>2, <3>3, <2>4, <1>3, <1>c, LoopSkips
  <2>5. ASSUME NEW m \in Mails, Processing(m)',
               NEW b \in Range(Found[m]) \ Range(job'[Ingest].todo), Untraced(m, b)'
        PROVE  W' >= 1
    <3>1. m = Mail /\ b \in Range(Found[Mail]) /\ Untraced(Mail, b)'
      BY <2>1, <2>5 DEF Processing, Untraced
    <3>2. CASE job'[Ingest].todo = job[Ingest].todo
      BY <3>1, <3>2, <2>3, <2>5
    <3>3. CASE job[Ingest].todo # << >> /\ Skip(Ingest) /\ job'[Ingest].todo = Tail(job[Ingest].todo)
      <4>1. /\ Range(job[Ingest].todo) = {Booking(Ingest)} \cup Range(Tail(job[Ingest].todo))
            /\ Booking(Ingest) \in Range(Found[Mail])
        BY <3>3, <1>3, <1>b, BookingIs DEF Mail
      <4>2. CASE b = Booking(Ingest)
        BY <4>1, <4>2, <3>1, <3>3, <2>4
      <4>3. CASE b # Booking(Ingest)
        BY <4>1, <4>3, <3>1, <3>3, <2>3, <2>5
      <4> QED
        BY <4>2, <4>3
    <3> QED
      BY <3>2, <3>3, <1>3, LoopCommits
  <2>6. ASSUME At(Ingest, "rollback")' PROVE W' >= 1
    <3>1. ExtraFails(Ingest)
      <4>1. ~Skip(Ingest)
        <5>1. Skip(Ingest) => job'[Ingest].step = "take"
          BY <1>3, <1>b DEF Skip, TypeInv, JobType
        <5> QED
          BY <5>1, <2>6 DEF At
      <4>2. ~Quiet(Ingest)
        BY <2>6 DEF Quiet, At, Working
      <4>3. ~Create(Ingest)
        <5>1. Create(Ingest) => job'[Ingest] = [job[Ingest] EXCEPT !.step = "aboard", !.copy = NextCopy(Ingest)]
          BY <1>3, <1>b DEF Create, TypeInv
        <5>2. Create(Ingest) => job'[Ingest].step = "aboard"
          BY <5>1, <1>3, <1>b DEF JobType, TypeInv
        <5> QED
          BY <5>2, <2>6 DEF At
      <4>4. ~Extra(Ingest)
        <5>1. ASSUME Extra(Ingest) PROVE GoTo(Ingest, "hide") \/ GoTo(Ingest, "cancel")
          BY <5>1, <4>1 DEF Extra, After
        <5>2. ASSUME NEW s \in {"hide", "cancel"}, GoTo(Ingest, s) PROVE job'[Ingest].step = s
          BY <5>2, <1>3, <1>b DEF GoTo, TypeInv, JobType
        <5> QED
          BY <5>1, <5>2, <2>6 DEF At
      <4> QED
        BY <4>1, <4>2, <4>3, <4>4, <1>3, QuietOrNot DEF Rollback, Refuse
    <3> QED
      BY <3>1, <1>c DEF ExtraFails, Fails, AnswerLost
  <2> QED
    BY <2>2, <2>5, <2>6, <1>1 DEF Traced
<1> QED
  BY <1>2, <1>3

\* A booking of a mail that is gone is stored or accounted for in a reply,
\* unless two statements failed or the server was being stopped
\* (ingest.go:372, "commit failures yield a reply failure").
THEOREM NoneVanish == Spec => []NothingVanishes
<1>1. Init => LiveSpent /\ InboxOK /\ Traced
  <2> SUFFICES ASSUME Init PROVE LiveSpent /\ InboxOK /\ Traced
    OBVIOUS
  <2>1. job[Ingest].step = "idle"
    BY NewJobs DEF Init, Agents
  <2>2. \A m \in Mails : inbox[m] = "new"
    BY DEF Init
  <2> QED
    BY <2>1, <2>2 DEF Init, LiveSpent, Agents, InboxOK, Traced, Processing, Busy, At
<1>2. Base /\ LiveSpent /\ InboxOK /\ Traced /\ [Next]_vars
        => Base' /\ LiveSpent' /\ InboxOK' /\ Traced'
  BY BaseStays, LiveSpentStays, InboxStays, TracedQuiet, TracedCommit
<1>3. Base /\ Traced => NothingVanishes
  <2> SUFFICES ASSUME Base, Traced, W < 2, Used("stop") = 0,
                      NEW m \in Mails, inbox[m] = "gone", NEW b \in Range(Found[m])
               PROVE  Copies(m, b) > 0 \/ b \in told[m]
    BY DEF NothingVanishes, W
  <2>1. ~Untraced(m, b)
    <3>1. W \in Nat
      BY UsedIsNat DEF Base, TypeInv, Sorts, W
    <3>2. Untraced(m, b) => W >= 2
      BY DEF Traced
    <3> QED
      BY <3>1, <3>2
  <2>2. CASE CopiesOf(m, b) # {}
    <3>1. Copies(m, b) \in Nat /\ Copies(m, b) # 0
      BY <2>2, CountedTerms, CopiesAre DEF Base
    <3> QED
      BY <3>1
  <2> QED
    BY <2>1, <2>2 DEF Untraced
<1> QED
  BY <1>1, <1>2, <1>3, BaseInit, PTL DEF Spec
=============================================================================
