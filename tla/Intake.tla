------------------------------- MODULE Intake -------------------------------
(***************************************************************************)
(* How bookings get in (internal/emailingest/ingest.go, internal/planops,  *)
(* internal/handlers: handlers_ingest.go, handlers_import.go): the loop    *)
(* that drains the Maildir, the confirm request and the .ics import, all   *)
(* of which end in planops.Commit.                                         *)
(*                                                                         *)
(* Commit is a chain of statements of their own with a compensating        *)
(* delete.  A statement may fail, or commit and lose its answer; a         *)
(* context is cancelled when a client goes away or the server is told to   *)
(* stop, and every later statement under it fails; the process may die.    *)
(* Mail comes from one sender, within one day of the rate limit.           *)
(***************************************************************************)
EXTENDS Naturals, Sequences, FiniteSets, Functions

CONSTANTS
  None,
  Ingest,           \* the Maildir loop
  Requests,         \* confirm and import requests, each sent once
  Imports,          \* those that import the one calendar
  Mails, Kind,      \* and what each mail turns out to be
  Found,            \* the bookings in a mail or a request, in order
  Hides,            \* bookings confirmed with a privacy setting
  Replaces,         \* the flight part a booking supersedes
  RateLimitPerDay,
  Budget, MaxFailures, \* bounds of a run: failures of each sort and in all,
  Together             \* and the sets of agents that may be busy at a time

Agents == {Ingest} \cup Requests
Bookings == UNION {Range(Found[s]) : s \in Mails \cup Requests}
Old == Range(Replaces) \ {None}
Sorts == {"fault", "lost", "move", "cut", "stop", "crash"}

ASSUME IntakeAssumption ==
  /\ Ingest \notin Requests /\ None \notin Mails \cup Requests \cup Agents
  /\ Mails \cap Requests = {}
  /\ Imports \subseteq Requests
  /\ Kind \in [Mails -> {"booking", "garbled", "panics", "stranger"}]
  /\ DOMAIN Found = Mails \cup Requests
  /\ \A s \in DOMAIN Found :  \* a booking is one item of what was found
       Found[s] \in Seq(Range(Found[s])) /\ IsInjective(Found[s])
  /\ Hides \subseteq Bookings
  /\ DOMAIN Replaces = Bookings
  /\ RateLimitPerDay \in Nat
  /\ Budget \in [Sorts -> Nat] /\ MaxFailures \in Nat
  /\ Together \subseteq SUBSET Agents

VARIABLES
  inbox,     \* where each mail file is: new/, .failed/ or removed
  queue,     \* files of this drain still to be processed
  plans,     \* plans stored by Commit
  cancelled, \* superseded parts stamped cancelled
  job,       \* what each agent is doing
  live,      \* whether its context is
  served,    \* requests answered or dropped
  audit,     \* email_ingests rows of the sender
  told,      \* history: bookings a reply has accounted for, by mail
  left       \* failures a run may still have

disk == <<inbox, queue>>
store == <<plans, cancelled, audit>>
vars == <<disk, store, told, job, live, served, left>>

IdleJob == [step |-> "idle", source |-> None, todo |-> << >>, copy |-> 0]

Init ==
  /\ inbox = [m \in Mails |-> "new"] /\ queue = {}
  /\ plans = {} /\ cancelled = {} /\ audit = 0
  /\ told = [m \in Mails |-> {}]
  /\ job = [a \in Agents |-> IdleJob]
  /\ live = [a \in Agents |-> TRUE]
  /\ served = {}
  /\ left = Budget

----------------------------------------------------------------------------
At(a, s) == job[a].step = s
GoTo(a, s) == job' = [job EXCEPT ![a].step = s]
MayStart(a) == {b \in Agents : ~At(b, "idle")} \cup {a} \in Together
Used(s) == Budget[s] - left[s]
Failures ==
  Used("fault") + Used("lost") + Used("move") + Used("cut") + Used("stop") + Used("crash")
Spend(s) == left[s] > 0 /\ Failures < MaxFailures /\ left' = [left EXCEPT ![s] = @ - 1]

\* A statement fails when its context is cancelled, or for its own reasons.
Fails(a) == (~live[a] /\ UNCHANGED left) \/ Spend("fault")
Works(a) == live[a] /\ UNCHANGED left
AnswerLost(a) == live[a] /\ Spend("lost")

Booking(a) == Head(job[a].todo)
CopiesOf(s, b) == {p \in plans : p.source = s /\ p.booking = b}
IsWith(p, a) ==
  job[a].copy # 0 /\ p.source = job[a].source /\ p.booking = Booking(a) /\ p.copy = job[a].copy
ItsPlan(a) == {p \in plans : IsWith(p, a)}
Stored(b) == \E p \in plans : p.booking = b

----------------------------------------------------------------------------
(* The Maildir loop *)

StartDrain ==
  /\ At(Ingest, "idle") /\ live[Ingest] /\ MayStart(Ingest)
  /\ queue' = {m \in Mails : inbox[m] = "new"} /\ queue' # {}
  /\ GoTo(Ingest, "next")
  /\ UNCHANGED <<inbox, store, told, live, served, left>>

NextFile(m) ==
  /\ At(Ingest, "next") /\ m \in queue
  /\ queue' = queue \ {m}
  /\ job' = [job EXCEPT ![Ingest] = [IdleJob EXCEPT !.step = "read", !.source = m]]
  /\ UNCHANGED <<inbox, store, told, live, served, left>>

EndDrain ==
  /\ At(Ingest, "next") /\ queue = {}
  /\ job' = [job EXCEPT ![Ingest] = IdleJob]
  /\ UNCHANGED <<disk, store, told, live, served, left>>

Mail == job[Ingest].source

\* outcomeTransient: the file stays for the next drain.
LeaveFile == job' = [job EXCEPT ![Ingest] = [IdleJob EXCEPT !.step = "next"]]

\* Unparseable, without a sender, unsigned, or from nobody we know: aside it
\* goes.  A known sender is counted first.
Admit ==
  /\ At(Ingest, "read")
  /\ IF Kind[Mail] = "stranger"
     THEN GoTo(Ingest, "poison") /\ UNCHANGED <<audit, left>>
     ELSE /\ Works(Ingest)
          /\ IF audit >= RateLimitPerDay
             THEN GoTo(Ingest, "poison") /\ audit' = audit + 1
             ELSE GoTo(Ingest, "extract") /\ UNCHANGED audit
  /\ UNCHANGED <<disk, plans, cancelled, told, live, served>>

AdmitFails ==
  /\ At(Ingest, "read") /\ Kind[Mail] # "stranger" /\ Fails(Ingest)
  /\ LeaveFile
  /\ UNCHANGED <<disk, store, told, live, served>>

\* Propose: the model is asked, whatever it then answers.
Extract ==
  /\ At(Ingest, "extract") /\ Kind[Mail] = "booking" /\ Works(Ingest)
  /\ job' = [job EXCEPT ![Ingest].step = "select", ![Ingest].todo = Found[Mail]]
  /\ UNCHANGED <<disk, store, told, live, served>>

ExtractFails ==
  /\ At(Ingest, "extract")
  /\ \/ Kind[Mail] = "garbled" /\ Works(Ingest)
     \/ Fails(Ingest)
  /\ LeaveFile
  /\ UNCHANGED <<disk, store, told, live, served>>

\* A slip: the panic takes the process down
PanicKills ==
  /\ At(Ingest, "extract") /\ Kind[Mail] = "panics" /\ Works(Ingest)
  /\ queue' = {} /\ job' = [a \in Agents |-> IdleJob]
  /\ UNCHANGED <<inbox, store, told, live, served>>

\* processOneSafely recovers.
Panic ==
  /\ At(Ingest, "extract") /\ Kind[Mail] = "panics" /\ Works(Ingest)
  /\ GoTo(Ingest, "poison")
  /\ UNCHANGED <<disk, store, told, live, served>>

SelectTripForBatch ==
  /\ At(Ingest, "select") /\ Works(Ingest)
  /\ GoTo(Ingest, "take")
  /\ UNCHANGED <<disk, store, told, live, served>>

\* A slip: without a trip the mail is dropped unanswered
SelectFailsSilently ==
  /\ At(Ingest, "select") /\ Fails(Ingest)
  /\ GoTo(Ingest, "remove")
  /\ UNCHANGED <<disk, store, told, live, served>>

\* Every booking is reported as failed.
SelectFails ==
  /\ At(Ingest, "select") /\ Fails(Ingest)
  /\ job' = [job EXCEPT ![Ingest].step = "log", ![Ingest].todo = << >>]
  /\ UNCHANGED <<disk, store, told, live, served>>

LogIngest ==
  /\ At(Ingest, "log")
  /\ \/ Works(Ingest) /\ audit' = audit + 1
     \/ Fails(Ingest) /\ UNCHANGED audit
  /\ GoTo(Ingest, "reply")
  /\ UNCHANGED <<disk, plans, cancelled, told, live, served>>

\* A slip: a mail whose reply fails is left for the next drain
ReplyOrRetry ==
  /\ At(Ingest, "reply")
  /\ \/ /\ Works(Ingest) /\ told' = [told EXCEPT ![Mail] = Range(Found[Mail])]
        /\ GoTo(Ingest, "remove")
     \/ Fails(Ingest) /\ LeaveFile /\ UNCHANGED told
  /\ UNCHANGED <<disk, store, live, served>>

\* The reply lists every booking as added or failed; a failed Send is not retried.
Reply ==
  /\ At(Ingest, "reply")
  /\ \/ Works(Ingest) /\ told' = [told EXCEPT ![Mail] = Range(Found[Mail])]
     \/ Fails(Ingest) /\ UNCHANGED told
  /\ GoTo(Ingest, "remove")
  /\ UNCHANGED <<disk, store, live, served>>

\* os.Remove and os.Rename; a failure is logged and the file stays.
MoveFile(s, to) ==
  /\ At(Ingest, s)
  /\ \/ inbox' = [inbox EXCEPT ![Mail] = to] /\ UNCHANGED left
     \/ Spend("move") /\ UNCHANGED inbox
  /\ LeaveFile
  /\ UNCHANGED <<queue, store, told, live, served>>
Remove == MoveFile("remove", "gone")
SetAside == MoveFile("poison", "failed")

----------------------------------------------------------------------------
(* Commit *)

Request(r) ==
  /\ r \notin served /\ At(r, "idle")
  /\ MayStart(r)
  /\ job' = [job EXCEPT ![r] =
       [IdleJob EXCEPT !.step = "take", !.source = r, !.todo = Found[r]]]
  /\ UNCHANGED <<disk, store, told, live, served, left>>

Answer(r) == job' = [job EXCEPT ![r] = IdleJob] /\ served' = served \cup {r}

Skip(a) == job' = [job EXCEPT ![a].step = "take", ![a].todo = Tail(@), ![a].copy = 0]

\* The loop reports the booking and goes on; a request answers with the error.
Refuse(a) == IF a = Ingest THEN Skip(a) /\ UNCHANGED served ELSE Answer(a)

Take(a) ==
  /\ At(a, "take")
  /\ IF job[a].todo # << >> THEN GoTo(a, "check") /\ UNCHANGED served
     ELSE IF a = Ingest THEN GoTo(a, "log") /\ UNCHANGED served
     ELSE Answer(a)
  /\ UNCHANGED <<disk, store, told, live, left>>

\* The superseded part and the passengers are looked up; an import asks
\* whether it has the event already.
Check(a) ==
  /\ At(a, "check") /\ Works(a)
  /\ IF a \in Imports /\ Stored(Booking(a)) THEN Skip(a) ELSE GoTo(a, "create")
  /\ UNCHANGED <<disk, store, told, live, served>>

CheckFails(a) ==
  /\ At(a, "check") /\ Fails(a)
  /\ Refuse(a)
  /\ UNCHANGED <<disk, store, told, live>>

\* plans_trip_tripit_uid_uidx
Duplicate(a) == a \in Imports /\ Stored(Booking(a))

NextCopy(a) == Cardinality(CopiesOf(job[a].source, Booking(a))) + 1
CreatePlan(a) ==
  plans' = plans \cup
    {[source |-> job[a].source, booking |-> Booking(a), copy |-> NextCopy(a),
      aboard |-> FALSE, hidden |-> FALSE]}

Create(a) ==
  /\ At(a, "create") /\ ~Duplicate(a) /\ Works(a)
  /\ CreatePlan(a)
  /\ job' = [job EXCEPT ![a].step = "aboard", ![a].copy = NextCopy(a)]
  /\ UNCHANGED <<disk, cancelled, audit, told, live, served>>

CreateFails(a) ==
  /\ At(a, "create")
  /\ \/ Duplicate(a) /\ Works(a) /\ UNCHANGED plans
     \/ Fails(a) /\ UNCHANGED plans
     \/ ~Duplicate(a) /\ AnswerLost(a) /\ CreatePlan(a)
  /\ Refuse(a)
  /\ UNCHANGED <<disk, cancelled, audit, told, live>>

\* commitPlanExtras: passengers, then privacy, then the supersession.
Extras == <<"aboard", "hide", "cancel">>
\* A slip: the old part is cancelled before the privacy is set
AfterCancelFirst(a, s) ==
  CASE s = "aboard" /\ Replaces[Booking(a)] # None -> "cancel"
    [] s # "hide" /\ Booking(a) \in Hides         -> "hide"
    [] OTHER                                      -> "done"

After(a, s) ==
  CASE s = "aboard" -> IF Booking(a) \in Hides THEN "hide"
                       ELSE IF Replaces[Booking(a)] # None THEN "cancel" ELSE "done"
    [] s = "hide"   -> IF Replaces[Booking(a)] # None THEN "cancel" ELSE "done"
    [] OTHER        -> "done"

Effect(a) ==
  /\ plans' = (plans \ ItsPlan(a)) \cup
       {[p EXCEPT !.aboard = @ \/ At(a, "aboard"), !.hidden = @ \/ At(a, "hide")] : p \in ItsPlan(a)}
  /\ cancelled' = IF At(a, "cancel") THEN cancelled \cup {Replaces[Booking(a)]} ELSE cancelled

Extra(a) ==
  /\ job[a].step \in Range(Extras) /\ Works(a)
  /\ Effect(a)
  /\ IF After(a, job[a].step) = "done" THEN Skip(a) ELSE GoTo(a, After(a, job[a].step))
  /\ UNCHANGED <<disk, audit, told, live, served>>

\* A slip: no compensating delete
ExtraFailsForGood(a) ==
  /\ job[a].step \in Range(Extras) /\ Fails(a)
  /\ Refuse(a)
  /\ UNCHANGED <<disk, store, told, live>>

ExtraFails(a) ==
  /\ job[a].step \in Range(Extras)
  /\ \/ Fails(a) /\ UNCHANGED <<plans, cancelled>>
     \/ AnswerLost(a) /\ Effect(a)
  /\ GoTo(a, "rollback")
  /\ UNCHANGED <<disk, audit, told, live, served>>

\* The compensating DeletePlan runs under the context that has just failed.
Rollback(a) ==
  /\ At(a, "rollback")
  /\ \/ (Works(a) \/ AnswerLost(a)) /\ plans' = plans \ ItsPlan(a)
     \/ Fails(a) /\ UNCHANGED plans
  /\ Refuse(a)
  /\ UNCHANGED <<disk, cancelled, audit, told, live>>

----------------------------------------------------------------------------
(* Cancelled contexts and the end of the process *)

\* A client goes away in the middle of its request.
Disconnect(r) ==
  /\ live[r] /\ ~At(r, "idle") /\ Spend("cut")
  /\ live' = [live EXCEPT ![r] = FALSE]
  /\ UNCHANGED <<disk, store, told, job, served>>

\* SIGTERM cancels the loop's context; the loop goes on until its drain ends,
\* or until the process is gone.
Shutdown ==
  /\ live[Ingest] /\ Spend("stop")
  /\ live' = [live EXCEPT ![Ingest] = FALSE]
  /\ UNCHANGED <<disk, store, told, job, served>>

Die ==
  /\ queue' = {}
  /\ served' = served \cup {r \in Requests : ~At(r, "idle")}
  /\ job' = [a \in Agents |-> IdleJob]
  /\ live' = [a \in Agents |-> TRUE]
  /\ UNCHANGED <<inbox, store, told>>
Exit == ~live[Ingest] /\ Die /\ UNCHANGED left
Crash == (\E a \in Agents : ~At(a, "idle")) /\ Spend("crash") /\ Die

CommitStep(a) ==
  \/ Take(a) \/ Check(a) \/ CheckFails(a) \/ Create(a) \/ CreateFails(a)
  \/ Extra(a) \/ ExtraFails(a) \/ Rollback(a)
LoopStep ==
  \/ StartDrain \/ EndDrain
  \/ \E m \in Mails : NextFile(m)
  \/ Admit \/ AdmitFails \/ Extract \/ ExtractFails \/ Panic
  \/ SelectTripForBatch \/ SelectFails \/ LogIngest \/ Reply \/ Remove \/ SetAside
  \/ CommitStep(Ingest)

Next ==
  \/ LoopStep
  \/ \E r \in Requests : Request(r) \/ CommitStep(r) \/ Disconnect(r)
  \/ Shutdown \/ Exit \/ Crash

Spec == Init /\ [][Next]_vars

\* The ticker keeps firing, a statement returns, and a stopped server is
\* started again.
FairSpec ==
  /\ Spec /\ WF_vars(LoopStep) /\ WF_vars(Exit)
  /\ \A r \in Requests : WF_vars(CommitStep(r))

----------------------------------------------------------------------------
(* Properties *)

Half(p) == ~p.aboard \/ (p.booking \in Hides /\ ~p.hidden)
AtRest(p) == \A a \in Agents : ~IsWith(p, a)

\* No single failed statement leaves a plan behind without its passengers or
\* its privacy: that takes a second failure, in the clean-up, or a context
\* that takes both down, a lost answer or a crash (commit.go:200-207, "so each
\* plan commits all-or-nothing").
HalfPlanNeedsMoreThanAFault ==
  (\E p \in plans : Half(p) /\ AtRest(p)) =>
    Used("fault") >= 2 \/ Used("lost") + Used("cut") + Used("stop") + Used("crash") > 0

\* A superseded flight is cancelled only while its replacement is stored,
\* unless the answer to a statement was lost (commit.go:205-207, "never leaves
\* the old part cancelled without its replacement").
CancelledIsReplaced ==
  Used("lost") = 0 =>
    \A o \in cancelled : \E p \in plans : Replaces[p.booking] = o

Copies(s, b) == Cardinality(CopiesOf(s, b))

\* A mail's booking is stored twice only after the process died or the file
\* could not be moved, one copy for each; no failed statement, audit row or
\* reply repeats it.  Two imports of one calendar never store an event twice.
CopiesHaveACause ==
  /\ \A m \in Mails : \A b \in Range(Found[m]) :
       Copies(m, b) <= 1 + Used("move") + Used("crash") + Used("stop")
  /\ \A p, q \in plans :
       p.source \in Imports /\ q.source \in Imports /\ p.booking = q.booking => p = q

\* A booking of a mail that is gone is stored or accounted for in a reply,
\* unless two statements failed or the server was being stopped
\* (ingest.go:372, "commit failures yield a reply failure").
NothingVanishes ==
  Used("fault") + Used("lost") < 2 /\ Used("stop") = 0 =>
    \A m \in Mails : inbox[m] = "gone" =>
      \A b \in Range(Found[m]) : Copies(m, b) > 0 \/ b \in told[m]

\* Every mail the model can read leaves new/ in the end, whatever else is in
\* there: one the model answers with rubbish and one that panics starve nobody
\* (ingest.go:112-138).
MailSettles ==
  \A m \in Mails : Kind[m] # "garbled" => <>(inbox[m] # "new")
=============================================================================
