---------------------------- MODULE Feeds_proofs ----------------------------
(***************************************************************************)
(* Proofs about Feeds, for every set of feeds, sources, zones, versions    *)
(* and requests, and any number of changes and failures.                   *)
(***************************************************************************)
EXTENDS Feeds, TLAPS

Working == {"fetch", "replace", "mark"}

\* A job whose fields agree with how far it has got: what was fetched comes
\* from the row that was loaded.
Held(x) ==
  /\ x.step \in Working => x.feed \in Feeds /\ x.row \in Row
  /\ x.step = "load" => x.feed \in Feeds /\ x.row = None
  /\ x.step \in {"load", "fetch"} => x.got = None
  /\ x.step = "idle" => x.feed = None /\ x.row = None
  /\ x.step = "replace" => x.got \in Cache
  /\ x.step \in Working /\ x.got # None =>
       x.got.tag[1] = x.row.url /\ x.got.zone = x.row.zone
Job ==
  {x \in [step : {"idle", "load", "fetch", "replace", "mark"},
          feed : Feeds \cup {None}, row : Row \cup {None},
          got : Cache \cup {None}, alone : BOOLEAN] : Held(x)}
Due == [feed : Feeds, row : Row, alone : BOOLEAN]

JobInv == job \in [Agents -> Job]

\* Whoever works alone on a feed holds the row as it stands, nobody else has
\* one, and what it has stored is still there when it stamps.
WorksOn(a, f) == job[a].step \in Working /\ job[a].feed = f
Alike(a) ==
  LET f == job[a].feed IN
  /\ \A b \in Agents : b # a => ~WorksOn(b, f)
  /\ \A w \in backlog : w.feed # f
  /\ Exists(f) => job[a].row = row[f]
  /\ Exists(f) /\ job[a].step = "mark" /\ job[a].got # None => events[f] = job[a].got
WaitsAlike(w) ==
  /\ \A b \in Agents : ~WorksOn(b, w.feed)
  /\ \A v \in backlog : v.feed = w.feed => v = w
  /\ Exists(w.feed) => w.row = row[w.feed]
AloneInv ==
  /\ \A a \in Agents : job[a].step \in Working /\ job[a].alone => Alike(a)
  /\ \A w \in backlog : w.alone => WaitsAlike(w)

LEMMA FirstJob == IdleJob \in Job
  BY DEF IdleJob, Job, Held, Working

LEMMA JobFields ==
  ASSUME NEW x \in Job
  PROVE  /\ x.feed \in Feeds \cup {None} /\ x.row \in Row \cup {None} /\ x.alone \in BOOLEAN
         /\ x.got \in Cache \cup {None}
         /\ x.step \in {"idle", "load", "fetch", "replace", "mark"} /\ Held(x)
         /\ [x EXCEPT !.alone = FALSE] \in Job
  BY DEF Job, Held, Working

LEMMA OneJob ==
  ASSUME NEW j \in [Agents -> Job], NEW a \in Agents, NEW x \in Job
  PROVE  [j EXCEPT ![a] = x] \in [Agents -> Job]
  OBVIOUS

LEMMA DisturbType ==
  ASSUME JobInv, NEW f
  PROVE  Disturb(job, f) \in [Agents -> Job]
<1>1. \A a \in Agents : [job[a] EXCEPT !.alone = FALSE] \in Job /\ job[a] \in Job
  BY JobFields DEF JobInv
<1> QED
  BY <1>1 DEF Disturb

LEMMA OvertakeType ==
  ASSUME backlog \subseteq Due, NEW f
  PROVE  Overtake(f) \subseteq Due
  BY DEF Overtake, Due

\* Every step leaves the jobs well formed.
LEMMA JobsStay == TypeOK /\ JobInv /\ [Next]_vars => JobInv'
<1> SUFFICES ASSUME TypeOK, JobInv, [Next]_vars PROVE JobInv'
  OBVIOUS
<1>t. /\ backlog \subseteq Due /\ Sweep \in Agents /\ Requests \subseteq Agents
      /\ row \in [Feeds -> Row \cup {None}]
      /\ \A c \in Choices : Registered(c) \in Row
  BY FeedsAssumption DEF TypeOK, Due, Agents, Registered, Row
<1>j. \A a \in Agents : /\ job[a] \in Job /\ job[a].alone \in BOOLEAN /\ Held(job[a])
                        /\ job[a].feed \in Feeds \cup {None} /\ job[a].row \in Row \cup {None}
                        /\ job[a].got \in Cache \cup {None}
                        /\ [job[a] EXCEPT !.alone = FALSE] \in Job
  BY JobFields DEF JobInv
<1>0. ASSUME NEW a \in Agents, NEW x \in Job, job' = [job EXCEPT ![a] = x] PROVE JobInv'
  BY <1>0, OneJob DEF JobInv
<1>i. ASSUME NEW a \in Agents, Done(a) PROVE JobInv'
  BY <1>i, <1>0, FirstJob DEF Done
<1>1. CASE UNCHANGED vars
  BY <1>1 DEF vars, table, world, JobInv
<1>2. ASSUME NEW due \in SUBSET Feeds, StartSweep(due) PROVE JobInv'
  BY <1>2, <1>j DEF StartSweep, JobInv
<1>3. ASSUME NEW b \in backlog, NextDue(b) PROVE JobInv'
  <2>1. [step |-> "fetch", feed |-> b.feed, row |-> b.row, got |-> None, alone |-> b.alone] \in Job
    BY <1>t DEF Job, Held, Working, Due
  <2> QED
    BY <2>1, <1>3, <1>0, <1>t DEF NextDue
<1>4. ASSUME NEW r \in Requests, NEW f \in Feeds, NEW c \in Choices,
             AddTripFeed(r, f, c) \/ UpdateTripFeed(r, f, c)
      PROVE  JobInv'
  <2>1. Reload(r, f) \in Job
    BY DEF Reload, IdleJob, Job, Held, Working
  <2> QED
    BY <2>1, <1>4, <1>t, OneJob, DisturbType DEF AddTripFeed, UpdateTripFeed, JobInv
<1>5. ASSUME NEW r \in Requests, NEW f \in Feeds, DeleteTripFeed(r, f) PROVE JobInv'
  BY <1>5 DEF DeleteTripFeed, JobInv
<1>6. ASSUME NEW r \in Requests, Load(r) PROVE JobInv'
  <2> DEFINE f == job[r].feed
             x == [Disturb(job, f)[r] EXCEPT !.step = "fetch", !.row = row[f], !.alone = Alone(f)]
  <2>1. Disturb(job, f) \in [Agents -> Job] /\ Disturb(job, f)[r] \in Job
    BY DisturbType, <1>t
  <2>2. f \in Feeds /\ row[f] \in Row
    BY <1>6, <1>j, <1>t DEF Load, At, Held, Exists
  <2>5. Disturb(job, f)[r] = job[r] \/ Disturb(job, f)[r] = [job[r] EXCEPT !.alone = FALSE]
    BY <1>t DEF Disturb
  <2>6. Disturb(job, f)[r].feed = f /\ Disturb(job, f)[r].got = job[r].got
    BY <2>5, <1>j, <1>t DEF Job
  <2>3. job[r].got = None
    BY <1>6, <1>j, <1>t DEF Load, At, Held
  <2>4. x \in Job
    BY <2>1, <2>2, <2>3, <2>6 DEF Job, Held, Working, Alone
  <2> QED
    BY <2>1, <2>4, <1>6, <1>t, OneJob DEF Load, JobInv
<1>7. ASSUME NEW a \in Agents, Fetch(a) PROVE JobInv'
  <2>1. /\ Tag(job[a].row.url) \in Tags /\ Tag(job[a].row.url)[1] = job[a].row.url
        /\ job[a].row.zone \in Zones /\ job[a].row \in Row /\ job[a].feed \in Feeds
    BY <1>7, <1>j DEF Fetch, At, Held, Working, Tag, Tags, Row, TypeOK
  <2>2. [tag |-> Tag(job[a].row.url), zone |-> job[a].row.zone] \in Cache
    BY <2>1 DEF Cache
  <2>3. CASE Unmodified(a)
    <3>1. [job[a] EXCEPT !.step = "mark", !.got = None] \in Job
      BY <2>1, <1>j DEF Job, Held, Working
    <3>2. job' = [job EXCEPT ![a] = [job[a] EXCEPT !.step = "mark", !.got = None]]
      BY <2>3, <1>7 DEF Fetch, JobInv
    <3> QED
      BY <3>1, <3>2, <1>0
  <2>4. CASE ~Unmodified(a)
    <3>1. [job[a] EXCEPT !.step = "replace",
                         !.got = [tag |-> Tag(job[a].row.url), zone |-> job[a].row.zone]] \in Job
      BY <2>1, <2>2, <1>j DEF Job, Held, Working
    <3> QED
      BY <3>1, <2>4, <1>7, <1>0 DEF Fetch
  <2> QED
    BY <2>3, <2>4
<1>8. ASSUME NEW a \in Agents, FetchFails(a) PROVE JobInv'
  <2>1. [job[a] EXCEPT !.step = "mark"] \in Job
    BY <1>8, <1>j DEF FetchFails, At, Job, Held, Working
  <2> QED
    BY <2>1, <1>8, <1>0 DEF FetchFails
<1>9. ASSUME NEW a \in Agents, Replace(a) PROVE JobInv'
  <2>1. [job[a] EXCEPT !.step = "mark"] \in Job
    BY <1>9, <1>j DEF Replace, At, Job, Held, Working
  <2> QED
    BY <2>1, <1>9, <1>0 DEF Replace
<1>10. ASSUME NEW a \in Agents, ReplaceFails(a) \/ Mark(a) \/ MarkFails(a) PROVE JobInv'
  BY <1>10, <1>i DEF ReplaceFails, Mark, MarkFails
<1>11. ASSUME NEW r \in Requests, LoadFails(r) PROVE JobInv'
  BY <1>11, <1>i, <1>t DEF LoadFails
<1>12. ASSUME NEW u \in Urls, Change(u) PROVE JobInv'
  BY <1>12 DEF Change, JobInv
<1>13. CASE Crash
  BY <1>13, FirstJob DEF Crash, JobInv
<1> QED
  BY <1>1, <1>2, <1>3, <1>4, <1>5, <1>6, <1>7, <1>8, <1>9, <1>10, <1>11, <1>12, <1>13, <1>t
     DEF Next, SweepStep, Refresh

\* What TypeOK says beside the jobs.
RestOK ==
  /\ serves \in [Urls -> Versions]
  /\ row \in [Feeds -> Row \cup {None}]
  /\ events \in [Feeds -> Cache \cup {None}]
  /\ backlog \subseteq Due
  /\ served \subseteq Requests /\ torn \subseteq Feeds
  /\ changes \in 0 .. MaxChanges /\ failures \in 0 .. MaxFailures

LEMMA TypeSplits == JobInv => (TypeOK <=> RestOK)
  BY DEF JobInv, Job, TypeOK, RestOK, Due

\* A validator stored is a tag, whoever stores it.
LEMMA ValidatorType ==
  ASSUME JobInv, NEW a \in Agents, job[a].step = "mark"
  PROVE  Validator(a) \in Tags \cup {None}
  BY JobFields DEF JobInv, Validator, Held, Working, Row, Cache

LEMMA RestStays == RestOK /\ JobInv /\ [Next]_vars => RestOK'
<1> SUFFICES ASSUME RestOK, JobInv, [Next]_vars PROVE RestOK'
  OBVIOUS
<1>t. /\ Sweep \in Agents /\ Requests \subseteq Agents /\ MaxChanges \in Nat /\ MaxFailures \in Nat
      /\ \A c \in Choices : Registered(c) \in Row /\ c[1] \in Urls /\ c[2] \in Zones
      /\ backlog \subseteq Due
  BY FeedsAssumption DEF Agents, Registered, Row, RestOK
<1>j. \A a \in Agents : /\ job[a] \in Job /\ Held(job[a])
                        /\ job[a].feed \in Feeds \cup {None}
                        /\ job[a].alone \in BOOLEAN
  BY JobFields DEF JobInv
<1>f. Fault => (failures' \in 0 .. MaxFailures /\ changes' \in 0 .. MaxChanges)
  BY <1>t DEF Fault, RestOK
<1>d. ASSUME NEW a \in Agents, Done(a) PROVE served' \subseteq Requests
  BY <1>d DEF Done, RestOK, Agents
<1>1. CASE UNCHANGED vars
  BY <1>1 DEF vars, table, world, RestOK
<1>2. ASSUME NEW due \in SUBSET Feeds, StartSweep(due) PROVE RestOK'
  <2>1. \A f \in due : row[f] \in Row /\ f \in Feeds
    BY <1>2 DEF StartSweep, RestOK, Exists
  <2>2. \A f \in due : Alone(f) \in BOOLEAN
    BY DEF Alone
  <2>3. backlog' \subseteq Due
    BY <2>1, <2>2, <1>2 DEF StartSweep, Due
  <2> QED
    BY <2>3, <1>2 DEF StartSweep, RestOK, table, world
<1>3. ASSUME NEW b \in backlog, NextDue(b) PROVE RestOK'
  BY <1>3 DEF NextDue, RestOK, table, world
<1>4. ASSUME NEW r \in Requests, NEW f \in Feeds, NEW c \in Choices,
             AddTripFeed(r, f, c) \/ UpdateTripFeed(r, f, c)
      PROVE  RestOK'
  <2>1. Overtake(f) \subseteq Due
    BY OvertakeType, <1>t
  <2>2. row' \in [Feeds -> Row \cup {None}]
    BY <1>4, <1>t DEF AddTripFeed, UpdateTripFeed, RestOK
  <2> QED
    BY <2>1, <2>2, <1>4, <1>t DEF AddTripFeed, UpdateTripFeed, RestOK, world
<1>5. ASSUME NEW r \in Requests, NEW f \in Feeds, DeleteTripFeed(r, f) PROVE RestOK'
  BY <1>5 DEF DeleteTripFeed, RestOK, world
<1>6. ASSUME NEW r \in Requests, Load(r) PROVE RestOK'
  <2>1. Overtake(job[r].feed) \subseteq Due
    BY OvertakeType, <1>t
  <2> QED
    BY <2>1, <1>6 DEF Load, RestOK, world, table
<1>7. ASSUME NEW a \in Agents, Fetch(a) PROVE RestOK'
  BY <1>7 DEF Fetch, RestOK, world, table
<1>8. ASSUME NEW a \in Agents, FetchFails(a) PROVE RestOK'
  BY <1>8, <1>f DEF FetchFails, RestOK, table
<1>9. ASSUME NEW a \in Agents, Replace(a) PROVE RestOK'
  <2>1. job[a].feed \in Feeds /\ job[a].got \in Cache
    BY <1>9, <1>j DEF Replace, At, Held, Working
  <2> QED
    BY <2>1, <1>9 DEF Replace, RestOK, world
<1>10. ASSUME NEW a \in Agents, ReplaceFails(a) PROVE RestOK'
  BY <1>10, <1>f, <1>d DEF ReplaceFails, RestOK, table, world
<1>11. ASSUME NEW a \in Agents, MarkFails(a) PROVE RestOK'
  BY <1>11, <1>f, <1>d DEF MarkFails, RestOK, table, world
<1>12. ASSUME NEW a \in Agents, Mark(a) PROVE RestOK'
  <2>1. job[a].feed \in Feeds /\ Validator(a) \in Tags \cup {None}
    BY <1>12, <1>j, ValidatorType DEF Mark, At, Held, Working
  <2>2. row' \in [Feeds -> Row \cup {None}]
    <3>1. CASE Exists(job[a].feed)
      <4>1. row[job[a].feed] \in Row
        BY <2>1, <3>1 DEF Exists, RestOK
      <4>2. [row[job[a].feed] EXCEPT !.etag = Validator(a)] \in Row
        BY <4>1, <2>1 DEF Row
      <4> QED
        BY <4>2, <3>1, <2>1, <1>12 DEF Mark, RestOK
    <3>2. CASE ~Exists(job[a].feed)
      BY <3>2, <1>12 DEF Mark, RestOK
    <3> QED
      BY <3>1, <3>2
  <2>3. torn' \subseteq Feeds
    BY <2>1, <1>12 DEF Mark, RestOK
  <2> QED
    BY <2>2, <2>3, <1>12, <1>d DEF Mark, RestOK, world
<1>13. ASSUME NEW r \in Requests, LoadFails(r) PROVE RestOK'
  BY <1>13, <1>f, <1>d, <1>t DEF LoadFails, RestOK, table, world
<1>14. ASSUME NEW u \in Urls, Change(u) PROVE RestOK'
  BY <1>14, <1>t DEF Change, RestOK, table
<1>15. CASE Crash
  BY <1>15, <1>f DEF Crash, RestOK, table
<1> QED
  BY <1>1, <1>2, <1>3, <1>4, <1>5, <1>6, <1>7, <1>8, <1>9, <1>10, <1>11, <1>12, <1>13, <1>14, <1>15, <1>t
     DEF Next, SweepStep, Refresh

\* Agents hold a row exactly while they work on a feed.
LEMMA HoldersWork ==
  ASSUME JobInv, NEW f \in Feeds
  PROVE  Holding(f) = {a \in Agents : WorksOn(a, f)}
<1>1. ASSUME NEW a \in Agents
      PROVE  (job[a].feed = f /\ job[a].row # None) <=> WorksOn(a, f)
  <2>1. job[a] \in Job
    BY DEF JobInv
  <2>2. None \notin Row /\ f # None
    BY FeedsAssumption
  <2> QED
    BY <2>1, <2>2, JobFields DEF Held, Working, WorksOn
<1> QED
  BY <1>1 DEF Holding

LEMMA Inits == Init => RestOK /\ JobInv /\ AloneInv /\ ValidatorsTrue
<1> SUFFICES ASSUME Init PROVE RestOK /\ JobInv /\ AloneInv /\ ValidatorsTrue
  OBVIOUS
<1>1. JobInv
  BY FirstJob DEF Init, JobInv
<1>2. RestOK
  BY FeedsAssumption DEF Init, RestOK
<1>3. AloneInv
  BY DEF Init, AloneInv, IdleJob, Working
<1>4. ValidatorsTrue
  BY DEF Init, ValidatorsTrue, Exists
<1> QED
  BY <1>1, <1>2, <1>3, <1>4

\* A step that ends jobs, or that carries one on from the row it holds, and
\* leaves the tables and the backlog alone, leaves nobody less alone.
LEMMA StillAlone ==
  ASSUME AloneInv, UNCHANGED table, backlog' \subseteq backlog,
         \A a \in Agents :
           \/ job'[a].step \notin Working
           \/ /\ job[a].step \in Working /\ job'[a].feed = job[a].feed
              /\ job'[a].row = job[a].row /\ job'[a].alone = job[a].alone
              /\ \/ job'[a].step = job[a].step /\ job'[a].got = job[a].got
                 \/ job'[a].step # "mark" \/ job'[a].got = None
  PROVE  AloneInv'
<1>1. \A b \in Agents : \A f : WorksOn(b, f)' => WorksOn(b, f)
  BY DEF WorksOn
<1>2. ASSUME NEW a \in Agents, job'[a].step \in Working, job'[a].alone PROVE Alike(a)'
  <2>1. Alike(a)
    BY <1>2 DEF AloneInv
  <2> QED
    BY <2>1, <1>1, <1>2 DEF Alike, Exists, table
<1>3. ASSUME NEW w \in backlog', w.alone PROVE WaitsAlike(w)'
  <2>1. WaitsAlike(w)
    BY <1>3 DEF AloneInv
  <2> QED
    BY <2>1, <1>1 DEF WaitsAlike, Exists, table
<1> QED
  BY <1>2, <1>3 DEF AloneInv

LEMMA AloneStays == RestOK /\ JobInv /\ AloneInv /\ [Next]_vars => AloneInv'
<1> SUFFICES ASSUME RestOK, JobInv, AloneInv, [Next]_vars PROVE AloneInv'
  OBVIOUS
<1>t. Sweep \in Agents /\ Requests \subseteq Agents /\ Sweep \notin Requests /\ backlog \subseteq Due
      /\ None \notin Row /\ None \notin Feeds
  BY FeedsAssumption DEF Agents, RestOK
<1>j. \A a \in Agents : /\ job[a] \in Job /\ Held(job[a])
                        /\ job[a].feed \in Feeds \cup {None}
                        /\ job[a].alone \in BOOLEAN
  BY JobFields DEF JobInv
<1>d. ASSUME NEW a \in Agents, Done(a), UNCHANGED <<table, backlog>> PROVE AloneInv'
  <2>1. \A b \in Agents : job'[b] = IF b = a THEN IdleJob ELSE job[b]
    BY <1>d DEF Done, JobInv
  <2>2. IdleJob.step \notin Working
    BY DEF IdleJob, Working
  <2> QED
    BY <2>1, <2>2, <1>d, StillAlone
<1>1. CASE UNCHANGED vars
  BY <1>1, StillAlone DEF vars, table
<1>2. ASSUME NEW due \in SUBSET Feeds, StartSweep(due) PROVE AloneInv'
  <2>1. \A b \in Agents : /\ job'[b].step = job[b].step /\ job'[b].feed = job[b].feed
                          /\ job'[b].row = job[b].row /\ job'[b].got = job[b].got
                          /\ job'[b].alone => job[b].alone /\ job[b].feed \notin due
    BY <1>2, <1>j DEF StartSweep, Job
  <2>2. \A b \in Agents : \A f : WorksOn(b, f)' <=> WorksOn(b, f)
    BY <2>1 DEF WorksOn
  <2>3. ASSUME NEW w \in backlog'
        PROVE  w.feed \in due /\ w = [feed |-> w.feed, row |-> row[w.feed], alone |-> Alone(w.feed)]
    BY <1>2 DEF StartSweep
  <2>4. ASSUME NEW a \in Agents, job'[a].step \in Working, job'[a].alone PROVE Alike(a)'
    <3>1. Alike(a)
      BY <2>1, <2>4 DEF AloneInv
    <3>2. \A w \in backlog' : w.feed # job'[a].feed
      BY <2>1, <2>3, <2>4
    <3> QED
      BY <3>1, <3>2, <2>1, <2>2, <1>2 DEF Alike, Exists, table, StartSweep
  <2>5. ASSUME NEW w \in backlog', w.alone PROVE WaitsAlike(w)'
    <3>1. w.feed \in Feeds /\ w.row = row[w.feed] /\ Alone(w.feed)
      BY <2>3, <2>5
    <3>2. \A b \in Agents : ~WorksOn(b, w.feed)'
      BY <3>1, <2>2, HoldersWork DEF Alone
    <3>3. \A v \in backlog' : v.feed = w.feed => v = w
      BY <2>3
    <3> QED
      BY <3>1, <3>2, <3>3, <1>2 DEF WaitsAlike, Exists, table, StartSweep
  <2> QED
    BY <2>4, <2>5 DEF AloneInv
<1>3. ASSUME NEW w \in backlog, NextDue(w) PROVE AloneInv'
  <2>1. /\ w \in Due /\ backlog' = backlog \ {w} /\ UNCHANGED table
        /\ \A b \in Agents : job'[b] =
             IF b = Sweep THEN [step |-> "fetch", feed |-> w.feed, row |-> w.row, got |-> None, alone |-> w.alone]
             ELSE job[b]
    BY <1>3, <1>t DEF NextDue, JobInv
  <2>2. /\ job'[Sweep].step = "fetch" /\ job'[Sweep].feed = w.feed /\ job'[Sweep].row = w.row
        /\ job'[Sweep].alone = w.alone
    BY <2>1, <1>t
  <2>3. \A b \in Agents : \A f : WorksOn(b, f)' => WorksOn(b, f) \/ (b = Sweep /\ f = w.feed)
    BY <2>1, <2>2 DEF WorksOn
  <2>4. w.alone => WaitsAlike(w)
    BY DEF AloneInv
  <2>5. ASSUME NEW a \in Agents, job'[a].step \in Working, job'[a].alone PROVE Alike(a)'
    <3>1. CASE a = Sweep
      BY <3>1, <2>1, <2>2, <2>3, <2>4, <2>5 DEF Alike, WaitsAlike, WorksOn, Exists, table
    <3>2. CASE a # Sweep
      <4>1. job'[a] = job[a] /\ Alike(a)
        BY <3>2, <2>1, <2>5 DEF AloneInv
      <4>2. \A b \in Agents : b # a => ~WorksOn(b, job[a].feed)'
        BY <4>1, <2>3 DEF Alike
      <4> QED
        BY <4>1, <4>2, <2>1 DEF Alike, Exists, table
    <3> QED
      BY <3>1, <3>2
  <2>6. ASSUME NEW v \in backlog', v.alone PROVE WaitsAlike(v)'
    <3>1. WaitsAlike(v) /\ v # w /\ v \in backlog
      BY <2>1, <2>6 DEF AloneInv
    <3>2. v.feed # w.feed
      BY <3>1 DEF WaitsAlike
    <3> QED
      BY <3>1, <3>2, <2>1, <2>3 DEF WaitsAlike, Exists, table
  <2> QED
    BY <2>5, <2>6 DEF AloneInv
<1>4. ASSUME NEW f \in Feeds, NEW r \in Agents, \A g \in Feeds \ {f} : row'[g] = row[g],
             UNCHANGED events,
             backlog' = Overtake(f), r \in Agents,
             \A b \in Agents : b # r => job'[b] = Disturb(job, f)[b],
             \/ job'[r].step \notin Working
             \/ /\ job'[r].step = "fetch" /\ job'[r].feed = f /\ job'[r].row = row[f]
                /\ row'[f] = row[f] /\ job'[r].alone = Alone(f) /\ job[r].step \notin Working
      PROVE  AloneInv'
  <2>1. \A b \in Agents : b # r =>
          /\ job'[b].step = job[b].step /\ job'[b].feed = job[b].feed
          /\ job'[b].row = job[b].row /\ job'[b].got = job[b].got
          /\ job'[b].alone => job[b].alone
          /\ job'[b].alone => ~WorksOn(b, f)
    <3>1. \A b \in Agents : b # r => job'[b] = IF b \in Holding(f) THEN [job[b] EXCEPT !.alone = FALSE] ELSE job[b]
      BY <1>4 DEF Disturb
    <3>2. \A b \in Agents : b \in Holding(f) <=> WorksOn(b, f)
      BY HoldersWork
    <3>3. \A b \in Agents : LET x == [job[b] EXCEPT !.alone = FALSE] IN
            /\ x.step = job[b].step /\ x.feed = job[b].feed /\ x.row = job[b].row
            /\ x.got = job[b].got /\ x.alone = FALSE
      BY <1>j DEF Job
    <3> QED
      BY <3>1, <3>2, <3>3
  <2>2. ASSUME NEW b \in Agents, NEW g, WorksOn(b, g)' PROVE WorksOn(b, g) \/ (b = r /\ g = f)
    <3>1. CASE b = r
      BY <2>2, <3>1, <1>4 DEF WorksOn
    <3>2. CASE b # r
      BY <2>2, <3>2, <2>1 DEF WorksOn
    <3> QED
      BY <3>1, <3>2
  <2>3. \A w \in backlog' : w.feed # f => w \in backlog
    BY <1>4, <1>t DEF Overtake, Due
  <2>4. \A w \in backlog' : w.alone => w.feed # f
    BY <1>4, <1>t DEF Overtake, Due
  <2>5. \A w \in backlog' : \E v \in backlog : v.feed = w.feed
    BY <1>4, <1>t DEF Overtake, Due
  <2>6. ASSUME NEW a \in Agents, job'[a].step \in Working, job'[a].alone PROVE Alike(a)'
    <3>1. CASE a = r
      <4>1. Alone(f) /\ job'[r].feed = f /\ job'[r].row = row[f] /\ row'[f] = row[f] /\ job'[r].step = "fetch"
        BY <3>1, <2>6, <1>4
      <4>2. \A b \in Agents : b # r => ~WorksOn(b, f)'
        BY <4>1, <2>2, HoldersWork DEF Alone
      <4>3. \A w \in backlog' : w.feed # f
        BY <4>1, <2>5 DEF Alone, Waiting
      <4> QED
        BY <4>1, <4>2, <4>3, <3>1 DEF Alike, Exists
    <3>2. CASE a # r
      <4>0. job[a].step \in Working /\ job[a].alone /\ ~WorksOn(a, f)
        BY <3>2, <2>1, <2>6
      <4>1. Alike(a) /\ job[a].feed # f /\ job[a].feed \in Feeds
        BY <4>0, <1>j DEF AloneInv, WorksOn, Held
      <4>4. /\ job'[a].step = job[a].step /\ job'[a].feed = job[a].feed
            /\ job'[a].row = job[a].row /\ job'[a].got = job[a].got
        BY <3>2, <2>1
      <4>2. \A b \in Agents : b # a => ~WorksOn(b, job[a].feed)'
        BY <4>1, <4>4, <2>2 DEF Alike
      <4>3. \A w \in backlog' : w.feed # job[a].feed
        BY <4>1, <2>5 DEF Alike
      <4> QED
        BY <4>1, <4>2, <4>3, <4>4, <1>4 DEF Alike, Exists
    <3> QED
      BY <3>1, <3>2
  <2>7. ASSUME NEW w \in backlog', w.alone PROVE WaitsAlike(w)'
    <3>1. w \in backlog /\ WaitsAlike(w) /\ w.feed # f /\ w.feed \in Feeds
      BY <2>3, <2>4, <2>7, <1>t DEF AloneInv, Due
    <3>2. \A b \in Agents : ~WorksOn(b, w.feed)'
      BY <3>1, <2>2 DEF WaitsAlike
    <3>3. \A v \in backlog' : v.feed = w.feed => v = w
      BY <3>1, <2>3 DEF WaitsAlike
    <3> QED
      BY <3>1, <3>2, <3>3, <1>4 DEF WaitsAlike, Exists
  <2> QED
    BY <2>6, <2>7 DEF AloneInv
<1>5. ASSUME NEW r \in Requests, NEW f \in Feeds, NEW c \in Choices, AddTripFeed(r, f, c) PROVE AloneInv'
  <2>1. \A b \in Agents : job'[b] = IF b = r THEN Reload(r, f) ELSE job[b]
    BY <1>5, <1>t DEF AddTripFeed, JobInv
  <2>2. \A g \in Feeds : g # f => row'[g] = row[g]
    BY <1>5 DEF AddTripFeed, RestOK
  <2>3. Reload(r, f).step = "load"
    BY DEF Reload, IdleJob
  <2>4. \A b \in Agents : Disturb(job, f)[b] = job[b]
    BY <1>5 DEF AddTripFeed, Disturb
  <2>5. Overtake(f) = backlog
    BY <1>5 DEF AddTripFeed, Overtake, Waiting
  <2>6. UNCHANGED <<events, backlog>>
    BY <1>5 DEF AddTripFeed
  <2> QED
    BY <2>1, <2>2, <2>3, <2>4, <2>5, <2>6, <1>4, <1>t DEF Working
<1>6. ASSUME NEW r \in Requests, NEW f \in Feeds, NEW c \in Choices, UpdateTripFeed(r, f, c) PROVE AloneInv'
  <2>1. \A b \in Agents : job'[b] = IF b = r THEN Reload(r, f) ELSE Disturb(job, f)[b]
    BY <1>6, <1>t DEF UpdateTripFeed, Disturb
  <2>2. \A g \in Feeds : g # f => row'[g] = row[g]
    BY <1>6 DEF UpdateTripFeed, RestOK
  <2>3. Reload(r, f).step = "load"
    BY DEF Reload, IdleJob
  <2>4. backlog' = Overtake(f) /\ UNCHANGED events
    BY <1>6 DEF UpdateTripFeed
  <2> QED
    BY <2>1, <2>2, <2>3, <2>4, <1>4, <1>t DEF Working
<1>7. ASSUME NEW r \in Requests, Load(r) PROVE AloneInv'
  <2> DEFINE f == job[r].feed
  <2>1. f \in Feeds /\ r \in Agents /\ job[r].step = "load" /\ job[r] \in Job /\ job[r].row = None
    BY <1>7, <1>j, <1>t DEF Load, At, Held
  <2>2. \A b \in Agents : b # r => job'[b] = Disturb(job, f)[b]
    BY <1>7, <2>1 DEF Load, Disturb
  <2>3. r \notin Holding(f)
    BY <2>1 DEF Holding
  <2>4. job'[r] = [job[r] EXCEPT !.step = "fetch", !.row = row[f], !.alone = Alone(f)]
    BY <1>7, <2>1, <2>3 DEF Load, Disturb
  <2>5. job'[r].step = "fetch" /\ job'[r].feed = f /\ job'[r].row = row[f] /\ job'[r].alone = Alone(f)
    BY <2>1, <2>4 DEF Job
  <2>6. backlog' = Overtake(f) /\ UNCHANGED <<row, events>>
    BY <1>7 DEF Load, table
  <2> QED
    BY <2>1, <2>2, <2>5, <2>6, <1>4 DEF Working
<1>8. ASSUME NEW r \in Requests, NEW f \in Feeds, DeleteTripFeed(r, f) PROVE AloneInv'
  <2>1. /\ UNCHANGED <<job, backlog>> /\ ~Exists(f)'
        /\ \A g \in Feeds : g # f => row'[g] = row[g] /\ events'[g] = events[g]
    BY <1>8 DEF DeleteTripFeed, RestOK, Exists
  <2>2. \A b \in Agents : \A g : WorksOn(b, g)' <=> WorksOn(b, g)
    BY <2>1 DEF WorksOn
  <2>3. ASSUME NEW a \in Agents, job[a].step \in Working, job[a].alone PROVE Alike(a)'
    <3>1. Alike(a) /\ job[a].feed \in Feeds
      BY <2>3, <1>j DEF AloneInv, Held
    <3> QED
      BY <3>1, <2>1, <2>2 DEF Alike, Exists
  <2>4. ASSUME NEW w \in backlog, w.alone PROVE WaitsAlike(w)'
    <3>1. WaitsAlike(w) /\ w.feed \in Feeds
      BY <2>4, <1>t DEF AloneInv, Due
    <3> QED
      BY <3>1, <2>1, <2>2 DEF WaitsAlike, Exists
  <2> QED
    BY <2>1, <2>3, <2>4 DEF AloneInv
<1>9. ASSUME NEW a \in Agents, Fetch(a) \/ FetchFails(a) PROVE AloneInv'
  <2>1. \A b \in Agents : b # a => job'[b] = job[b]
    BY <1>9 DEF Fetch, FetchFails, JobInv
  <2>2. /\ job[a].step = "fetch" /\ job[a].got = None /\ job'[a].feed = job[a].feed
        /\ job'[a].row = job[a].row /\ job'[a].alone = job[a].alone
        /\ job'[a].step # "mark" \/ job'[a].got = None
    <3>1. job[a].step = "fetch" /\ job[a].got = None
      BY <1>9, <1>j DEF Fetch, FetchFails, At, Held
    <3>2. CASE Fetch(a) /\ Unmodified(a)
      BY <3>1, <3>2, <1>j DEF Fetch, JobInv, Job
    <3>3. CASE Fetch(a) /\ ~Unmodified(a)
      BY <3>1, <3>3, <1>j DEF Fetch, JobInv, Job
    <3>4. CASE FetchFails(a)
      BY <3>1, <3>4, <1>j DEF FetchFails, JobInv, Job
    <3> QED
      BY <3>1, <3>2, <3>3, <3>4, <1>9
  <2>3. UNCHANGED <<table, backlog>>
    BY <1>9 DEF Fetch, FetchFails
  <2> QED
    BY <2>1, <2>2, <2>3, StillAlone DEF Working
<1>10. ASSUME NEW a \in Agents, Replace(a) PROVE AloneInv'
  <2> DEFINE f == job[a].feed
  <2>1. f \in Feeds /\ job[a].step = "replace" /\ WorksOn(a, f)
    BY <1>10, <1>j DEF Replace, At, Held, Working, WorksOn
  <2>2. /\ \A b \in Agents : b # a => job'[b] = job[b]
        /\ job'[a].step = "mark" /\ job'[a].feed = f /\ job'[a].row = job[a].row
        /\ job'[a].got = job[a].got /\ job'[a].alone = job[a].alone
    BY <1>10, <1>j DEF Replace, JobInv, Job
  <2>3. /\ UNCHANGED <<row, backlog>> /\ events'[f] = job[a].got
        /\ \A g \in Feeds : g # f => events'[g] = events[g]
    BY <1>10, <2>1 DEF Replace, RestOK
  <2>4. \A b \in Agents : \A g : WorksOn(b, g)' => WorksOn(b, g)
    <3>1. \A g : WorksOn(a, g)' => g = f
      BY <2>2 DEF WorksOn
    <3>2. \A b \in Agents : \A g : b # a /\ WorksOn(b, g)' => WorksOn(b, g)
      BY <2>2 DEF WorksOn
    <3> QED
      BY <3>1, <3>2, <2>1
  <2>5. ASSUME NEW b \in Agents, job'[b].step \in Working, job'[b].alone PROVE Alike(b)'
    <3>1. CASE b = a
      <4>1. Alike(a)
        BY <2>5, <3>1, <2>1, <2>2 DEF AloneInv, WorksOn
      <4> QED
        BY <4>1, <3>1, <2>2, <2>3, <2>4 DEF Alike, Exists
    <3>2. CASE b # a
      <4>1. Alike(b) /\ job'[b] = job[b] /\ job[b].feed \in Feeds
        BY <2>5, <3>2, <2>2, <1>j DEF AloneInv, Held
      <4>2. job[b].feed # f
        BY <4>1, <3>2, <2>1 DEF Alike
      <4> QED
        BY <4>1, <4>2, <2>3, <2>4 DEF Alike, Exists
    <3> QED
      BY <3>1, <3>2
  <2>6. ASSUME NEW w \in backlog, w.alone PROVE WaitsAlike(w)'
    BY <2>6, <2>3, <2>4 DEF AloneInv, WaitsAlike, Exists
  <2> QED
    BY <2>3, <2>5, <2>6 DEF AloneInv
<1>11. ASSUME NEW a \in Agents, ReplaceFails(a) \/ MarkFails(a) PROVE AloneInv'
  BY <1>11, <1>d DEF ReplaceFails, MarkFails
<1>12. ASSUME NEW r \in Requests, LoadFails(r) PROVE AloneInv'
  BY <1>12, <1>d, <1>t DEF LoadFails
<1>13. ASSUME NEW a \in Agents, Mark(a) PROVE AloneInv'
  <2> DEFINE f == job[a].feed
  <2>1. f \in Feeds /\ WorksOn(a, f)
    BY <1>13, <1>j DEF Mark, At, Held, Working, WorksOn
  <2>2. \A b \in Agents : job'[b] = IF b = a THEN IdleJob ELSE job[b]
    BY <1>13 DEF Mark, Done, JobInv
  <2>3. /\ UNCHANGED <<events, backlog>>
        /\ \A g \in Feeds : g # f => row'[g] = row[g]
    BY <1>13 DEF Mark, RestOK
  <2>4. /\ job'[a].step \notin Working
        /\ \A b \in Agents : \A g : WorksOn(b, g)' => WorksOn(b, g)
    BY <2>2 DEF IdleJob, Working, WorksOn
  <2>5. ASSUME NEW b \in Agents, job'[b].step \in Working, job'[b].alone PROVE Alike(b)'
    <3>1. b # a /\ job'[b] = job[b] /\ Alike(b) /\ job[b].feed \in Feeds
      BY <2>5, <2>2, <2>4, <1>j DEF AloneInv, Held
    <3>2. job[b].feed # f
      BY <3>1, <2>1 DEF Alike
    <3> QED
      BY <3>1, <3>2, <2>3, <2>4 DEF Alike, Exists
  <2>6. ASSUME NEW w \in backlog, w.alone PROVE WaitsAlike(w)'
    <3>1. WaitsAlike(w) /\ w.feed \in Feeds
      BY <2>6, <1>t DEF AloneInv, Due
    <3>2. w.feed # f
      BY <3>1, <2>1 DEF WaitsAlike
    <3> QED
      BY <3>1, <3>2, <2>3, <2>4 DEF WaitsAlike, Exists
  <2> QED
    BY <2>3, <2>5, <2>6 DEF AloneInv
<1>14. ASSUME NEW u \in Urls, Change(u) PROVE AloneInv'
  BY <1>14, StillAlone DEF Change
<1>15. CASE Crash
  BY <1>15 DEF Crash, AloneInv, IdleJob, Working
<1> QED
  BY <1>1, <1>2, <1>3, <1>5, <1>6, <1>7, <1>8, <1>9, <1>10, <1>11, <1>12, <1>13, <1>14, <1>15, <1>t
     DEF Next, SweepStep, Refresh

\* Only a stamp can make a validator lie, and a stamp by someone working alone
\* describes what was stored.
LEMMA TrueStays == RestOK /\ JobInv /\ AloneInv /\ ValidatorsTrue /\ [Next]_vars => ValidatorsTrue'
<1> SUFFICES ASSUME RestOK, JobInv, AloneInv, ValidatorsTrue, [Next]_vars PROVE ValidatorsTrue'
  OBVIOUS
<1>j. \A a \in Agents : /\ job[a] \in Job /\ Held(job[a])
                        /\ job[a].alone \in BOOLEAN
  BY JobFields DEF JobInv
<1>u. ASSUME UNCHANGED <<table, torn>> PROVE ValidatorsTrue'
  BY <1>u DEF ValidatorsTrue, Exists, table
<1>1. CASE UNCHANGED vars
  BY <1>1, <1>u DEF vars, table
<1>2. CASE SweepStep /\ ~Refresh(Sweep)
  BY <1>2, <1>u DEF SweepStep, StartSweep, NextDue
<1>3. ASSUME NEW r \in Requests, NEW f \in Feeds, NEW c \in Choices,
             AddTripFeed(r, f, c) \/ UpdateTripFeed(r, f, c)
      PROVE  ValidatorsTrue'
  <2>1. /\ UNCHANGED <<events, torn>> /\ row'[f].etag = None
        /\ \A g \in Feeds : g # f => row'[g] = row[g]
    BY <1>3 DEF AddTripFeed, UpdateTripFeed, Registered, RestOK
  <2> QED
    BY <2>1 DEF ValidatorsTrue, Exists
<1>4. ASSUME NEW r \in Requests, NEW f \in Feeds, DeleteTripFeed(r, f) PROVE ValidatorsTrue'
  <2>1. /\ torn' = torn \ {f} /\ ~Exists(f)'
        /\ \A g \in Feeds : g # f => row'[g] = row[g] /\ events'[g] = events[g]
    BY <1>4 DEF DeleteTripFeed, Exists, RestOK
  <2> QED
    BY <2>1 DEF ValidatorsTrue, Exists
<1>5. ASSUME NEW r \in Requests, Load(r) \/ LoadFails(r) PROVE ValidatorsTrue'
  BY <1>5, <1>u DEF Load, LoadFails
<1>6. ASSUME NEW a \in Agents, Fetch(a) \/ FetchFails(a) \/ ReplaceFails(a) \/ MarkFails(a)
      PROVE  ValidatorsTrue'
  BY <1>6, <1>u DEF Fetch, FetchFails, ReplaceFails, MarkFails
<1>7. ASSUME NEW a \in Agents, Replace(a) PROVE ValidatorsTrue'
  <2> DEFINE f == job[a].feed
  <2>1. /\ torn' = torn \cup {f} /\ row' = row
        /\ \A g \in Feeds : g # f => events'[g] = events[g]
    BY <1>7 DEF Replace, RestOK
  <2> QED
    BY <2>1 DEF ValidatorsTrue, Exists
<1>8. ASSUME NEW a \in Agents, NEW f \in Feeds, job[a].feed = f, Mark(a) PROVE ValidatorsTrue'
  <2>1. /\ f \in Feeds /\ job[a].step = "mark" /\ job[a].step \in Working /\ job[a].row \in Row
        /\ job[a].got # None => job[a].got.tag[1] = job[a].row.url /\ job[a].got.zone = job[a].row.zone
    BY <1>8, <1>j DEF Mark, At, Held, Working
  <2>2. \A g \in Feeds : g # f => row'[g] = row[g] /\ events'[g] = events[g] /\ (g \in torn' <=> g \in torn)
    <3>1. \A g \in Feeds : g # f => row'[g] = row[g] /\ events'[g] = events[g]
      BY <1>8 DEF Mark, RestOK
    <3>2. torn' \in {torn, torn \cup {f}, torn \ {f}}
      BY <1>8 DEF Mark
    <3> QED
      BY <3>1, <3>2
  <2>3. ASSUME f \notin torn', Exists(f)'
        PROVE  row'[f].etag # None =>
                 /\ row'[f].etag[1] = row'[f].url
                 /\ events'[f] = [tag |-> row'[f].etag, zone |-> row'[f].zone]
    <3>1. Exists(f)
      BY <2>3, <1>8 DEF Mark, Exists
    <3>2. job[a].alone
      <4>1. CASE ~job[a].alone
        <5>1. torn' = torn \cup {f}
          BY <4>1, <3>1, <1>8 DEF Mark
        <5> QED
          BY <5>1, <2>3
      <4> QED
        BY <4>1
    <3>3. job[a].row = row[f] /\ (job[a].got # None => events[f] = job[a].got)
      BY <1>8, <3>1, <3>2, <2>1 DEF AloneInv, Alike
    <3>4. row[f] \in Row /\ events' = events /\ row'[f] = [row[f] EXCEPT !.etag = Validator(a)]
      BY <3>1, <2>1, <1>8 DEF Mark, RestOK, Exists
    <3>5. row'[f].url = row[f].url /\ row'[f].zone = row[f].zone /\ row'[f].etag = Validator(a)
      BY <3>4 DEF Row
    <3>6. CASE job[a].got = None
      <4>1. row'[f].etag = row[f].etag
        BY <3>3, <3>5, <3>6 DEF Validator
      <4>2. f \notin torn
        BY <2>3, <3>1, <3>2, <3>6, <1>8 DEF Mark
      <4> QED
        BY <4>1, <4>2, <3>1, <3>4, <3>5, <2>1 DEF ValidatorsTrue
    <3>7. CASE job[a].got # None
      <4>1. row'[f].etag = job[a].got.tag /\ job[a].got \in Cache
        BY <3>5, <3>7, <1>j DEF Validator, Job
      <4>2. job[a].got = [tag |-> job[a].got.tag, zone |-> job[a].got.zone]
        BY <4>1 DEF Cache
      <4> QED
        BY <4>1, <4>2, <3>3, <3>4, <3>5, <3>7, <2>1
    <3> QED
      BY <3>6, <3>7
  <2>4. ASSUME NEW g \in Feeds, g \notin torn', Exists(g)', row'[g].etag # None
        PROVE  /\ row'[g].etag[1] = row'[g].url
               /\ events'[g] = [tag |-> row'[g].etag, zone |-> row'[g].zone]
    <3>1. CASE g = f
      BY <3>1, <2>3, <2>4
    <3>2. CASE g # f
      BY <3>2, <2>2, <2>4 DEF ValidatorsTrue, Exists
    <3> QED
      BY <3>1, <3>2
  <2> QED
    BY <2>4 DEF ValidatorsTrue
<1>9. ASSUME NEW u \in Urls, Change(u) PROVE ValidatorsTrue'
  BY <1>9, <1>u DEF Change
<1>10. CASE Crash
  BY <1>10, <1>u DEF Crash
<1>f. \A a \in Agents : Mark(a) => job[a].feed \in Feeds
  BY <1>j DEF Mark, At, Held, Working
<1>s. Sweep \in Agents /\ Requests \subseteq Agents
  BY DEF Agents
<1> QED
  BY <1>1, <1>2, <1>3, <1>4, <1>5, <1>6, <1>7, <1>8, <1>9, <1>10, <1>f, <1>s DEF Next, SweepStep, Refresh

LEMMA Invariants == Spec => [](RestOK /\ JobInv /\ AloneInv /\ ValidatorsTrue)
<1>1. RestOK /\ JobInv /\ AloneInv /\ ValidatorsTrue /\ [Next]_vars
        => (RestOK /\ JobInv /\ AloneInv /\ ValidatorsTrue)'
  BY JobsStay, RestStays, AloneStays, TrueStays, TypeSplits
<1> QED
  BY Inits, <1>1, PTL DEF Spec

\* Whatever the sweep, the requests, the sources and the failures do, every
\* value keeps its type.
THEOREM TypeCorrect == Spec => []TypeOK
<1>1. RestOK /\ JobInv => TypeOK
  BY TypeSplits
<1> QED
  BY <1>1, Invariants, PTL

\* The validators stored for a feed describe the events stored for it, as long
\* as its refreshes neither overlapped nor were torn: for any number of feeds,
\* requests, changes and failures.
THEOREM ValidatorsAlwaysTrue == Spec => []ValidatorsTrue
  BY Invariants, PTL
=============================================================================
