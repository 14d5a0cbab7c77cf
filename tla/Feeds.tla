------------------------------- MODULE Feeds -------------------------------
(***************************************************************************)
(* Trip calendar feeds (internal/feeds/service.go, store/trip_feeds.go,    *)
(* handlers_feeds.go).  The poller sweeps the feeds that are due, and a    *)
(* request that adds or edits a feed refreshes it at once.  A refresh works *)
(* on the row as it was loaded: it fetches with that row's URL, zone and   *)
(* validators, replaces the cached events in one transaction, and stamps   *)
(* the validators in another statement.                                    *)
(*                                                                         *)
(* A source is a server outside: it serves one version of its calendar at  *)
(* a time, under a validator (ETag, Last-Modified) that names the version, *)
(* may change it or change it back, and may fail to answer.                *)
(***************************************************************************)
EXTENDS Naturals, FiniteSets

CONSTANTS
  None,
  Feeds, Urls, Zones, Versions,
  Choices,        \* the pairs of URL and zone that editors choose from
  AtFirst,        \* the version each source serves at first
  Sweep,          \* the poller's sweep
  Requests,       \* requests that add or edit a feed, each sent once
  MaxChanges, MaxFailures  \* bounds of a run

Agents == {Sweep} \cup Requests

Tags == Urls \X Versions
Row == [url : Urls, zone : Zones, etag : Tags \cup {None}]
\* Events as parsed: of which version, and shown in which zone.
Cache == [tag : Tags, zone : Zones]

ASSUME FeedsAssumption ==
  /\ Sweep \notin Requests
  /\ None \notin Feeds \cup Tags \cup Row \cup Cache
  /\ Choices \subseteq Urls \X Zones /\ AtFirst \in [Urls -> Versions]
  /\ {MaxChanges, MaxFailures} \subseteq Nat

VARIABLES
  serves,   \* the version each source serves
  row,      \* trip_feeds
  events,   \* trip_feed_events of each feed
  backlog,  \* rows the sweep has loaded and not refreshed yet
  job,      \* what each agent is doing
  served,   \* requests done
  torn,     \* history: feeds whose validators may not describe the events
  changes, failures  \* how many there have been

table == <<row, events>>
world == <<changes, failures>>
vars == <<serves, table, backlog, job, served, torn, world>>

IdleJob == [step |-> "idle", feed |-> None, row |-> None, got |-> None, alone |-> TRUE]

Init ==
  /\ serves = AtFirst
  /\ row = [f \in Feeds |-> None] /\ events = [f \in Feeds |-> None]
  /\ backlog = {} /\ job = [a \in Agents |-> IdleJob]
  /\ served = {} /\ torn = {}
  /\ changes = 0 /\ failures = 0

At(a, s) == job[a].step = s
Fault == failures < MaxFailures /\ failures' = failures + 1 /\ UNCHANGED changes
Exists(f) == row[f] # None
Tag(u) == <<u, serves[u]>>

\* Who works on feed f from a row already loaded.
Holding(f) == {a \in Agents : job[a].feed = f /\ job[a].row # None}
Waiting(f) == {b \in backlog : b.feed = f}

\* History: whoever holds a row of f no longer works alone.
Disturb(j, f) == [a \in Agents |-> IF a \in Holding(f) THEN [j[a] EXCEPT !.alone = FALSE] ELSE j[a]]
Overtake(f) == {IF b.feed = f THEN [b EXCEPT !.alone = FALSE] ELSE b : b \in backlog}
Alone(f) == Holding(f) = {} /\ Waiting(f) = {}

----------------------------------------------------------------------------
(* Loading *)

\* FeedsDueForRefresh: whichever feeds are due by now are loaded at once.
StartSweep(due) ==
  /\ At(Sweep, "idle") /\ backlog = {}
  /\ due \subseteq {f \in Feeds : Exists(f)} /\ due # {}
  /\ backlog' = {[feed |-> f, row |-> row[f], alone |-> Alone(f)] : f \in due}
  /\ job' = [a \in Agents |->
       IF job[a].feed \in due THEN [job[a] EXCEPT !.alone = FALSE] ELSE job[a]]
  /\ UNCHANGED <<serves, table, served, torn, world>>

NextDue(b) ==
  /\ At(Sweep, "idle") /\ b \in backlog
  /\ backlog' = backlog \ {b}
  /\ job' = [job EXCEPT ![Sweep] =
       [step |-> "fetch", feed |-> b.feed, row |-> b.row, got |-> None, alone |-> b.alone]]
  /\ UNCHANGED <<serves, table, served, torn, world>>

\* The row as written by AddTripFeed and UpdateTripFeed: no validators.
Registered(c) == [url |-> c[1], zone |-> c[2], etag |-> None]

Reload(r, f) == [IdleJob EXCEPT !.step = "load", !.feed = f]

\* An id is not used twice.
AddTripFeed(r, f, c) ==
  /\ r \notin served /\ At(r, "idle") /\ ~Exists(f) /\ Holding(f) = {} /\ Waiting(f) = {}
  /\ row' = [row EXCEPT ![f] = Registered(c)]
  /\ job' = [job EXCEPT ![r] = Reload(r, f)]
  /\ UNCHANGED <<serves, events, backlog, served, torn, world>>

\* A slip: the validators survive the edit
UpdateKeepingValidators(r, f, c) ==
  /\ r \notin served /\ At(r, "idle") /\ Exists(f)
  /\ row' = [row EXCEPT ![f].url = c[1], ![f].zone = c[2]]
  /\ job' = [Disturb(job, f) EXCEPT ![r] = Reload(r, f)]
  /\ backlog' = Overtake(f)
  /\ UNCHANGED <<serves, events, served, torn, world>>

UpdateTripFeed(r, f, c) ==
  /\ r \notin served /\ At(r, "idle") /\ Exists(f)
  /\ row' = [row EXCEPT ![f] = Registered(c)]
  /\ job' = [Disturb(job, f) EXCEPT ![r] = Reload(r, f)]
  /\ backlog' = Overtake(f)
  /\ UNCHANGED <<serves, events, served, torn, world>>

\* The events cascade away with the row.
DeleteTripFeed(r, f) ==
  /\ r \notin served /\ At(r, "idle") /\ Exists(f)
  /\ row' = [row EXCEPT ![f] = None] /\ events' = [events EXCEPT ![f] = None]
  /\ torn' = torn \ {f} /\ served' = served \cup {r}
  /\ UNCHANGED <<serves, backlog, job, world>>

Done(a) ==
  /\ job' = [job EXCEPT ![a] = IdleJob]
  /\ served' = IF a = Sweep THEN served ELSE served \cup {a}

\* refreshFeedNow: TripFeedByID, on a context of its own.
Load(r) ==
  /\ At(r, "load") /\ Exists(job[r].feed)
  /\ LET f == job[r].feed IN
     /\ job' = [Disturb(job, f) EXCEPT ![r] =
          [@ EXCEPT !.step = "fetch", !.row = row[f], !.alone = Alone(f)]]
     /\ backlog' = Overtake(f)
  /\ UNCHANGED <<serves, table, served, torn, world>>

LoadFails(r) ==
  /\ At(r, "load")
  /\ (~Exists(job[r].feed) /\ UNCHANGED world) \/ Fault
  /\ Done(r)
  /\ UNCHANGED <<serves, table, backlog, torn>>

----------------------------------------------------------------------------
(* RefreshFeed *)

Unmodified(a) == job[a].row.etag = Tag(job[a].row.url)

\* A conditional GET with the loaded validators; 304 leaves nothing to replace.
Fetch(a) ==
  /\ At(a, "fetch")
  /\ job' = [job EXCEPT
       ![a].step = IF Unmodified(a) THEN "mark" ELSE "replace",
       ![a].got  = IF Unmodified(a) THEN None
                   ELSE [tag |-> Tag(job[a].row.url), zone |-> job[a].row.zone]]
  /\ UNCHANGED <<serves, table, backlog, served, torn, world>>

\* Not an answer, not 200, or not a calendar: only the error is recorded.
FetchFails(a) ==
  /\ At(a, "fetch") /\ Fault
  /\ job' = [job EXCEPT ![a].step = "mark"]
  /\ UNCHANGED <<serves, table, backlog, served, torn>>

\* A feed deleted meanwhile has nothing to hang the events on.
Replace(a) ==
  /\ At(a, "replace") /\ Exists(job[a].feed)
  /\ events' = [events EXCEPT ![job[a].feed] = job[a].got]
  /\ torn' = torn \cup {job[a].feed}
  /\ job' = [job EXCEPT ![a].step = "mark"]
  /\ UNCHANGED <<serves, row, backlog, served, world>>

\* A slip: the failure is ignored and the new validators are stamped
ReplaceFailsMarked(a) ==
  /\ At(a, "replace") /\ Fault
  /\ job' = [job EXCEPT ![a].step = "mark"]
  /\ UNCHANGED <<serves, table, backlog, served, torn>>

ReplaceFails(a) ==
  /\ At(a, "replace")
  /\ (~Exists(job[a].feed) /\ UNCHANGED world) \/ Fault
  /\ Done(a)
  /\ UNCHANGED <<serves, table, backlog, torn>>

\* MarkFeedFetched: an update by id, which may match no row any more.
Validator(a) == IF job[a].got = None THEN job[a].row.etag ELSE job[a].got.tag
Mark(a) ==
  /\ At(a, "mark")
  /\ LET f == job[a].feed IN
     /\ row' = IF Exists(f) THEN [row EXCEPT ![f].etag = Validator(a)] ELSE row
     /\ torn' = IF ~Exists(f) THEN torn
                ELSE IF ~job[a].alone THEN torn \cup {f}
                ELSE IF job[a].got # None THEN torn \ {f} ELSE torn
  /\ Done(a)
  /\ UNCHANGED <<serves, events, backlog, world>>

MarkFails(a) ==
  /\ At(a, "mark") /\ Fault
  /\ Done(a)
  /\ UNCHANGED <<serves, table, backlog, torn>>

Refresh(a) ==
  \/ Fetch(a) \/ FetchFails(a) \/ Replace(a) \/ ReplaceFails(a) \/ Mark(a) \/ MarkFails(a)

----------------------------------------------------------------------------
(* The world *)

Change(u) ==
  /\ changes < MaxChanges /\ changes' = changes + 1
  /\ \E v \in Versions \ {serves[u]} : serves' = [serves EXCEPT ![u] = v]
  /\ UNCHANGED <<table, backlog, job, served, torn, failures>>

Crash ==
  /\ Fault
  /\ backlog' = {}
  /\ job' = [a \in Agents |-> IdleJob]
  /\ served' = served \cup {r \in Requests : ~At(r, "idle")}
  /\ UNCHANGED <<serves, table, torn>>

SweepStep ==
  (\E due \in SUBSET Feeds : StartSweep(due)) \/ (\E b \in backlog : NextDue(b)) \/ Refresh(Sweep)
Next ==
  \/ SweepStep
  \/ \E r \in Requests :
       \/ \E f \in Feeds, c \in Choices :
            AddTripFeed(r, f, c) \/ UpdateTripFeed(r, f, c)
       \/ \E f \in Feeds : DeleteTripFeed(r, f)
       \/ Load(r) \/ LoadFails(r) \/ Refresh(r)
  \/ \E u \in Urls : Change(u)
  \/ Crash

Spec == Init /\ [][Next]_vars

\* The ticker fires, every feed falls due again, and every statement and fetch has a deadline.
FairSpec ==
  /\ Spec /\ WF_vars(SweepStep)
  /\ \A f \in Feeds : SF_vars(\E due \in SUBSET Feeds : f \in due /\ StartSweep(due))
  /\ \A r \in Requests : WF_vars(Load(r) \/ LoadFails(r) \/ Refresh(r))

----------------------------------------------------------------------------
(* Properties *)

TypeOK ==
  /\ serves \in [Urls -> Versions]
  /\ row \in [Feeds -> Row \cup {None}]
  /\ events \in [Feeds -> Cache \cup {None}]
  /\ backlog \subseteq [feed : Feeds, row : Row, alone : BOOLEAN]
  /\ job \in [Agents -> [step : {"idle", "load", "fetch", "replace", "mark"},
                         feed : Feeds \cup {None}, row : Row \cup {None},
                         got : Cache \cup {None}, alone : BOOLEAN]]
  /\ served \subseteq Requests /\ torn \subseteq Feeds
  /\ changes \in 0 .. MaxChanges /\ failures \in 0 .. MaxFailures

\* A feed whose refreshes overlapped neither an edit nor each other, and were
\* not cut off between the events and the stamp, has validators that describe
\* the events it shows: those of its URL, in its zone.  A 304 then really means
\* that nothing is to be done.
ValidatorsTrue ==
  \A f \in Feeds \ torn :
    Exists(f) /\ row[f].etag # None =>
      /\ row[f].etag[1] = row[f].url
      /\ events[f] = [tag |-> row[f].etag, zone |-> row[f].zone]

\* Such a feed catches up: through failures, crashes and edits, once its source
\* stands still it shows what the source serves, in the zone chosen last.
Current(f) == Exists(f) => events[f] = [tag |-> Tag(row[f].url), zone |-> row[f].zone]
FeedCatchesUp == \A f \in Feeds : <>[](f \notin torn) => <>[]Current(f)
=============================================================================
