---------------------------- MODULE Attachments ----------------------------
(***************************************************************************)
(* Files attached to plans (internal/handlers/handlers_attachments.go,     *)
(* handlers_plans.go, store/attachments.go, internal/attachments).  The    *)
(* bytes are blobs in an object store, the metadata rows in the database   *)
(* with the plan; no transaction spans the two.                            *)
(*                                                                         *)
(* A call fails for its own reasons, or succeeds and loses its answer; a   *)
(* client that goes away cancels its request's context, under which every  *)
(* later call may fail (the file store does not look at the context); the  *)
(* process may die.                                                        *)
(***************************************************************************)
EXTENDS Naturals, FiniteSets

CONSTANTS
  None,
  Plans, Keys, Requests,
  MaxFailures      \* bound of a run

ASSUME AttachmentsAssumption ==
  None \notin Plans \cup Keys \cup Requests /\ MaxFailures \in Nat

VARIABLES
  plans,     \* plans there are, all of one trip
  row,       \* the plan each key's row belongs to, None if it has no row
  blobs,     \* keys with bytes behind them
  issued,    \* keys handed out by newKey
  job,       \* what each request is doing
  live,      \* whether its context is
  served,    \* requests answered
  strays,    \* history: keys whose row went with a plan and in no list
  failures,
  lost       \* inserts whose answer was lost

db == <<plans, row>>
world == <<failures, lost>>
vars == <<db, blobs, issued, job, live, served, strays, world>>

IdleJob == [step |-> "idle", plan |-> None, keys |-> {}]

Init ==
  /\ plans = Plans /\ row = [k \in Keys |-> None]
  /\ blobs = {} /\ issued = {}
  /\ job = [r \in Requests |-> IdleJob] /\ live = [r \in Requests |-> TRUE]
  /\ served = {} /\ strays = {}
  /\ failures = 0 /\ lost = 0

At(r, s) == job[r].step = s
RowsOf(p) == {k \in Keys : row[k] = p}
Fresh(r) == r \notin served /\ At(r, "idle")
Start(r, s, p, ks) == job' = [job EXCEPT ![r] = [step |-> s, plan |-> p, keys |-> ks]]
GoTo(r, s) == job' = [job EXCEPT ![r].step = s] /\ UNCHANGED served
Answer(r) == job' = [job EXCEPT ![r] = IdleJob] /\ served' = served \cup {r}

Fault == failures < MaxFailures /\ failures' = failures + 1
Fails(r) == (~live[r] /\ UNCHANGED world) \/ (Fault /\ UNCHANGED lost)
Works(r) == live[r] /\ UNCHANGED world
AnswerLost(r) == live[r] /\ Fault /\ UNCHANGED lost
\* A call to the blob store may go through although the context is cancelled.
Stores == UNCHANGED world

----------------------------------------------------------------------------
(* uploadAttachment *)

Upload(r, p) ==
  /\ Fresh(r) /\ p \in plans
  /\ Start(r, "put", p, {})
  /\ UNCHANGED <<db, blobs, issued, live, served, strays, world>>

Put(r, k) ==
  /\ At(r, "put") /\ Stores /\ k \notin issued
  /\ issued' = issued \cup {k} /\ blobs' = blobs \cup {k}
  /\ job' = [job EXCEPT ![r].step = "insert", ![r].keys = {k}]
  /\ UNCHANGED <<db, live, served, strays>>

\* Nobody learns the key of bytes stored by a call that failed.
PutFails(r) ==
  /\ At(r, "put")
  /\ \/ Fails(r) /\ UNCHANGED <<blobs, issued>>
     \/ /\ AnswerLost(r)
        /\ \E k \in Keys \ issued : issued' = issued \cup {k} /\ blobs' = blobs \cup {k}
  /\ Answer(r)
  /\ UNCHANGED <<db, live, strays>>

\* One key is in hand.
InHand(r, k) == k \in job[r].keys
Hang(k, p) == row' = [row EXCEPT ![k] = p]

Insert(r, k) ==
  /\ At(r, "insert") /\ InHand(r, k) /\ job[r].plan \in plans /\ Works(r)
  /\ Hang(k, job[r].plan)
  /\ Answer(r)
  /\ UNCHANGED <<plans, blobs, issued, live, strays>>

\* A slip: a plan deleted meanwhile is taken for an answer
InsertFailsDropped(r, k) ==
  /\ At(r, "insert") /\ InHand(r, k) /\ job[r].plan \notin plans /\ Works(r)
  /\ Answer(r)
  /\ UNCHANGED <<db, blobs, issued, live, strays>>

\* The insert went through, and the request is told that it failed.
RowUnseen(r) == live[r] /\ Fault /\ lost' = lost + 1

\* The plan is gone (its foreign key), or the statement failed: clean up.
InsertFails(r, k) ==
  /\ At(r, "insert") /\ InHand(r, k)
  /\ \/ job[r].plan \notin plans /\ Works(r) /\ UNCHANGED row
     \/ Fails(r) /\ UNCHANGED row
     \/ job[r].plan \in plans /\ RowUnseen(r) /\ Hang(k, job[r].plan)
  /\ GoTo(r, "cleanup")
  /\ UNCHANGED <<plans, blobs, issued, live, strays>>

----------------------------------------------------------------------------
(* Blobs go one at a time, and a failure is only logged: the clean-up of an *)
(* upload, the blob of a deleted attachment, and those of a deleted plan.  *)

RemoveBlob(r, k) ==
  /\ At(r, "cleanup") /\ InHand(r, k)
  /\ \/ Stores /\ blobs' = blobs \ {k}
     \/ Fails(r) /\ UNCHANGED blobs
     \/ AnswerLost(r) /\ blobs' = blobs \ {k}
  /\ job' = [job EXCEPT ![r].keys = @ \ {k}]
  /\ UNCHANGED <<db, issued, live, served, strays>>

Cleaned(r) ==
  /\ At(r, "cleanup") /\ job[r].keys = {}
  /\ Answer(r)
  /\ UNCHANGED <<db, blobs, issued, live, strays, world>>

----------------------------------------------------------------------------
(* deleteAttachment: the row first, then the bytes *)

\* A slip: the bytes first, as the comment on the handler has it
DeleteBlobFirst(r, k) ==
  /\ Fresh(r) /\ row[k] # None
  /\ blobs' = blobs \ {k}
  /\ Start(r, "unhang", row[k], {k})
  /\ UNCHANGED <<db, issued, live, served, strays, world>>

DeleteAttachment(r, k) ==
  /\ Fresh(r) /\ row[k] # None
  /\ Start(r, "unhang", row[k], {k})
  /\ UNCHANGED <<db, blobs, issued, live, served, strays, world>>

Unhang(r, k) ==
  /\ At(r, "unhang") /\ InHand(r, k) /\ row[k] # None /\ Works(r)
  /\ Hang(k, None)
  /\ GoTo(r, "cleanup")
  /\ UNCHANGED <<plans, blobs, issued, live, strays>>

UnhangFails(r, k) ==
  /\ At(r, "unhang") /\ InHand(r, k)
  /\ \/ row[k] = None /\ Works(r) /\ UNCHANGED row
     \/ Fails(r) /\ UNCHANGED row
     \/ row[k] # None /\ AnswerLost(r) /\ Hang(k, None)
  /\ Answer(r)
  /\ UNCHANGED <<plans, blobs, issued, live, strays>>

----------------------------------------------------------------------------
(* Plans that go, and take their rows with them *)

\* ON DELETE CASCADE; listed are the keys somebody is going to remove.
Cascade(ps, listed) ==
  /\ plans' = plans \ ps
  /\ row' = [k \in Keys |-> IF row[k] \in ps THEN None ELSE row[k]]
  /\ strays' = strays \cup {k \in Keys : row[k] \in ps /\ k \notin listed}

DeletePlan(r, p) ==
  /\ Fresh(r) /\ p \in plans
  /\ Start(r, "list", p, {})
  /\ UNCHANGED <<db, blobs, issued, live, served, strays, world>>

\* StorageKeysByPlan; if it fails there is nothing to sweep.
ListKeys(r) ==
  /\ At(r, "list")
  /\ \/ Works(r) /\ job' = [job EXCEPT ![r].step = "drop", ![r].keys = RowsOf(job[r].plan)]
     \/ Fails(r) /\ job' = [job EXCEPT ![r].step = "drop"]
  /\ UNCHANGED <<db, blobs, issued, live, served, strays>>

Drop(r) ==
  /\ At(r, "drop") /\ job[r].plan \in plans /\ Works(r)
  /\ Cascade({job[r].plan}, job[r].keys)
  /\ GoTo(r, "cleanup")
  /\ UNCHANGED <<blobs, issued, live>>

DropFails(r) ==
  /\ At(r, "drop")
  /\ \/ job[r].plan \notin plans /\ Works(r) /\ UNCHANGED <<db, strays>>
     \/ Fails(r) /\ UNCHANGED <<db, strays>>
     \/ job[r].plan \in plans /\ AnswerLost(r) /\ Cascade({job[r].plan}, job[r].keys)
  /\ Answer(r)
  /\ UNCHANGED <<blobs, issued, live>>

\* deleteTrip and linkPlans know nothing of attachments.
DeleteTrip(r) ==
  /\ Fresh(r) /\ plans # {} /\ Works(r)
  /\ Cascade(plans, {})
  /\ Answer(r)
  /\ UNCHANGED <<blobs, issued, live>>

LinkPlans(r, p, q) ==
  /\ Fresh(r) /\ p \in plans /\ q \in plans /\ p # q /\ Works(r)
  /\ Cascade({q}, {})
  /\ Answer(r)
  /\ UNCHANGED <<blobs, issued, live>>

----------------------------------------------------------------------------
Disconnect(r) ==
  /\ ~At(r, "idle") /\ live[r] /\ Fault
  /\ live' = [live EXCEPT ![r] = FALSE]
  /\ UNCHANGED <<db, blobs, issued, job, served, strays, lost>>

Crash ==
  /\ (\E r \in Requests : ~At(r, "idle")) /\ Fault
  /\ served' = served \cup {r \in Requests : ~At(r, "idle")}
  /\ job' = [r \in Requests |-> IdleJob]
  /\ UNCHANGED <<db, blobs, issued, live, strays, lost>>

Next ==
  \/ \E r \in Requests :
       \/ \E p \in Plans : Upload(r, p) \/ DeletePlan(r, p)
       \/ \E k \in Keys :
            \/ DeleteAttachment(r, k) \/ Put(r, k) \/ Insert(r, k) \/ InsertFails(r, k)
            \/ RemoveBlob(r, k) \/ Unhang(r, k) \/ UnhangFails(r, k)
       \/ PutFails(r) \/ Cleaned(r) \/ ListKeys(r) \/ Drop(r) \/ DropFails(r)
       \/ DeleteTrip(r) \/ \E p, q \in Plans : LinkPlans(r, p, q)
       \/ Disconnect(r)
  \/ Crash

Spec == Init /\ [][Next]_vars

----------------------------------------------------------------------------
(* Properties *)

TypeOK ==
  /\ plans \subseteq Plans
  /\ row \in [Keys -> plans \cup {None}]
  /\ blobs \subseteq issued /\ issued \subseteq Keys
  /\ job \in [Requests -> [step : {"idle", "put", "insert", "cleanup", "unhang", "list", "drop"},
                           plan : Plans \cup {None}, keys : SUBSET Keys]]
  /\ live \in [Requests -> BOOLEAN] /\ served \subseteq Requests
  /\ strays \subseteq Keys
  /\ failures \in 0 .. MaxFailures /\ lost \in 0 .. failures

Rows == {k \in Keys : row[k] # None}

\* A listed attachment can be opened: its row outlives its bytes only when an
\* upload lost the answer to its insert and cleaned up after itself, one row
\* for each such insert (handlers_attachments.go:71), whatever other answers
\* are lost.  Bytes go after the row, whatever fails in between
\* (handlers_attachments.go:118-120 says they go first).
RowsHaveBlobs == Cardinality(Rows \ blobs) <= lost

Orphans == {k \in blobs \ Rows : \A r \in Requests : ~InHand(r, k)}

\* Bytes nobody lists have a cause: a failure, or a plan that took the row away
\* without a sweep of this key: with its trip, when it was linked into another
\* plan, or when the upload finished after the keys had been listed.
OrphansHaveACause == Orphans \subseteq strays \/ failures > 0
=============================================================================
