------------------------------- MODULE Events -------------------------------
(***************************************************************************)
(* Live updates: the event hub (internal/sse), the publishers of plan      *)
(* events (internal/notify behind internal/handlers, and publishPartChange *)
(* of internal/poller) and what a browser tab does with an event           *)
(* (web/src/sse.ts, App.tsx, state/tripsSlice.ts, state/trackerSlice.ts).  *)
(*                                                                         *)
(* A publisher commits its change, looks up who may see the plan, and      *)
(* publishes: three steps between which others commit and publish.  A      *)
(* deletion publishes first and commits last.  The hub never blocks: an    *)
(* event for a full buffer is dropped.  A tab answers an event by loading  *)
(* the open trip again, or by folding the event's payload into it: status, *)
(* effective time, position and track, and none of a plan's details.       *)
(* One trip, which itself is never deleted.                                *)
(***************************************************************************)
EXTENDS Naturals, Sequences, FiniteSets

CONSTANTS
  None, Asked, \* no trip on screen and no load under way; a load not yet served
  Plans, Users, Tabs,
  UserOf,      \* whose session a tab is
  ShowAll,     \* tabs of a superuser who asked for show_all=1
  InitialAudience,
  bufSz,       \* the hub's buffer per subscriber, 16 in the program
  Ops,         \* the publishers of a run
  MaxChanges, MaxTasks, MaxCuts  \* bounds of a run

Marks == 0 .. MaxChanges + 1  \* how often a part of a plan has changed
\* What there is to see of a plan: what a payload carries is live, the rest of
\* it (gates, terminals, times, title) is detail.
Look == [detail : Marks, live : Marks]
Gone == [detail |-> 0, live |-> 0]  \* a plan that is deleted or hidden
View == [Plans -> Look]

Event ==
  [plan : Plans, fold : BOOLEAN,  \* plan_part.updated, or plan.updated and plan.deleted
   live : Marks, to : SUBSET Users]  \* live 0: a payload without these fields

Task ==
  [op : Ops \cup {"absorbed"}, plan : Plans, other : Plans,
   step : {"read", "lookUp", "publish", "commit"},
   live : Marks, to : SUBSET Users,
   id : 0 .. MaxChanges]  \* tells apart two publishers of one plan

ASSUME EventsAssumption ==
  /\ UserOf \in [Tabs -> Users]
  /\ ShowAll \subseteq Tabs
  /\ InitialAudience \in [Plans -> SUBSET Users]
  /\ bufSz \in Nat \ {0}
  /\ Ops \subseteq {"update", "reshare", "delete", "absorb", "poll"}
  /\ None # Asked /\ None \notin View /\ Asked \notin View
  /\ {MaxChanges, MaxTasks, MaxCuts} \subseteq Nat

VARIABLES
  plan,     \* the stored plans: how each looks, Gone once deleted, and to whom
  tasks,    \* publishers under way
  buffer,   \* the hub's channel to each tab
  conn,     \* tabs with an open stream
  loading,  \* loadTrip of a tab: None, Asked, or the response on its way
  shown,    \* what the tab displays: None, or the open trip
  admitted, \* history: who could see a plan at some time
  doubt,    \* history: how a tab may have missed the last change
  left      \* changes and faults a run may still have

server == <<plan, tasks>>
client == <<loading, shown>>
vars == <<server, buffer, conn, client, admitted, doubt, left>>

Sees(t, p) == t \in ShowAll \/ UserOf[t] \in plan[p].audience
TruthIn(pl, t) ==
  [p \in Plans |-> IF t \in ShowAll \/ UserOf[t] \in pl[p].audience THEN pl[p].look ELSE Gone]
Truth(t) == TruthIn(plan, t)

Init ==
  /\ plan = [p \in Plans |-> [look |-> [detail |-> 1, live |-> 1], audience |-> InitialAudience[p]]]
  /\ tasks = {}
  /\ buffer = [t \in Tabs |-> << >>]
  /\ conn = Tabs
  /\ loading = [t \in Tabs |-> None]
  /\ \E closed \in SUBSET Tabs : shown = [t \in Tabs |-> IF t \in closed THEN None ELSE Truth(t)]
  /\ admitted = [p \in Plans |-> plan[p].audience]
  /\ doubt = [t \in Tabs |-> {}]
  /\ left = [changes |-> MaxChanges, cuts |-> MaxCuts]

----------------------------------------------------------------------------
(* Publishers *)

NewTask(o, p, q, s) ==
  [op |-> o, plan |-> p, other |-> q, step |-> s, live |-> 0, to |-> {}, id |-> left.changes]

Exists(p) == plan[p].look # Gone

\* No load yet to be served will show the tab a change made now.
Deaf(t) ==
  loading[t] # Asked /\ \A i \in DOMAIN buffer[t] : buffer[t][i].fold

Change(pl) ==
  /\ plan' = pl
  /\ admitted' = [p \in Plans |-> admitted[p] \cup pl[p].audience]

\* Where no event to come tells a tab of the change, and why.
Unheard(pl, why) ==
  doubt' = [t \in Tabs |->
    IF TruthIn(pl, t) # Truth(t) /\ Deaf(t) THEN doubt[t] \cup why[t] ELSE doubt[t]]
CutOff == [t \in Tabs |-> IF t \in conn THEN {} ELSE {"cut"}]

Bump(p) == [plan EXCEPT ![p].look = [detail |-> @.detail + 1, live |-> @.live + 1]]
Tick(p) == [plan EXCEPT ![p].look.live = @ + 1]
Deleted == [look |-> Gone, audience |-> {}]
Joined(p, q) == [Bump(p) EXCEPT ![q] = Deleted]

\* UpdatePlan and every other edit that ends in publishPlanUpdated.
Update(p) ==
  /\ "update" \in Ops /\ Exists(p)
  /\ Change(Bump(p))
  /\ tasks' = tasks \cup {NewTask("update", p, p, "lookUp")}
  /\ Unheard(Bump(p), CutOff)
  /\ UNCHANGED <<buffer, conn, client>>

\* SetPlanVisibility, RemovePlanPassenger: whoever loses the plan is not told.
Reshare(p) ==
  \E a \in SUBSET Users :
    LET pl == [plan EXCEPT ![p].audience = a] IN
    /\ "reshare" \in Ops /\ Exists(p) /\ a # plan[p].audience /\ a # {}
    /\ Change(pl)
    /\ tasks' = tasks \cup {NewTask("reshare", p, p, "lookUp")}
    /\ Unheard(pl, [t \in Tabs |-> IF UserOf[t] \in a THEN CutOff[t] ELSE {"hidden"}])
    /\ UNCHANGED <<buffer, conn, client>>

\* deletePlan: the event goes out before DeletePlan runs.
Delete(p) ==
  /\ "delete" \in Ops /\ Exists(p)
  /\ tasks' = tasks \cup {NewTask("delete", p, p, "lookUp")}
  /\ UNCHANGED <<plan, buffer, conn, client, admitted, doubt>>

DeleteCommits(k) ==
  LET pl == [plan EXCEPT ![k.plan] = Deleted] IN
  /\ k \in tasks /\ k.step = "commit"
  /\ tasks' = tasks \ {k}
  /\ IF Exists(k.plan)
     THEN Change(pl) /\ Unheard(pl, [t \in Tabs |-> {"early"}])
     ELSE UNCHANGED <<plan, admitted, doubt>>
  /\ UNCHANGED <<buffer, conn, client, left>>

\* linkPlans: plan q is absorbed by p, then plan.deleted for q, then
\* plan.updated for p.
Absorb(p, q) ==
  /\ "absorb" \in Ops /\ p # q /\ Exists(p) /\ Exists(q)
  /\ Change(Joined(p, q))
  /\ tasks' = tasks \cup {NewTask("absorb", q, p, "lookUp")}
  /\ Unheard(Joined(p, q), CutOff)
  /\ UNCHANGED <<buffer, conn, client>>

\* The poller, one flight at a time, has refreshed the flight, its details or
\* its progress alone: publishPartChange.
Poll(p) ==
  /\ "poll" \in Ops /\ Exists(p) /\ \A k \in tasks : k.op # "poll"
  /\ \/ /\ Change(Tick(p))
        /\ Unheard(Tick(p), CutOff)
     \/ /\ Change(Bump(p))
        /\ Unheard(Bump(p), [t \in Tabs |-> CutOff[t] \cup {"unfolded"}])
  /\ tasks' = tasks \cup {NewTask("poll", p, p, "read")}
  /\ UNCHANGED <<buffer, conn, client>>

\* TrackerPartRow
ReadBack(k) ==
  /\ k \in tasks /\ k.step = "read"
  /\ tasks' = (tasks \ {k}) \cup
       (IF Exists(k.plan) THEN {[k EXCEPT !.step = "lookUp", !.live = plan[k.plan].look.live]} ELSE {})
  /\ UNCHANGED <<plan, buffer, conn, client, admitted, doubt, left>>

\* A slip: the event goes to everybody on the trip.
LookUpTrip(k) ==
  /\ k \in tasks /\ k.step = "lookUp"
  /\ tasks' = (tasks \ {k}) \cup
       {[k EXCEPT !.step = "publish", !.to = UNION {plan[p].audience : p \in Plans}]}
  /\ UNCHANGED <<plan, buffer, conn, client, admitted, doubt, left>>

\* VisiblePlanUserIDs: nobody, once the plan is gone.
LookUp(k) ==
  /\ k \in tasks /\ k.step = "lookUp"
  /\ tasks' = (tasks \ {k}) \cup {[k EXCEPT !.step = "publish", !.to = plan[k.plan].audience]}
  /\ UNCHANGED <<plan, buffer, conn, client, admitted, doubt, left>>

\* What a handler still has to do after an event.
Then(k) ==
  CASE k.op = "delete" -> {[k EXCEPT !.step = "commit"]}
    [] k.op = "absorb" -> {[k EXCEPT !.op = "absorbed", !.plan = k.other, !.step = "lookUp", !.to = {}]}
    [] OTHER -> {}

Fault == left.cuts > 0 /\ left' = [left EXCEPT !.cuts = @ - 1]
Unpublished == doubt' = [t \in Tabs |-> doubt[t] \cup {"unpublished"}]

\* planEvent logs a failed look-up and the handler goes on; the poller
\* publishes to an empty set.
LookUpFails(k) ==
  /\ k \in tasks /\ k.step = "lookUp" /\ Fault
  /\ IF k.op = "poll"
     THEN tasks' = (tasks \ {k}) \cup {[k EXCEPT !.step = "publish"]} /\ UNCHANGED doubt
     ELSE tasks' = (tasks \ {k}) \cup Then(k) /\ Unpublished
  /\ UNCHANGED <<plan, buffer, conn, client, admitted>>

\* A request is cancelled, or another query of its handler fails, planDTO,
\* DeletePlan or the poller's TrackerPartRow: nothing more of it happens.
GivesUp(k) ==
  /\ k \in tasks /\ k.step # "publish"
  /\ k.step = "lookUp" => k.op # "poll"
  /\ Fault
  /\ tasks' = tasks \ {k}
  /\ IF k.op = "delete" THEN UNCHANGED doubt ELSE Unpublished
  /\ UNCHANGED <<plan, buffer, conn, client, admitted>>

\* LatestPartPositions or PartTracks fails: the payload goes out without.
ReadsNoPosition(k) ==
  /\ k \in tasks /\ k.step = "read" /\ Exists(k.plan) /\ Fault
  /\ tasks' = (tasks \ {k}) \cup {[k EXCEPT !.step = "lookUp"]}
  /\ Unpublished
  /\ UNCHANGED <<plan, buffer, conn, client, admitted>>

visibleSet(to) == IF to = {} THEN Users ELSE to
shouldDeliver(e, t) == UserOf[t] \in visibleSet(e.to) \/ t \in ShowAll
EventOf(k) == [plan |-> k.plan, fold |-> k.op = "poll", live |-> k.live, to |-> k.to]

Fits(t) == t \in conn /\ Len(buffer[t]) < bufSz
Receives(e, t) == shouldDeliver(e, t) /\ Fits(t)

Publish(k) ==
  LET e == EventOf(k) IN
  /\ k \in tasks /\ k.step = "publish"
  /\ tasks' = (tasks \ {k}) \cup Then(k)
  /\ buffer' = [t \in Tabs |-> IF Receives(e, t) THEN Append(buffer[t], e) ELSE buffer[t]]
  /\ doubt' = [t \in Tabs |->
       IF shouldDeliver(e, t) /\ t \in conn /\ ~Fits(t) /\ Deaf(t)
       THEN doubt[t] \cup {"dropped"} ELSE doubt[t]]
  /\ UNCHANGED <<plan, conn, client, admitted, left>>

----------------------------------------------------------------------------
(* A tab *)

Closed(t) == shown[t] = None /\ loading[t] = None

\* TripDetail loads the trip its user opens, and forgets it when left.
Open(t) ==
  /\ Closed(t)
  /\ loading' = [loading EXCEPT ![t] = Asked]
  /\ UNCHANGED <<server, buffer, conn, shown, admitted, doubt, left>>

Leave(t) ==
  /\ ~Closed(t) /\ Fault
  /\ loading' = [loading EXCEPT ![t] = None]
  /\ shown' = [shown EXCEPT ![t] = None]
  /\ UNCHANGED <<server, buffer, conn, admitted, doubt>>

\* onPlan knows no trip to load again while none is on screen.
Ignores(t) ==
  /\ shown[t] = None
  /\ doubt' = [doubt EXCEPT ![t] = IF loading[t] \in View THEN @ \cup {"ignored"} ELSE @]
  /\ UNCHANGED loading

\* A slip: a load under way is taken to cover the event.
ReloadOnce(t) ==
  /\ buffer[t] # << >> /\ ~Head(buffer[t]).fold
  /\ buffer' = [buffer EXCEPT ![t] = Tail(@)]
  /\ \/ Ignores(t)
     \/ /\ shown[t] # None
        /\ loading' = [loading EXCEPT ![t] = IF @ = None THEN Asked ELSE @]
        /\ UNCHANGED doubt
  /\ UNCHANGED <<server, conn, shown, admitted, left>>

\* onPlan loads the open trip again, superseding a load under way (loadSeq).
Reload(t) ==
  /\ buffer[t] # << >> /\ ~Head(buffer[t]).fold
  /\ buffer' = [buffer EXCEPT ![t] = Tail(@)]
  /\ \/ Ignores(t)
     \/ /\ shown[t] # None
        /\ loading' = [loading EXCEPT ![t] = Asked]
        /\ UNCHANGED doubt
  /\ UNCHANGED <<server, conn, shown, admitted, left>>

IsTrue(view, t, f) == view # None /\ \A p \in Plans : view[p][f] = Truth(t)[p][f]
Shows(t, f) == IsTrue(shown[t], t, f)

\* foldUpdate merges what the payload carries into a plan on screen, whatever
\* it shows already; a load served before may then overwrite it.
foldUpdate(view, e) ==
  IF view = None \/ e.live = 0 THEN view
  ELSE IF view[e.plan] = Gone THEN view
  ELSE [view EXCEPT ![e.plan].live = e.live]

Fold(t) ==
  LET e == Head(buffer[t]) IN
  /\ buffer[t] # << >> /\ e.fold
  /\ buffer' = [buffer EXCEPT ![t] = Tail(@)]
  /\ shown' = [shown EXCEPT ![t] = foldUpdate(@, e)]
  /\ doubt' = [doubt EXCEPT ![t] =
       IF \/ loading[t] \in View
          \/ shown[t] # None /\ shown'[t][e.plan].live # Truth(t)[e.plan].live
       THEN @ \cup {"folded"}
       ELSE IF IsTrue(shown'[t], t, "live") THEN @ \ {"folded"} ELSE @]
  /\ UNCHANGED <<server, conn, loading, admitted, left>>

\* getTrip answers with what is stored now.
Serve(t) ==
  /\ loading[t] = Asked
  /\ loading' = [loading EXCEPT ![t] = Truth(t)]
  /\ doubt' = [doubt EXCEPT ![t] = {}]
  /\ UNCHANGED <<server, buffer, conn, shown, admitted, left>>

\* A slip: a response is thrown away when any event came in behind it.
ShowUnlessNews(t) ==
  /\ loading[t] \in View
  /\ shown' = [shown EXCEPT ![t] = IF buffer[t] = << >> THEN loading[t] ELSE @]
  /\ loading' = [loading EXCEPT ![t] = None]
  /\ UNCHANGED <<server, buffer, conn, admitted, doubt, left>>

Show(t) ==
  /\ loading[t] \in View
  /\ shown' = [shown EXCEPT ![t] = loading[t]]
  /\ loading' = [loading EXCEPT ![t] = None]
  /\ UNCHANGED <<server, buffer, conn, admitted, doubt, left>>

\* What was shown stays, and nothing asks again.
LoadFails(t) ==
  /\ loading[t] # None /\ Fault
  /\ loading' = [loading EXCEPT ![t] = None]
  /\ doubt' = [doubt EXCEPT ![t] = @ \cup {"failed"}]
  /\ UNCHANGED <<server, buffer, conn, shown, admitted>>

\* The stream breaks: its channel goes with it.
Cut(t) ==
  /\ t \in conn /\ Fault
  /\ conn' = conn \ {t}
  /\ buffer' = [buffer EXCEPT ![t] = << >>]
  /\ doubt' = [doubt EXCEPT ![t] = @ \cup {"cut"}]
  /\ UNCHANGED <<server, client, admitted>>

\* connectSSE opens a new stream after its back-off and loads nothing.
Reconnect(t) ==
  /\ t \notin conn
  /\ conn' = conn \cup {t}
  /\ UNCHANGED <<server, buffer, client, admitted, doubt, left>>

PublisherStep == \E k \in tasks : ReadBack(k) \/ LookUp(k) \/ Publish(k) \/ DeleteCommits(k)
TabStep(t) == Reload(t) \/ Fold(t) \/ Serve(t) \/ Show(t) \/ Reconnect(t)
Disturbed(t) == Leave(t) \/ LoadFails(t) \/ Cut(t)
Busy == \E k \in tasks : LookUpFails(k) \/ GivesUp(k) \/ ReadsNoPosition(k)
Begin ==
  /\ Cardinality(tasks) < MaxTasks
  /\ left.changes > 0 /\ left' = [left EXCEPT !.changes = @ - 1]
  /\ \E p \in Plans :
    \/ Update(p) \/ Reshare(p) \/ Delete(p) \/ Poll(p)
    \/ \E q \in Plans : Absorb(p, q)

Next == Begin \/ PublisherStep \/ Busy \/ \E t \in Tabs : TabStep(t) \/ Open(t) \/ Disturbed(t)

Spec == Init /\ [][Next]_vars
FairSpec == Spec /\ WF_vars(PublisherStep) /\ \A t \in Tabs : WF_vars(TabStep(t))

----------------------------------------------------------------------------
(* Properties *)

Causes == {"cut", "hidden", "early", "unpublished", "dropped", "failed", "ignored", "unfolded", "folded"}
\* What a payload leaves out is detail, what it carries out of order is live.
Harms(f) == Causes \ IF f = "detail" THEN {"folded"} ELSE {"unfolded"}

\* The hub's buffers never exceed their size; the rest keeps its shape.
TypeOK ==
  /\ plan \in [Plans -> [look : Look, audience : SUBSET Users]]
  /\ tasks \subseteq Task
  /\ buffer \in [Tabs -> Seq(Event)]
  /\ \A t \in Tabs : Len(buffer[t]) <= bufSz /\ (t \notin conn => buffer[t] = << >>)
  /\ conn \subseteq Tabs
  /\ loading \in [Tabs -> View \cup {None, Asked}] /\ shown \in [Tabs -> View \cup {None}]
  /\ admitted \in [Plans -> SUBSET Users] /\ doubt \in [Tabs -> SUBSET Causes]
  /\ left \in [changes : 0 .. MaxChanges, cuts : 0 .. MaxCuts]

Quiet(t) == tasks = {} /\ buffer[t] = << >> /\ loading[t] = None

\* Once everything published has been answered, an open trip shows what its
\* user may see, but for what befell the tab since its last load: its stream
\* broke, an event was never or not fully published, its user lost the plan, a
\* deletion was announced before it was made, an event was dropped that no
\* waiting load covers, or came in unanswered while the page was still
\* loading, or a load failed.  Besides these, the details go stale only when a
\* poll changes them, which the payload leaves out, and the live fields only
\* when a payload is folded out of order, until one that is current follows.
\* Any later load heals everything (notify.go:41, sse.go:88,
\* trackerSlice.ts:188, tripsSlice.ts:86, App.tsx:101).
StaleOnlyByKnownLoss ==
  \A t \in Tabs, f \in {"detail", "live"} :
    Quiet(t) /\ doubt[t] \cap Harms(f) = {} => Closed(t) \/ Shows(t, f)

Hears(t, e) == buffer'[t] = Append(buffer[t], e)
MayHear(t, p) == t \in ShowAll \/ UserOf[t] \in admitted[p]

\* An event about a plan reaches a tab whose user was never allowed to see the
\* plan only when the audience it was published to was empty, which the hub
\* reads as everybody (sse.go:17, visibleSet).
LeakNeedsAnEmptyAudience ==
  [][\A t \in Tabs, e \in Event :
       Hears(t, e) /\ ~MayHear(t, e.plan) => e.to = {}]_vars

\* An open trip that loses nothing more is up to date in the end and stays so.
FreshInTheEnd ==
  \A t \in Tabs, f \in {"detail", "live"} :
    <>[](doubt[t] \cap Harms(f) = {}) => <>[](Closed(t) \/ Shows(t, f))
=============================================================================
