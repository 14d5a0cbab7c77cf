---------------------------- MODULE TripSharing ----------------------------
(***************************************************************************)
(* Who may see and change a trip: trips with their members and trip-level  *)
(* passengers, plans with their passengers and their privacy, friendships, *)
(* and what is queued for people who have no account yet (internal/store:  *)
(* trips.go, plans.go, sharing.go, auto_shares.go, friends.go, users.go,   *)
(* behind internal/handlers).                                              *)
(*                                                                         *)
(* A handler authorises its caller with one query and then runs one store  *)
(* transaction; between the two, other requests are served.  The store     *)
(* operations lock the trip's row (FOR UPDATE, or the KEY SHARE of a       *)
(* foreign key), so each of them is one step.                              *)
(***************************************************************************)
EXTENDS Naturals

CONSTANTS
  None,        \* NULL
  User, Trip, Plan,
  Superusers,
  EarlyUsers,  \* accounts that predate friendships: migration 0008 befriends them all
  Requests,    \* the requests the clients of a run send
  Suspended,   \* sets of requests that may be between authorisation and transaction
  Legs         \* the parts a plan is created with

GrantRole == {"viewer", "editor"}
Role == GrantRole \cup {"owner", "none"}
Mode == {"everyone", "hidden_from", "only_visible_to"}
Life == {"unborn", "live", "deleted"}
Pair == {{a, b} : a \in User, b \in User} \ {{a} : a \in User}

RequestType ==
  [op : STRING, me : User, trip : Trip, plan : Plan, other : Plan, user : User,
   role : Role \cup {"passenger"}, mode : Mode, named : SUBSET User, flag : BOOLEAN]

\* The roles each handler accepts; it answers 400 to any other.
RoleFor(op) ==
  CASE op = "addTripMember" -> GrantRole \cup {"owner"}
    [] op = "setTripShareAllFriends" -> GrantRole \cup {"none"}
    [] op = "shareTripByEmail" -> GrantRole
    [] OTHER -> GrantRole \cup {"passenger"}

ASSUME SharingAssumption ==
  /\ None \notin User \cup Trip
  /\ User \cap {"none", "accepted"} = {}
  /\ Superusers \subseteq User
  /\ EarlyUsers \subseteq User
  /\ Requests \subseteq {r \in RequestType : r.role \in RoleFor(r.op)}
  /\ Suspended \subseteq SUBSET Requests
  /\ Legs \in Nat

VARIABLES
  trip,      \* trips, with their trip_members and trip_passengers
  plan,      \* plans, with plan_visibility(_members) and plan_passengers
  autoShare, \* user_auto_shares
  joined,    \* users: who has an account and a verified address
  friends,   \* friendships: none, accepted, or whoever's request is pending
  invites,   \* pending_friend_invites
  tripShare, \* pending_shares of kind trip: the role queued for an address
  planShare, \* pending_shares of kind plan
  inFlight   \* requests authorised and not yet executed

content == <<trip, plan>>
people == <<joined, friends, invites>>
queued == <<tripShare, planShare>>
vars == <<content, autoShare, people, queued, inFlight>>

TripType ==
  [life : Life, createdBy : User \cup {None}, allFriends : GrantRole \cup {"none"},
   role : [User -> Role], passengers : SUBSET User]

\* manual and viaTrip are plan_passengers rows with via_trip false and true;
\* moved is history: the plan has changed trips.
PlanType ==
  [life : Life, trip : Trip \cup {None}, createdBy : User \cup {None}, allFriends : BOOLEAN,
   mode : Mode, named : SUBSET User, manual : SUBSET User, viaTrip : SUBSET User,
   legs : Nat, moved : BOOLEAN]

NoTrip(life) ==
  [life |-> life, createdBy |-> None, allFriends |-> "none",
   role |-> [u \in User |-> "none"], passengers |-> {}]
NoPlan(life) ==
  [life |-> life, trip |-> None, createdBy |-> None, allFriends |-> FALSE,
   mode |-> "everyone", named |-> {}, manual |-> {}, viaTrip |-> {}, legs |-> 0, moved |-> FALSE]

Init ==
  /\ trip = [t \in Trip |-> NoTrip("unborn")]
  /\ plan = [p \in Plan |-> NoPlan("unborn")]
  /\ autoShare = [u \in User |-> [v \in User |-> "none"]]
  /\ joined = EarlyUsers
  /\ friends = [d \in Pair |-> IF d \subseteq EarlyUsers THEN "accepted" ELSE "none"]
  /\ invites = {}
  /\ tripShare = [u \in User |-> [t \in Trip |-> "none"]]
  /\ planShare = {}
  /\ inFlight = {}

(***************************************************************************)
(* Who may see what                                                        *)
(***************************************************************************)
IsLive(row) == row.life = "live"
Friend(a, b) == a # b /\ friends[{a, b}] = "accepted"
PlansOf(t) == {p \in Plan : plan[p].trip = t}
Passengers(p) == plan[p].manual \cup plan[p].viaTrip
Owners(t) == {u \in User : trip[t].role[u] = "owner"}

\* plan_visible_to_member: whom a privacy setting lets see a plan.
Audience(mode, named) ==
  {u \in User : CASE mode = "everyone" -> TRUE
                  [] mode = "hidden_from" -> u \notin named
                  [] mode = "only_visible_to" -> u \in named}
VisibleToMembers(p) == Audience(plan[p].mode, plan[p].named)

TripGrant(t, u) == trip[t].role[u] # "none" \/ trip[t].allFriends # "none"
PlanGrant(p, u) ==
  \/ plan[p].createdBy = u
  \/ u \in Passengers(p)
  \/ plan[p].allFriends
  \/ plan[p].mode = "only_visible_to" /\ u \in plan[p].named

\* planVisibleExpr: the owner, and friends of the owner holding either grant.
CanViewPlan(p, u) ==
  LET t == plan[p].trip IN
  /\ IsLive(plan[p])
  /\ \/ trip[t].createdBy = u
     \/ /\ Friend(trip[t].createdBy, u)
        /\ \/ PlanGrant(p, u)
           \/ /\ TripGrant(t, u)
              /\ \/ plan[p].mode = "everyone"
                 \/ plan[p].mode = "hidden_from" /\ u \notin plan[p].named

\* A slip: the trip's tile forgets the plan-level "all friends" grant.
CanViewTripNoPlanAllFriends(t, u) ==
  /\ IsLive(trip[t])
  /\ \/ trip[t].createdBy = u
     \/ /\ Friend(trip[t].createdBy, u)
        /\ \/ TripGrant(t, u)
           \/ \E p \in PlansOf(t) : ~plan[p].allFriends /\ PlanGrant(p, u)

\* The tile rule: any grant on the trip or on one of its plans.
CanViewTrip(t, u) ==
  /\ IsLive(trip[t])
  /\ \/ trip[t].createdBy = u
     \/ /\ Friend(trip[t].createdBy, u)
        /\ \/ TripGrant(t, u)
           \/ \E p \in PlansOf(t) : PlanGrant(p, u)

CanEditTrip(t, u) == trip[t].role[u] \in {"owner", "editor"}

(***************************************************************************)
(* Authorisation, as the handlers check it before they call the store      *)
(***************************************************************************)
requireTripOwner(t, u) == u \in Superusers \/ trip[t].role[u] = "owner"
requireTripEdit(t, u) == u \in Superusers \/ CanEditTrip(t, u)
requirePlanEdit(p, u) == IsLive(plan[p]) /\ requireTripEdit(plan[p].trip, u)
\* The caller, or anyone the caller has an edge with; the row must exist.
requireFriendTarget(me, u) ==
  u \in joined /\ (me \in Superusers \/ me = u \/ friends[{me, u}] # "none")

OwnerOps == {"deleteTrip", "addTripMember", "removeTripMember", "setTripShareAllFriends",
             "shareTripByEmail"}
TripEditOps == {"createPlan", "movePlan"}
PlanEditOps == {"deletePlan", "movePlan", "linkPlans", "splitPlanPart", "addPlanPassenger",
                "removePlanPassenger", "setPlanVisibility", "setPlanShareAllFriends",
                "sharePlanByEmail"}
FriendTargetOps == {"addTripMember", "addTripPassenger", "addPlanPassenger"}

Authorised(r) ==
  /\ r.me \in joined
  /\ r.op \in OwnerOps => requireTripOwner(r.trip, r.me)
  /\ r.op \in TripEditOps => requireTripEdit(r.trip, r.me)
  /\ r.op \in PlanEditOps => requirePlanEdit(r.plan, r.me)
  /\ r.op = "linkPlans" => requirePlanEdit(r.other, r.me)
  /\ r.op = "addTripPassenger" => r.me \in Superusers \/ CanViewTrip(r.trip, r.me)
  /\ r.op = "removeTripPassenger" => r.me = r.user \/ requireTripEdit(r.trip, r.me)
  /\ r.op \in FriendTargetOps => requireFriendTarget(r.me, r.user)

(***************************************************************************)
(* Trips, members and trip-level passengers                                *)
(***************************************************************************)
\* The owner's "always share with" defaults come with the trip.
CreateTrip(me, t) ==
  /\ trip[t].life = "unborn"
  /\ trip' = [trip EXCEPT ![t] =
       [life |-> "live", createdBy |-> me, allFriends |-> "none",
        role |-> [u \in User |-> CASE u = me -> "owner"
                                   [] u # me /\ autoShare[me][u] = "passenger" -> "viewer"
                                   [] OTHER -> autoShare[me][u]],
        passengers |-> {u \in User \ {me} : autoShare[me][u] = "passenger"}]]
  /\ UNCHANGED <<plan, autoShare, people, queued>>

\* The trip's plans go with it; what is queued for it does not.
DeleteTrip(t) ==
  /\ IsLive(trip[t])
  /\ trip' = [trip EXCEPT ![t] = NoTrip("deleted")]
  /\ plan' = [p \in Plan |-> IF plan[p].trip = t THEN NoPlan("deleted") ELSE plan[p]]
  /\ UNCHANGED <<autoShare, people, queued>>

AddTripMember(t, u, role) ==
  /\ IsLive(trip[t])
  /\ trip' = [trip EXCEPT ![t].role[u] = role]
  /\ UNCHANGED <<plan, autoShare, people, queued>>

\* A slip: the last owner may be removed.
RemoveAnyMember(t, u) ==
  /\ trip[t].role[u] # "none"
  /\ trip' = [trip EXCEPT ![t].role[u] = "none"]
  /\ UNCHANGED <<plan, autoShare, people, queued>>

\* ErrLastOwner when u is the only owner left, counted under the trip's lock.
RemoveTripMember(t, u) ==
  /\ trip[t].role[u] # "none"
  /\ Owners(t) # {u}
  /\ trip' = [trip EXCEPT ![t].role[u] = "none"]
  /\ UNCHANGED <<plan, autoShare, people, queued>>

SetTripShareAllFriends(t, role) ==
  /\ IsLive(trip[t])
  /\ trip' = [trip EXCEPT ![t].allFriends = role]
  /\ UNCHANGED <<plan, autoShare, people, queued>>

Boarded(row, u) ==
  [row EXCEPT !.passengers = @ \cup {u}, !.role[u] = IF @ = "none" THEN "viewer" ELSE @]

\* A slip: the passenger boards every plan, hidden from them or not.
BoardEveryPlan(t, u) ==
  /\ IsLive(trip[t])
  /\ trip' = [trip EXCEPT ![t] = Boarded(trip[t], u)]
  /\ plan' = [p \in Plan |-> IF plan[p].trip = t /\ u \notin plan[p].manual
                             THEN [plan[p] EXCEPT !.viaTrip = @ \cup {u}] ELSE plan[p]]
  /\ UNCHANGED <<autoShare, people, queued>>

\* The passenger becomes a viewer and boards each plan they may see; a row that
\* is there already, manual ones above all, stays as it is.
AddTripPassenger(t, u) ==
  /\ IsLive(trip[t])
  /\ trip' = [trip EXCEPT ![t] = Boarded(trip[t], u)]
  /\ plan' = [p \in Plan |->
       IF plan[p].trip = t /\ u \in VisibleToMembers(p) \ plan[p].manual
       THEN [plan[p] EXCEPT !.viaTrip = @ \cup {u}] ELSE plan[p]]
  /\ UNCHANGED <<autoShare, people, queued>>

\* The membership stays, unless it is a mere viewer's whom no manual row justifies.
Landed(row, u, justified) ==
  [row EXCEPT !.passengers = @ \ {u},
              !.role[u] = IF @ = "viewer" /\ ~justified THEN "none" ELSE @]

\* The derived rows go, the manual ones stay.
RemoveTripPassenger(t, u) ==
  /\ u \in trip[t].passengers
  /\ trip' = [trip EXCEPT ![t] = Landed(trip[t], u, \E p \in PlansOf(t) : u \in plan[p].manual)]
  /\ plan' = [p \in Plan |-> IF plan[p].trip = t
                             THEN [plan[p] EXCEPT !.viaTrip = @ \ {u}] ELSE plan[p]]
  /\ UNCHANGED <<autoShare, people, queued>>

SetAutoShare(me, u, role) ==
  /\ me # u
  /\ u \in joined
  /\ autoShare' = [autoShare EXCEPT ![me][u] = role]
  /\ UNCHANGED <<content, people, queued>>

RemoveAutoShare(me, u) ==
  /\ autoShare[me][u] # "none"
  /\ autoShare' = [autoShare EXCEPT ![me][u] = "none"]
  /\ UNCHANGED <<content, people, queued>>

(***************************************************************************)
(* Plans, their passengers and their privacy                               *)
(***************************************************************************)
NewPlan(me, t, aboard) ==
  [NoPlan("live") EXCEPT !.trip = t, !.createdBy = me, !.viaTrip = aboard, !.legs = Legs]

\* A slip: a new plan does not inherit the trip's passengers.
CreatePlanEmpty(me, t, p) ==
  /\ IsLive(trip[t])
  /\ plan[p].life = "unborn"
  /\ plan' = [plan EXCEPT ![p] = NewPlan(me, t, {})]
  /\ UNCHANGED <<trip, autoShare, people, queued>>

\* A new plan has no privacy row yet, so every trip passenger is on it.
CreatePlan(me, t, p) ==
  /\ IsLive(trip[t])
  /\ plan[p].life = "unborn"
  /\ plan' = [plan EXCEPT ![p] = NewPlan(me, t, trip[t].passengers)]
  /\ UNCHANGED <<trip, autoShare, people, queued>>

DeletePlan(p) ==
  /\ IsLive(plan[p])
  /\ plan' = [plan EXCEPT ![p] = NoPlan("deleted")]
  /\ UNCHANGED <<trip, autoShare, people, queued>>

\* Only plans.trip_id changes: passengers and privacy travel with the plan.
MovePlan(p, t) ==
  /\ IsLive(plan[p])
  /\ IsLive(trip[t])
  /\ plan' = [plan EXCEPT ![p].trip = t, ![p].moved = @ \/ plan[p].trip # t]
  /\ UNCHANGED <<trip, autoShare, people, queued>>

\* The primary's passengers and privacy win; the absorbed plan disappears.
LinkPlans(p, q) ==
  /\ p # q
  /\ IsLive(plan[p])
  /\ IsLive(plan[q])
  /\ plan[p].trip = plan[q].trip
  /\ plan' = [plan EXCEPT ![p].legs = @ + plan[q].legs, ![q] = NoPlan("deleted")]
  /\ UNCHANGED <<trip, autoShare, people, queued>>

\* One leg becomes a plan of its own: privacy and passengers are copied, the
\* "all friends" flag is left at its default.
SplitPlanPart(p, q) ==
  /\ IsLive(plan[p])
  /\ plan[p].legs > 1
  /\ plan[q].life = "unborn"
  /\ plan' = [plan EXCEPT ![p].legs = @ - 1,
                          ![q] = [plan[p] EXCEPT !.legs = 1, !.allFriends = FALSE]]
  /\ UNCHANGED <<trip, autoShare, people, queued>>

AddPlanPassenger(p, u) ==
  /\ IsLive(plan[p])
  /\ plan' = [plan EXCEPT ![p].manual = @ \cup {u}, ![p].viaTrip = @ \ {u}]
  /\ UNCHANGED <<trip, autoShare, people, queued>>

\* A trip passenger who may see the plan stays on it, as a derived row.
RemovePlanPassenger(p, u) ==
  /\ u \in Passengers(p)
  /\ plan' = [plan EXCEPT
       ![p].manual = @ \ {u},
       ![p].viaTrip = IF u \in VisibleToMembers(p) \cap trip[plan[p].trip].passengers
                      THEN @ \cup {u} ELSE @ \ {u}]
  /\ UNCHANGED <<trip, autoShare, people, queued>>

\* A slip: those a plan is now hidden from keep their derived rows.
SetVisibilityKeepRows(p, mode, named) ==
  LET who == IF mode = "everyone" THEN {} ELSE named IN
  /\ IsLive(plan[p])
  /\ plan' = [plan EXCEPT
       ![p].mode = mode, ![p].named = who,
       ![p].viaTrip = @ \cup ((trip[plan[p].trip].passengers \cap Audience(mode, who))
                              \ plan[p].manual)]
  /\ UNCHANGED <<trip, autoShare, people, queued>>

\* The privacy row is replaced, then the derived rows are reconciled with it.
SetPlanVisibility(p, mode, named) ==
  LET who == IF mode = "everyone" THEN {} ELSE named IN
  /\ IsLive(plan[p])
  /\ plan' = [plan EXCEPT
       ![p].mode = mode, ![p].named = who,
       ![p].viaTrip = (@ \cup (trip[plan[p].trip].passengers \ plan[p].manual))
                      \cap Audience(mode, who)]
  /\ UNCHANGED <<trip, autoShare, people, queued>>

SetPlanShareAllFriends(p, enabled) ==
  /\ IsLive(plan[p])
  /\ plan' = [plan EXCEPT ![p].allFriends = enabled]
  /\ UNCHANGED <<trip, autoShare, people, queued>>

(***************************************************************************)
(* Friends, invitations and sign-in                                        *)
(***************************************************************************)
\* A request in the opposite direction of a pending one accepts it.
Requested(me, u) ==
  [friends EXCEPT ![{me, u}] = CASE @ = "none" -> me
                                 [] @ \in {"accepted", me} -> @
                                 [] OTHER -> "accepted"]

\* An address with no account queues the invitation instead.
InviteFriend(me, u) ==
  /\ me # u
  /\ IF u \in joined THEN friends' = Requested(me, u) /\ UNCHANGED invites
                     ELSE invites' = invites \cup {<<me, u>>} /\ UNCHANGED friends
  /\ UNCHANGED <<content, autoShare, joined, queued>>

AcceptFriendship(me, u) ==
  /\ me # u
  /\ friends[{me, u}] = u
  /\ friends' = [friends EXCEPT ![{me, u}] = "accepted"]
  /\ UNCHANGED <<content, autoShare, joined, invites, queued>>

RemoveFriendship(me, u) ==
  /\ me # u
  /\ friends[{me, u}] # "none"
  /\ friends' = [friends EXCEPT ![{me, u}] = "none"]
  /\ UNCHANGED <<content, autoShare, joined, invites, queued>>

\* What was queued with the invitation stays queued.
CancelOutgoingInvite(me, u) ==
  /\ me # u
  /\ invites' = invites \ {<<me, u>>}
  /\ friends' = [friends EXCEPT ![{me, u}] = IF @ = me THEN "none" ELSE @]
  /\ UNCHANGED <<content, autoShare, joined, queued>>

\* An address with an account is befriended and granted at once; any other is
\* invited, and the grant queued.  Nothing asks whether the target still exists.
ShareTripByEmail(me, t, u, role) ==
  /\ me # u
  /\ UNCHANGED <<plan, autoShare, joined, planShare>>
  /\ IF u \in joined
     THEN /\ friends' = Requested(me, u)
          /\ trip' = IF IsLive(trip[t]) THEN [trip EXCEPT ![t].role[u] = role] ELSE trip
          /\ UNCHANGED <<invites, tripShare>>
     ELSE /\ invites' = invites \cup {<<me, u>>}
          /\ tripShare' = [tripShare EXCEPT ![u][t] = role]
          /\ UNCHANGED <<friends, trip>>

SharePlanByEmail(me, p, u) ==
  /\ me # u
  /\ UNCHANGED <<trip, autoShare, joined, tripShare>>
  /\ IF u \in joined
     THEN /\ friends' = Requested(me, u)
          /\ plan' = IF IsLive(plan[p])
                     THEN [plan EXCEPT ![p].manual = @ \cup {u}, ![p].viaTrip = @ \ {u}]
                     ELSE plan
          /\ UNCHANGED <<invites, planShare>>
     ELSE /\ invites' = invites \cup {<<me, u>>}
          /\ planShare' = planShare \cup {<<u, p>>}
          /\ UNCHANGED <<friends, plan>>

\* The foreign keys of trip_members and plan_passengers: a claim whose target
\* is gone aborts the transaction that makes it.
ClaimsSucceed(u) ==
  /\ \A t \in Trip : tripShare[u][t] # "none" => IsLive(trip[t])
  /\ \A p \in Plan : <<u, p>> \in planShare => IsLive(plan[p])

\* Claiming what is queued never overrides a row that is there already.
ClaimShares(u) ==
  /\ trip' = [t \in Trip |-> [trip[t] EXCEPT !.role[u] = IF @ = "none" THEN tripShare[u][t] ELSE @]]
  /\ plan' = [p \in Plan |-> IF <<u, p>> \in planShare /\ u \notin plan[p].viaTrip
                             THEN [plan[p] EXCEPT !.manual = @ \cup {u}] ELSE plan[p]]
  /\ tripShare' = [tripShare EXCEPT ![u] = [t \in Trip |-> "none"]]
  /\ planShare' = {s \in planShare : s[1] # u}

\* A slip: the invitations are claimed as pending requests, not friendships.
ClaimAsRequests(u) ==
  /\ friends' = [d \in Pair |-> IF \E i \in User : <<i, u>> \in invites /\ d = {i, u}
                                   /\ friends[d] = "none"
                                THEN CHOOSE i \in d : i # u ELSE friends[d]]
  /\ invites' = {s \in invites : s[2] # u}

ClaimInvites(u) ==
  /\ friends' = [d \in Pair |-> IF \E i \in User : <<i, u>> \in invites /\ d = {i, u}
                                THEN "accepted" ELSE friends[d]]
  /\ invites' = {s \in invites : s[2] # u}

\* Signing in (or verifying an address) makes the account and claims, in the
\* same transaction, everything queued for its address.
SignIn(u) ==
  /\ ClaimsSucceed(u)
  /\ joined' = joined \cup {u}
  /\ ClaimInvites(u)
  /\ ClaimShares(u)
  /\ UNCHANGED <<autoShare, inFlight>>

(***************************************************************************)
(* The program                                                             *)
(***************************************************************************)
Execute(r) ==
  \/ r.op = "createTrip" /\ CreateTrip(r.me, r.trip)
  \/ r.op = "deleteTrip" /\ DeleteTrip(r.trip)
  \/ r.op = "addTripMember" /\ AddTripMember(r.trip, r.user, r.role)
  \/ r.op = "removeTripMember" /\ RemoveTripMember(r.trip, r.user)
  \/ r.op = "setTripShareAllFriends" /\ SetTripShareAllFriends(r.trip, r.role)
  \/ r.op = "addTripPassenger" /\ AddTripPassenger(r.trip, r.user)
  \/ r.op = "removeTripPassenger" /\ RemoveTripPassenger(r.trip, r.user)
  \/ r.op = "setAutoShare" /\ SetAutoShare(r.me, r.user, r.role)
  \/ r.op = "removeAutoShare" /\ RemoveAutoShare(r.me, r.user)
  \/ r.op = "createPlan" /\ CreatePlan(r.me, r.trip, r.plan)
  \/ r.op = "deletePlan" /\ DeletePlan(r.plan)
  \/ r.op = "movePlan" /\ MovePlan(r.plan, r.trip)
  \/ r.op = "linkPlans" /\ LinkPlans(r.plan, r.other)
  \/ r.op = "splitPlanPart" /\ SplitPlanPart(r.plan, r.other)
  \/ r.op = "addPlanPassenger" /\ AddPlanPassenger(r.plan, r.user)
  \/ r.op = "removePlanPassenger" /\ RemovePlanPassenger(r.plan, r.user)
  \/ r.op = "setPlanVisibility" /\ SetPlanVisibility(r.plan, r.mode, r.named)
  \/ r.op = "setPlanShareAllFriends" /\ SetPlanShareAllFriends(r.plan, r.flag)
  \/ r.op = "inviteFriend" /\ InviteFriend(r.me, r.user)
  \/ r.op = "acceptFriend" /\ AcceptFriendship(r.me, r.user)
  \/ r.op = "removeFriend" /\ RemoveFriendship(r.me, r.user)
  \/ r.op = "cancelOutgoingInvite" /\ CancelOutgoingInvite(r.me, r.user)
  \/ r.op = "shareTripByEmail" /\ ShareTripByEmail(r.me, r.trip, r.user, r.role)
  \/ r.op = "sharePlanByEmail" /\ SharePlanByEmail(r.me, r.plan, r.user)

\* Nothing comes between the check and the transaction,
Serve(r) == Authorised(r) /\ Execute(r) /\ UNCHANGED inFlight

\* or something does,
Suspend(r) ==
  /\ inFlight \cup {r} \in Suspended
  /\ Authorised(r)
  /\ inFlight' = inFlight \cup {r}
  /\ UNCHANGED <<content, autoShare, people, queued>>

\* and the transaction runs on a check that may have gone stale,
Resume(r) == Execute(r) /\ inFlight' = inFlight \ {r}

\* or the client has gone or the database refused.
Abandon(r) == inFlight' = inFlight \ {r} /\ UNCHANGED <<content, autoShare, people, queued>>

Next ==
  \/ \E r \in Requests : Serve(r) \/ Suspend(r)
  \/ \E r \in inFlight : Resume(r) \/ Abandon(r)
  \/ \E u \in User : SignIn(u)

Spec == Init /\ [][Next]_vars

(***************************************************************************)
(* Properties                                                              *)
(***************************************************************************)
\* The rows the schema admits; a passenger is on a plan in one way only.
TypeOK ==
  /\ trip \in [Trip -> TripType]
  /\ plan \in [Plan -> PlanType]
  /\ autoShare \in [User -> [User -> GrantRole \cup {"none", "passenger"}]]
  /\ joined \subseteq User
  /\ friends \in [Pair -> User \cup {"none", "accepted"}]
  /\ invites \subseteq User \X User
  /\ tripShare \in [User -> [Trip -> GrantRole \cup {"none"}]]
  /\ planShare \subseteq User \X Plan
  /\ inFlight \subseteq Requests
  /\ \A p \in Plan : plan[p].manual \cap plan[p].viaTrip = {}

\* Someone travelling on the whole trip is on every plan of it they may see,
\* whatever order plans, passengers and privacy changes come in
\* (AddTripPassenger, CreatePlan, SetPlanVisibility, RemovePlanPassenger,
\* SplitPlanPart).  A plan moved in from another trip is the one exception.
TravellersOnBoard ==
  \A p \in Plan : IsLive(plan[p]) /\ ~plan[p].moved =>
    trip[plan[p].trip].passengers \cap VisibleToMembers(p) \subseteq Passengers(p)

\* A derived passenger row always has its cause: its user travels on the trip,
\* and the plan is not hidden from them.  A plan that was moved may carry rows
\* of the trip it came from.
DerivedRowsHaveACause ==
  \A p \in Plan : IsLive(plan[p]) =>
    /\ plan[p].viaTrip \subseteq VisibleToMembers(p)
    /\ plan[p].moved \/ plan[p].viaTrip \subseteq trip[plan[p].trip].passengers

\* A plan hidden from someone stays hidden from them, passenger of the trip or
\* not, unless it was shared with them on purpose: they own the trip, made the
\* plan, were put on it by hand, or it is open to all friends.
HiddenStaysHidden ==
  \A p \in Plan, u \in User :
    /\ IsLive(plan[p])
    /\ u \notin VisibleToMembers(p) \cup plan[p].manual
    /\ u \notin {plan[p].createdBy, trip[plan[p].trip].createdBy}
    /\ ~plan[p].allFriends
    => ~CanViewPlan(p, u)

\* The trip's tile shows exactly to those who can see one of its plans or hold
\* a grant on the trip (CanViewTrip and planVisibleExpr are separate queries).
TileMatchesPlans ==
  \A t \in Trip, u \in User :
    IsLive(trip[t]) =>
      (CanViewTrip(t, u) <=>
         \/ trip[t].createdBy = u
         \/ Friend(trip[t].createdBy, u) /\ TripGrant(t, u)
         \/ \E p \in PlansOf(t) : CanViewPlan(p, u))

\* Splitting a leg out never lets anyone see it who could not see it before.
SplitNeverWidens ==
  [][\A p, q \in Plan, u \in User :
       SplitPlanPart(p, q) /\ CanViewPlan(q, u)' => CanViewPlan(p, u)]_vars

\* addTripMember and a share by e-mail write the role they name over the one
\* that is there, an owner's too, and count nobody.
Demotes(r) == r.op \in {"addTripMember", "shareTripByEmail"} /\ r.role # "owner"
MayOwn(t) ==
  {r.me : r \in {q \in Requests : q.op = "createTrip" /\ q.trip = t}}
  \cup {r.user : r \in {q \in Requests : q.op = "addTripMember" /\ q.role = "owner" /\ q.trip = t}}
NoDemotion == \A r \in Requests : Demotes(r) => r.user \notin MayOwn(r.trip)

\* The last owner of a trip goes with it, or is given a lesser role.
LastOwnerIsDemoted ==
  [][\A t \in Trip :
       IsLive(trip[t]) /\ Owners(t) # {} /\ IsLive(trip[t])' /\ Owners(t)' = {} =>
         \E r \in Requests : Demotes(r) /\ r.trip = t /\ Owners(t) = {r.user}]_vars

\* No trip is left without an owner (RemoveTripMember's ErrLastOwner), unless
\* somebody is demoted (NoDemotion).
TripsKeepAnOwner == \A t \in Trip : IsLive(trip[t]) => Owners(t) # {}

\* What the owner of a trip queued for an invited address shows as soon as its
\* owner signs in: invitation and share are claimed together.
PreSharesLightUp ==
  [][\A u \in User, t \in Trip :
       SignIn(u) /\ IsLive(trip[t]) /\ <<trip[t].createdBy, u>> \in invites =>
         /\ tripShare[u][t] # "none" => CanViewTrip(t, u)'
         /\ \A p \in PlansOf(t) : <<u, p>> \in planShare => CanViewPlan(p, u)']_vars
=============================================================================
