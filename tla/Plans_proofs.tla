---------------------------- MODULE Plans_proofs ----------------------------
(* Proofs about the plans of a trip: who sees them and rides in them         *)
(* (TripSharing), and when their parts are (PartTimes).  The two modules     *)
(* share no state; each theorem is about one of them.                        *)
EXTENDS TripSharing, PartTimes, TLAPS

\* TypeOK without the requests in flight, conjunct by conjunct.
TripsOK == trip \in [Trip -> TripType]
PlanRow == {row \in PlanType : row.manual \cap row.viaTrip = {}}
PlansOK == plan \in [Plan -> PlanRow]
PeopleOK ==
  /\ joined \subseteq User
  /\ friends \in [Pair -> User \cup {"none", "accepted"}]
  /\ invites \subseteq User \X User
QueuedOK ==
  /\ tripShare \in [User -> [Trip -> GrantRole \cup {"none"}]]
  /\ planShare \subseteq User \X Plan
AutoShareOK == autoShare \in [User -> [User -> GrantRole \cup {"none", "passenger"}]]
RowsOK == TripsOK /\ PlansOK /\ PeopleOK /\ QueuedOK /\ AutoShareOK

LEMMA RequestFields ==
  ASSUME NEW r \in Requests
  PROVE  /\ r.me \in User /\ r.trip \in Trip /\ r.plan \in Plan /\ r.other \in Plan
         /\ r.user \in User /\ r.mode \in Mode /\ r.named \in SUBSET User /\ r.flag \in BOOLEAN
         /\ r.role \in RoleFor(r.op)
  BY SharingAssumption DEF RequestType

LEMMA BlankRows ==
  ASSUME NEW life \in Life
  PROVE  NoTrip(life) \in TripType /\ NoPlan(life) \in PlanRow
  BY DEF NoTrip, NoPlan, TripType, PlanType, PlanRow, Role, GrantRole, Mode

\* A trip's row after a passenger joined or left.
LEMMA BoardingRow ==
  ASSUME NEW row \in TripType, NEW u \in User
  PROVE  Boarded(row, u) \in TripType
  BY DEF Boarded, TripType, Role, GrantRole

LEMMA LandedRow ==
  ASSUME NEW row \in TripType, NEW u \in User, NEW free
  PROVE  Landed(row, u, free) \in TripType
  BY DEF Landed, TripType, Role, GrantRole

LEMMA Replace ==
  ASSUME NEW S, NEW T, NEW f \in [S -> T], NEW x \in S, NEW row \in T
  PROVE  [f EXCEPT ![x] = row] \in [S -> T]
  OBVIOUS

LEMMA TripsStayTyped ==
  ASSUME RowsOK, NEW r \in Requests, Execute(r)
  PROVE  TripsOK'
<1>a. r.trip \in Trip /\ r.user \in User /\ r.me \in User /\ r.role \in RoleFor(r.op)
  BY RequestFields
<1>b. NoTrip("deleted") \in TripType
  BY BlankRows DEF Life
<1>c. trip \in [Trip -> TripType] /\ trip[r.trip] \in TripType
  BY <1>a DEF RowsOK, TripsOK
<1>d. trip[r.trip].role \in [User -> Role] /\ trip[r.trip].role[r.user] \in Role
  BY <1>a, <1>c DEF TripType
<1>1. CASE r.op = "createTrip" /\ CreateTrip(r.me, r.trip)
  BY <1>1, <1>a, <1>c DEF CreateTrip, AutoShareOK, Life, RowsOK, TripsOK, TripType, Role, GrantRole
<1>2. CASE r.op = "deleteTrip" /\ DeleteTrip(r.trip)
  BY <1>2, <1>a, <1>b, <1>c DEF DeleteTrip, TripsOK
<1>3. CASE r.op = "addTripMember" /\ AddTripMember(r.trip, r.user, r.role)
  <2>1. r.role \in Role
    BY <1>3, <1>a DEF RoleFor, GrantRole, Role
  <2> QED
    BY <1>3, <1>a, <1>c, <2>1 DEF AddTripMember, TripsOK, TripType
<1>4. CASE r.op = "removeTripMember" /\ RemoveTripMember(r.trip, r.user)
  BY <1>4, <1>a, <1>c DEF RemoveTripMember, TripsOK, TripType, Role
<1>5. CASE r.op = "setTripShareAllFriends" /\ SetTripShareAllFriends(r.trip, r.role)
  <2>1. r.role \in GrantRole \cup {"none"}
    BY <1>5, <1>a DEF RoleFor
  <2> QED
    BY <1>5, <1>a, <1>c, <2>1 DEF SetTripShareAllFriends, TripsOK, TripType
<1>6. CASE r.op = "addTripPassenger" /\ AddTripPassenger(r.trip, r.user)
  <2>1. trip' = [trip EXCEPT ![r.trip] = Boarded(trip[r.trip], r.user)]
    BY <1>6 DEF AddTripPassenger
  <2>2. Boarded(trip[r.trip], r.user) \in TripType
    BY <1>a, <1>c, BoardingRow
  <2> QED
    BY <2>1, <2>2, <1>a, <1>c, Replace DEF TripsOK
<1>7. CASE r.op = "removeTripPassenger" /\ RemoveTripPassenger(r.trip, r.user)
  <2> DEFINE manual == \E p \in PlansOf(r.trip) : r.user \in plan[p].manual
  <2>1. trip' = [trip EXCEPT ![r.trip] = Landed(trip[r.trip], r.user, manual)]
    BY <1>7 DEF RemoveTripPassenger
  <2> HIDE DEF manual
  <2>2. Landed(trip[r.trip], r.user, manual) \in TripType
    BY <1>a, <1>c, LandedRow
  <2> QED
    BY <2>1, <2>2, <1>a, <1>c, Replace DEF TripsOK
<1>8. CASE r.op = "shareTripByEmail" /\ ShareTripByEmail(r.me, r.trip, r.user, r.role)
  <2>1. r.role \in Role
    BY <1>8, <1>a DEF RoleFor, GrantRole, Role
  <2>2. trip' = trip \/ trip' = [trip EXCEPT ![r.trip].role[r.user] = r.role]
    BY <1>8 DEF ShareTripByEmail
  <2>3. [trip EXCEPT ![r.trip].role[r.user] = r.role] \in [Trip -> TripType]
    BY <2>1, <1>a, <1>c DEF TripType
  <2> QED
    BY <2>2, <2>3, <1>c DEF TripsOK
<1>9. CASE UNCHANGED trip
  BY <1>9, <1>c DEF TripsOK
<1> QED
  BY <1>1, <1>2, <1>3, <1>4, <1>5, <1>6, <1>7, <1>8, <1>9
  DEF Execute, SetAutoShare, RemoveAutoShare, CreatePlan, DeletePlan, MovePlan, LinkPlans,
      SplitPlanPart, AddPlanPassenger, RemovePlanPassenger, SetPlanVisibility,
      SetPlanShareAllFriends, InviteFriend, AcceptFriendship, RemoveFriendship,
      CancelOutgoingInvite, SharePlanByEmail, content

\* A plan's row after its passengers, its flags or its legs were written.
LEMMA PassengerRow ==
  ASSUME NEW row \in PlanRow, NEW u \in User
  PROVE  /\ [row EXCEPT !.manual = @ \cup {u}, !.viaTrip = @ \ {u}] \in PlanRow
         /\ u \notin row.manual => [row EXCEPT !.viaTrip = @ \cup {u}] \in PlanRow
         /\ u \notin row.viaTrip => [row EXCEPT !.manual = @ \cup {u}] \in PlanRow
         /\ [row EXCEPT !.viaTrip = @ \ {u}] \in PlanRow
         /\ \A b \in BOOLEAN :
              [row EXCEPT !.manual = @ \ {u},
                          !.viaTrip = IF b THEN @ \cup {u} ELSE @ \ {u}] \in PlanRow
  BY DEF PlanRow, PlanType

LEMMA PrivacyRow ==
  ASSUME NEW row \in PlanRow, NEW mode \in Mode, NEW who \in SUBSET User,
         NEW passengers, NEW seen \in SUBSET User
  PROVE  [row EXCEPT !.mode = mode, !.named = who,
                     !.viaTrip = (@ \cup (passengers \ row.manual)) \cap seen] \in PlanRow
  BY DEF PlanRow, PlanType

LEMMA PlanFields ==
  ASSUME NEW row \in PlanRow
  PROVE  /\ [row EXCEPT !.legs = 1, !.allFriends = FALSE] \in PlanRow
         /\ \A b \in BOOLEAN : [row EXCEPT !.allFriends = b] \in PlanRow
         /\ \A t \in Trip, b \in BOOLEAN : [row EXCEPT !.trip = t, !.moved = b] \in PlanRow
         /\ row.legs \in Nat /\ row.moved \in BOOLEAN
         /\ row.manual \in SUBSET User /\ row.viaTrip \in SUBSET User
  BY DEF PlanRow, PlanType

LEMMA LegsRow ==
  ASSUME NEW row \in PlanRow, NEW n \in Nat
  PROVE  [row EXCEPT !.legs = n] \in PlanRow
  BY DEF PlanRow, PlanType

LEMMA NewRow ==
  ASSUME NEW me \in User, NEW t \in Trip, NEW aboard \in SUBSET User
  PROVE  NewPlan(me, t, aboard) \in PlanRow
  BY SharingAssumption DEF NewPlan, NoPlan, PlanRow, PlanType, Life, Mode

LEMMA PlansStayTyped ==
  ASSUME RowsOK, NEW r \in Requests, Execute(r)
  PROVE  PlansOK'
<1>a. /\ r.trip \in Trip /\ r.user \in User /\ r.me \in User /\ r.plan \in Plan
      /\ r.other \in Plan /\ r.mode \in Mode /\ r.named \in SUBSET User /\ r.flag \in BOOLEAN
  BY RequestFields
<1>b. NoPlan("deleted") \in PlanRow
  BY BlankRows DEF Life
<1>c. plan \in [Plan -> PlanRow] /\ \A p \in Plan : plan[p] \in PlanRow
  BY DEF RowsOK, PlansOK
<1>d. plan[r.plan].legs \in Nat /\ plan[r.other].legs \in Nat
  BY <1>a, <1>c DEF PlanRow, PlanType
<1>e. trip[r.trip].passengers \in SUBSET User
  BY <1>a DEF RowsOK, TripsOK, TripType
<1>1. CASE r.op = "deleteTrip" /\ DeleteTrip(r.trip)
  BY <1>1, <1>b, <1>c DEF DeleteTrip, PlansOK
<1>2. CASE r.op = "addTripPassenger" /\ AddTripPassenger(r.trip, r.user)
  <2>1. ASSUME NEW p \in Plan, r.user \notin plan[p].manual
        PROVE  [plan[p] EXCEPT !.viaTrip = @ \cup {r.user}] \in PlanRow
    BY <2>1, <1>a, <1>c, PassengerRow
  <2>2. plan' = [p \in Plan |->
           IF plan[p].trip = r.trip /\ r.user \in VisibleToMembers(p) \ plan[p].manual
           THEN [plan[p] EXCEPT !.viaTrip = @ \cup {r.user}] ELSE plan[p]]
    BY <1>2 DEF AddTripPassenger
  <2>3. ASSUME NEW p \in Plan PROVE plan'[p] \in PlanRow
    BY <2>1, <2>2, <1>c
  <2> QED
    BY <2>2, <2>3 DEF PlansOK
<1>3. CASE r.op = "removeTripPassenger" /\ RemoveTripPassenger(r.trip, r.user)
  <2>1. plan' = [p \in Plan |->
           IF plan[p].trip = r.trip THEN [plan[p] EXCEPT !.viaTrip = @ \ {r.user}] ELSE plan[p]]
    BY <1>3 DEF RemoveTripPassenger
  <2>2. ASSUME NEW p \in Plan PROVE plan'[p] \in PlanRow
    <3>1. [plan[p] EXCEPT !.viaTrip = @ \ {r.user}] \in PlanRow
      BY <1>a, <1>c, PassengerRow
    <3> QED
      BY <3>1, <2>1, <1>c
  <2> QED
    BY <2>1, <2>2 DEF PlansOK
<1>4. CASE r.op = "createPlan" /\ CreatePlan(r.me, r.trip, r.plan)
  BY <1>4, <1>a, <1>c, <1>e, NewRow, Replace DEF CreatePlan, PlansOK
<1>5. CASE r.op = "deletePlan" /\ DeletePlan(r.plan)
  BY <1>5, <1>a, <1>b, <1>c, Replace DEF DeletePlan, PlansOK
<1>6. CASE r.op = "movePlan" /\ MovePlan(r.plan, r.trip)
  <2> DEFINE row == [plan[r.plan] EXCEPT !.trip = r.trip,
                                         !.moved = @ \/ plan[r.plan].trip # r.trip]
  <2>1. row \in PlanRow
    BY <1>a, <1>c, PlanFields
  <2>2. plan' = [plan EXCEPT ![r.plan] = row]
    BY <1>6, <1>a, <1>c DEF MovePlan
  <2> HIDE DEF row
  <2> QED
    BY <2>1, <2>2, <1>a, <1>c, Replace DEF PlansOK
<1>7. CASE r.op = "linkPlans" /\ LinkPlans(r.plan, r.other)
  <2> DEFINE n == plan[r.plan].legs + plan[r.other].legs
             row == [plan[r.plan] EXCEPT !.legs = n]
  <2>1. row \in PlanRow
    <3>1. n \in Nat
      BY <1>d
    <3> HIDE DEF n
    <3> QED
      BY <3>1, <1>a, <1>c, LegsRow
  <2>2. plan' = [[plan EXCEPT ![r.plan] = row] EXCEPT ![r.other] = NoPlan("deleted")]
    BY <1>7, <1>a, <1>c DEF LinkPlans
  <2> HIDE DEF row
  <2> QED
    BY <2>1, <2>2, <1>a, <1>b, <1>c, Replace DEF PlansOK
<1>8. CASE r.op = "splitPlanPart" /\ SplitPlanPart(r.plan, r.other)
  <2> DEFINE n == plan[r.plan].legs - 1
             row == [plan[r.plan] EXCEPT !.legs = n]
             leg == [plan[r.plan] EXCEPT !.legs = 1, !.allFriends = FALSE]
  <2>1. row \in PlanRow /\ leg \in PlanRow
    <3>1. n \in Nat
      BY <1>8, <1>d DEF SplitPlanPart
    <3> HIDE DEF n
    <3> QED
      BY <3>1, <1>a, <1>c, LegsRow, PlanFields
  <2>2. plan' = [[plan EXCEPT ![r.plan] = row] EXCEPT ![r.other] = leg]
    BY <1>8, <1>a, <1>c DEF SplitPlanPart
  <2> HIDE DEF row, leg
  <2> QED
    BY <2>1, <2>2, <1>a, <1>c, Replace DEF PlansOK
<1>9. CASE \/ r.op = "addPlanPassenger" /\ AddPlanPassenger(r.plan, r.user)
           \/ r.op = "sharePlanByEmail" /\ SharePlanByEmail(r.me, r.plan, r.user)
  <2> DEFINE row == [plan[r.plan] EXCEPT !.manual = @ \cup {r.user}, !.viaTrip = @ \ {r.user}]
  <2>1. row \in PlanRow
    BY <1>a, <1>c, PassengerRow
  <2>2. plan' = plan \/ plan' = [plan EXCEPT ![r.plan] = row]
    BY <1>9, <1>a, <1>c DEF AddPlanPassenger, SharePlanByEmail
  <2> HIDE DEF row
  <2> QED
    BY <2>1, <2>2, <1>a, <1>c, Replace DEF PlansOK
<1>10. CASE r.op = "removePlanPassenger" /\ RemovePlanPassenger(r.plan, r.user)
  <2> DEFINE stays == r.user \in VisibleToMembers(r.plan)
                                  \cap trip[plan[r.plan].trip].passengers
             row == [plan[r.plan] EXCEPT
                       !.manual = @ \ {r.user},
                       !.viaTrip = IF stays THEN @ \cup {r.user} ELSE @ \ {r.user}]
  <2>1. plan' = [plan EXCEPT ![r.plan] = row]
    BY <1>10, <1>a, <1>c DEF RemovePlanPassenger
  <2>2. stays \in BOOLEAN
    OBVIOUS
  <2> HIDE DEF stays
  <2>3. row \in PlanRow
    BY <2>2, <1>a, <1>c, PassengerRow
  <2> HIDE DEF row
  <2> QED
    BY <2>1, <2>3, <1>a, <1>c, Replace DEF PlansOK
<1>11. CASE r.op = "setPlanVisibility" /\ SetPlanVisibility(r.plan, r.mode, r.named)
  <2> DEFINE who == IF r.mode = "everyone" THEN {} ELSE r.named
             seen == Audience(r.mode, who)
             aboard == trip[plan[r.plan].trip].passengers
             row == [plan[r.plan] EXCEPT
                       !.mode = r.mode, !.named = who,
                       !.viaTrip = (@ \cup (aboard \ plan[r.plan].manual)) \cap seen]
  <2>1. plan' = [plan EXCEPT ![r.plan] = row]
    BY <1>11, <1>a, <1>c DEF SetPlanVisibility
  <2>2. who \in SUBSET User
    BY <1>a
  <2>3. seen \in SUBSET User
    BY DEF Audience
  <2> HIDE DEF who, seen, aboard
  <2>4. row \in PlanRow
    BY <2>2, <2>3, <1>a, <1>c, PrivacyRow
  <2> HIDE DEF row
  <2> QED
    BY <2>1, <2>4, <1>a, <1>c, Replace DEF PlansOK
<1>12. CASE r.op = "setPlanShareAllFriends" /\ SetPlanShareAllFriends(r.plan, r.flag)
  <2> DEFINE row == [plan[r.plan] EXCEPT !.allFriends = r.flag]
  <2>1. row \in PlanRow
    BY <1>a, <1>c, PlanFields
  <2>2. plan' = [plan EXCEPT ![r.plan] = row]
    BY <1>12, <1>a, <1>c DEF SetPlanShareAllFriends
  <2> HIDE DEF row
  <2> QED
    BY <2>1, <2>2, <1>a, <1>c, Replace DEF PlansOK
<1>13. CASE UNCHANGED plan
  BY <1>13, <1>c DEF PlansOK
<1> QED
  BY <1>1, <1>2, <1>3, <1>4, <1>5, <1>6, <1>7, <1>8, <1>9, <1>10, <1>11, <1>12, <1>13
  DEF Execute, CreateTrip, AddTripMember, RemoveTripMember, SetTripShareAllFriends,
      SetAutoShare, RemoveAutoShare, InviteFriend, AcceptFriendship, RemoveFriendship,
      CancelOutgoingInvite, ShareTripByEmail, content

LEMMA RequestedTyped ==
  ASSUME PeopleOK, NEW me \in User, NEW u \in User, me # u
  PROVE  Requested(me, u) \in [Pair -> User \cup {"none", "accepted"}]
<1> DEFINE d == {me, u}
           answer == CASE friends[d] = "none" -> me
                       [] friends[d] \in {"accepted", me} -> friends[d]
                       [] OTHER -> "accepted"
<1>1. d \in Pair
  BY DEF Pair
<1>2. friends[d] \in User \cup {"none", "accepted"}
  BY <1>1 DEF PeopleOK
<1>3. answer \in User \cup {"none", "accepted"}
  BY <1>2
<1>4. Requested(me, u) = [friends EXCEPT ![d] = answer]
  BY DEF Requested
<1> HIDE DEF d, answer
<1> QED
  BY <1>1, <1>3, <1>4, Replace DEF PeopleOK

LEMMA PeopleStayTyped ==
  ASSUME RowsOK, NEW r \in Requests, Execute(r)
  PROVE  PeopleOK'
<1>a. r.user \in User /\ r.me \in User
  BY RequestFields
<1>b. /\ PeopleOK /\ joined \subseteq User /\ invites \subseteq User \X User
      /\ friends \in [Pair -> User \cup {"none", "accepted"}]
  BY DEF RowsOK, PeopleOK
<1>1. CASE \/ r.op = "inviteFriend" /\ InviteFriend(r.me, r.user)
           \/ r.op = "shareTripByEmail" /\ ShareTripByEmail(r.me, r.trip, r.user, r.role)
           \/ r.op = "sharePlanByEmail" /\ SharePlanByEmail(r.me, r.plan, r.user)
  <2>1. joined' = joined /\ r.me # r.user
    BY <1>1 DEF InviteFriend, ShareTripByEmail, SharePlanByEmail
  <2>2. \/ friends' = Requested(r.me, r.user) /\ invites' = invites
        \/ friends' = friends /\ invites' = invites \cup {<<r.me, r.user>>}
    BY <1>1 DEF InviteFriend, ShareTripByEmail, SharePlanByEmail
  <2>3. Requested(r.me, r.user) \in [Pair -> User \cup {"none", "accepted"}]
    BY <2>1, <1>a, <1>b, RequestedTyped
  <2> QED
    BY <2>1, <2>2, <2>3, <1>a, <1>b DEF PeopleOK
<1>2. CASE r.op = "acceptFriend" /\ AcceptFriendship(r.me, r.user)
  BY <1>2, <1>a, <1>b, Replace DEF AcceptFriendship, PeopleOK
<1>3. CASE r.op = "removeFriend" /\ RemoveFriendship(r.me, r.user)
  BY <1>3, <1>a, <1>b, Replace DEF RemoveFriendship, PeopleOK
<1>4. CASE r.op = "cancelOutgoingInvite" /\ CancelOutgoingInvite(r.me, r.user)
  <2>1. {r.me, r.user} \in Pair
    BY <1>4, <1>a DEF CancelOutgoingInvite, Pair
  <2> DEFINE d == {r.me, r.user}
             left == IF friends[d] = r.me THEN "none" ELSE friends[d]
  <2>2. friends' = [friends EXCEPT ![d] = left]
    BY <1>4 DEF CancelOutgoingInvite
  <2>3. left \in User \cup {"none", "accepted"}
    BY <2>1, <1>b
  <2>4. joined' = joined /\ invites' \subseteq invites
    BY <1>4 DEF CancelOutgoingInvite
  <2> HIDE DEF d, left
  <2>5. friends' \in [Pair -> User \cup {"none", "accepted"}]
    BY <2>2, <2>3, <1>b
  <2> QED
    BY <2>4, <2>5, <1>b DEF PeopleOK
<1>5. CASE UNCHANGED people
  BY <1>5, <1>b DEF PeopleOK, people
<1> QED
  BY <1>1, <1>2, <1>3, <1>4, <1>5
  DEF Execute, CreateTrip, DeleteTrip, AddTripMember, RemoveTripMember, SetTripShareAllFriends,
      AddTripPassenger, RemoveTripPassenger, SetAutoShare, RemoveAutoShare, CreatePlan,
      DeletePlan, MovePlan, LinkPlans, SplitPlanPart, AddPlanPassenger, RemovePlanPassenger,
      SetPlanVisibility, SetPlanShareAllFriends

LEMMA QueuedStayTyped ==
  ASSUME RowsOK, NEW r \in Requests, Execute(r)
  PROVE  QueuedOK' /\ AutoShareOK'
<1>a. /\ r.user \in User /\ r.me \in User /\ r.trip \in Trip /\ r.plan \in Plan
      /\ r.role \in RoleFor(r.op)
  BY RequestFields
<1>b. QueuedOK /\ AutoShareOK
  BY DEF RowsOK
<1>1. CASE r.op = "shareTripByEmail" /\ ShareTripByEmail(r.me, r.trip, r.user, r.role)
  <2>1. r.role \in GrantRole
    BY <1>1, <1>a DEF RoleFor
  <2>2. /\ planShare' = planShare /\ autoShare' = autoShare
        /\ tripShare' = tripShare \/ tripShare' = [tripShare EXCEPT ![r.user][r.trip] = r.role]
    BY <1>1 DEF ShareTripByEmail
  <2> DEFINE row == [tripShare[r.user] EXCEPT ![r.trip] = r.role]
  <2>3. row \in [Trip -> GrantRole \cup {"none"}]
    BY <2>1, <1>a, <1>b DEF QueuedOK
  <2>4. tripShare' = tripShare \/ tripShare' = [tripShare EXCEPT ![r.user] = row]
    BY <2>2
  <2> HIDE DEF row
  <2>5. QueuedOK'
    BY <2>2, <2>3, <2>4, <1>b DEF QueuedOK
  <2> QED
    BY <2>2, <2>5, <1>b DEF AutoShareOK
<1>2. CASE r.op = "sharePlanByEmail" /\ SharePlanByEmail(r.me, r.plan, r.user)
  <2>1. /\ tripShare' = tripShare /\ autoShare' = autoShare
        /\ planShare' = planShare \/ planShare' = planShare \cup {<<r.user, r.plan>>}
    BY <1>2 DEF SharePlanByEmail
  <2> QED
    BY <2>1, <1>a, <1>b DEF QueuedOK, AutoShareOK
<1>3. CASE r.op = "setAutoShare" /\ SetAutoShare(r.me, r.user, r.role)
  <2>1. r.role \in GrantRole \cup {"none", "passenger"}
    BY <1>3, <1>a DEF RoleFor
  <2>2. autoShare' = [autoShare EXCEPT ![r.me][r.user] = r.role] /\ UNCHANGED queued
    BY <1>3 DEF SetAutoShare
  <2>3. AutoShareOK'
    BY <2>1, <2>2, <1>a, <1>b DEF AutoShareOK
  <2> QED
    BY <2>2, <2>3, <1>b DEF QueuedOK, queued
<1>4. CASE r.op = "removeAutoShare" /\ RemoveAutoShare(r.me, r.user)
  BY <1>4, <1>a, <1>b DEF RemoveAutoShare, QueuedOK, AutoShareOK, queued
<1>5. CASE UNCHANGED <<autoShare, queued>>
  BY <1>5, <1>b DEF QueuedOK, AutoShareOK, queued
<1> QED
  BY <1>1, <1>2, <1>3, <1>4, <1>5
  DEF Execute, CreateTrip, DeleteTrip, AddTripMember, RemoveTripMember, SetTripShareAllFriends,
      AddTripPassenger, RemoveTripPassenger, CreatePlan, DeletePlan, MovePlan, LinkPlans,
      SplitPlanPart, AddPlanPassenger, RemovePlanPassenger, SetPlanVisibility,
      SetPlanShareAllFriends, InviteFriend, AcceptFriendship, RemoveFriendship,
      CancelOutgoingInvite

LEMMA SignInStaysTyped ==
  ASSUME RowsOK, NEW u \in User, SignIn(u)
  PROVE  RowsOK'
<1>1. TripsOK'
  <2>1. ASSUME NEW t \in Trip
        PROVE  [trip[t] EXCEPT !.role[u] = IF @ = "none" THEN tripShare[u][t] ELSE @] \in TripType
    <3>1. trip[t] \in TripType /\ tripShare[u][t] \in Role
      BY DEF RowsOK, TripsOK, QueuedOK, Role
    <3> QED
      BY <3>1 DEF TripType
  <2> QED
    BY <2>1 DEF SignIn, ClaimShares, TripsOK
<1>2. PlansOK'
  <2>1. ASSUME NEW p \in Plan, u \notin plan[p].viaTrip
        PROVE  [plan[p] EXCEPT !.manual = @ \cup {u}] \in PlanRow
    BY <2>1, PassengerRow DEF RowsOK, PlansOK
  <2>2. ASSUME NEW p \in Plan PROVE plan'[p] \in PlanRow
    BY <2>1 DEF SignIn, ClaimShares, RowsOK, PlansOK
  <2> QED
    BY <2>2 DEF SignIn, ClaimShares, PlansOK
<1>3. PeopleOK'
  BY DEF SignIn, ClaimInvites, PeopleOK, RowsOK
<1>4. QueuedOK'
  BY DEF SignIn, ClaimShares, QueuedOK, RowsOK
<1>5. AutoShareOK'
  BY DEF SignIn, AutoShareOK, RowsOK
<1> QED
  BY <1>1, <1>2, <1>3, <1>4, <1>5 DEF RowsOK

\* The invariant of the rows and of the requests that wait for them.
TypeInv == RowsOK /\ inFlight \subseteq Requests

LEMMA TypeInvHolds == TypeInv <=> TypeOK
<1>1. PlansOK <=> plan \in [Plan -> PlanType] /\ \A p \in Plan : plan[p].manual \cap plan[p].viaTrip = {}
  BY DEF PlansOK, PlanRow
<1> QED
  BY <1>1 DEF TypeInv, TypeOK, RowsOK, TripsOK, PeopleOK, QueuedOK, AutoShareOK

LEMMA TypeInvInit == Init => TypeInv
<1> SUFFICES ASSUME Init PROVE TypeInv
  OBVIOUS
<1>1. NoTrip("unborn") \in TripType /\ NoPlan("unborn") \in PlanRow
  BY BlankRows DEF Life
<1>2. TripsOK /\ PlansOK
  BY <1>1 DEF Init, TripsOK, PlansOK
<1>3. PeopleOK
  BY SharingAssumption DEF Init, PeopleOK
<1>4. QueuedOK /\ AutoShareOK
  BY DEF Init, QueuedOK, AutoShareOK
<1> QED
  BY <1>2, <1>3, <1>4 DEF Init, TypeInv, RowsOK

LEMMA TypeInvNext ==
  ASSUME TypeInv, [Next]_vars
  PROVE  TypeInv'
<1>1. ASSUME NEW r \in Requests, Execute(r) PROVE RowsOK'
  BY <1>1, TripsStayTyped, PlansStayTyped, PeopleStayTyped, QueuedStayTyped DEF TypeInv, RowsOK
<1>2. ASSUME NEW u \in User, SignIn(u) PROVE RowsOK'
  BY <1>2, SignInStaysTyped DEF TypeInv
<1>3. ASSUME UNCHANGED <<content, autoShare, people, queued>> PROVE RowsOK'
  BY <1>3 DEF TypeInv, RowsOK, TripsOK, PlansOK, PeopleOK, QueuedOK, AutoShareOK,
              content, people, queued
<1>4. CASE \E r \in Requests : Serve(r) \/ Suspend(r)
  <2>1. inFlight' \subseteq Requests
    BY <1>4 DEF TypeInv, Serve, Suspend
  <2> QED
    BY <2>1, <1>1, <1>3, <1>4 DEF TypeInv, Serve, Suspend
<1>5. CASE \E r \in inFlight : Resume(r) \/ Abandon(r)
  <2>1. inFlight' \subseteq Requests
    BY <1>5 DEF TypeInv, Resume, Abandon
  <2> QED
    BY <2>1, <1>1, <1>3, <1>5 DEF TypeInv, Resume, Abandon
<1>6. CASE \E u \in User : SignIn(u)
  <2>1. inFlight' \subseteq Requests
    BY <1>6 DEF TypeInv, SignIn
  <2> QED
    BY <2>1, <1>2, <1>6 DEF TypeInv
<1>7. CASE UNCHANGED vars
  BY <1>3, <1>7 DEF TypeInv, vars
<1> QED
  BY <1>4, <1>5, <1>6, <1>7 DEF Next

\* Every reachable state is one the schema admits, and no passenger is on a plan
\* both by hand and through the trip (plan_passengers' primary key).
THEOREM TypeCorrect == Spec => []TypeOK
<1> QED
  BY TypeInvInit, TypeInvNext, TypeInvHolds, PTL DEF Spec

----------------------------------------------------------------------------
(* The invariant behind TravellersOnBoard, DerivedRowsHaveACause,
   HiddenStaysHidden and TileMatchesPlans *)

\* A plan's row agrees with the passengers of its trip, tr[row.trip].
Manifest(row, passengers) ==
  /\ row.viaTrip \subseteq Audience(row.mode, row.named)
  /\ ~row.moved =>
       /\ row.viaTrip \subseteq passengers
       /\ passengers \cap Audience(row.mode, row.named) \subseteq row.manual \cup row.viaTrip

\* A live plan belongs to a live trip; any other has neither trip nor passengers.
Sound(row, tr) ==
  IF IsLive(row)
  THEN row.trip \in Trip /\ IsLive(tr[row.trip]) /\ Manifest(row, tr[row.trip].passengers)
  ELSE row.trip = None /\ row.manual = {} /\ row.viaTrip = {}

AllSound == \A p \in Plan : Sound(plan[p], trip)

\* Trips that keep their life and their passengers keep their plans sound.
LEMMA SameTrips ==
  ASSUME NEW tr1, NEW tr2, NEW row,
         \A t \in Trip : tr1[t].life = tr2[t].life /\ tr1[t].passengers = tr2[t].passengers,
         Sound(row, tr1)
  PROVE  Sound(row, tr2)
  BY DEF Sound, IsLive

LEMMA BlankSound ==
  ASSUME NEW tr, NEW life \in Life, life # "live"
  PROVE  Sound(NoPlan(life), tr)
  BY DEF Sound, NoPlan, IsLive

\* The rows the actions write, one lemma for each kind of write.
LEMMA ManualSound ==
  ASSUME NEW row \in PlanRow, NEW u \in User, NEW tr, Sound(row, tr), IsLive(row)
  PROVE  /\ Sound([row EXCEPT !.manual = @ \cup {u}, !.viaTrip = @ \ {u}], tr)
         /\ Sound([row EXCEPT !.manual = @ \cup {u}], tr)
  BY DEF Sound, Manifest, IsLive, PlanRow, PlanType

LEMMA FlagsSound ==
  ASSUME NEW row \in PlanRow, NEW tr, NEW n \in Nat, NEW b \in BOOLEAN, Sound(row, tr)
  PROVE  /\ Sound([row EXCEPT !.legs = n], tr)
         /\ Sound([row EXCEPT !.legs = n, !.allFriends = b], tr)
         /\ Sound([row EXCEPT !.allFriends = b], tr)
  BY DEF Sound, Manifest, IsLive, PlanRow, PlanType

LEMMA RemovedSound ==
  ASSUME NEW row \in PlanRow, NEW tr, NEW u \in User, NEW stays \in BOOLEAN,
         Sound(row, tr), IsLive(row),
         stays <=> u \in Audience(row.mode, row.named) \cap tr[row.trip].passengers
  PROVE  Sound([row EXCEPT !.manual = @ \ {u},
                           !.viaTrip = IF stays THEN @ \cup {u} ELSE @ \ {u}], tr)
  BY DEF Sound, Manifest, IsLive, PlanRow, PlanType

LEMMA PrivacySound ==
  ASSUME NEW row \in PlanRow, NEW tr, NEW mode \in Mode, NEW who \in SUBSET User,
         NEW aboard, aboard = tr[row.trip].passengers, Sound(row, tr), IsLive(row)
  PROVE  Sound([row EXCEPT !.mode = mode, !.named = who,
                           !.viaTrip = (@ \cup (aboard \ row.manual)) \cap Audience(mode, who)], tr)
  BY DEF Sound, Manifest, IsLive, PlanRow, PlanType

LEMMA MovedSound ==
  ASSUME NEW row \in PlanRow, NEW tr, NEW t \in Trip, Sound(row, tr), IsLive(row), IsLive(tr[t])
  PROVE  Sound([row EXCEPT !.trip = t, !.moved = @ \/ row.trip # t], tr)
  BY DEF Sound, Manifest, IsLive, PlanRow, PlanType

LEMMA NewSound ==
  ASSUME NEW me \in User, NEW tr, NEW t \in Trip, IsLive(tr[t]),
         NEW aboard, aboard = tr[t].passengers, aboard \subseteq User
  PROVE  Sound(NewPlan(me, t, aboard), tr)
  BY SharingAssumption DEF Sound, Manifest, IsLive, NewPlan, NoPlan, Audience

\* Writing one plan, the trips being left alone.
LEMMA OnePlan ==
  ASSUME AllSound, UNCHANGED trip, PlansOK,
         NEW p \in Plan, NEW row, Sound(row, trip), plan' = [plan EXCEPT ![p] = row]
  PROVE  AllSound'
  BY DEF AllSound, PlansOK, Sound

\* Writing two plans.
LEMMA TwoPlans ==
  ASSUME AllSound, UNCHANGED trip, PlansOK,
         NEW p \in Plan, NEW q \in Plan, NEW row, NEW leg, Sound(row, trip), Sound(leg, trip),
         plan' = [[plan EXCEPT ![p] = row] EXCEPT ![q] = leg]
  PROVE  AllSound'
  BY DEF AllSound, PlansOK, Sound

LEMMA LegsAreNat ==
  ASSUME NEW row \in PlanRow
  PROVE  row.legs \in Nat
  BY DEF PlanRow, PlanType

\* One step of a request keeps every plan sound: one case per operation that
\* writes a plan, a trip's life or a trip's passengers.
LEMMA RequestsKeepSound ==
  ASSUME RowsOK, AllSound, NEW r \in Requests, Execute(r)
  PROVE  AllSound'
<1>a. /\ r.trip \in Trip /\ r.user \in User /\ r.me \in User /\ r.plan \in Plan
      /\ r.other \in Plan /\ r.mode \in Mode /\ r.named \in SUBSET User /\ r.flag \in BOOLEAN
  BY RequestFields
<1>b. /\ PlansOK /\ \A p \in Plan : plan[p] \in PlanRow /\ Sound(plan[p], trip)
      /\ trip \in [Trip -> TripType] /\ plan \in [Plan -> PlanRow]
  BY DEF RowsOK, TripsOK, PlansOK, AllSound
<1>c. ASSUME UNCHANGED plan,
             \A t \in Trip : trip'[t].life = trip[t].life /\ trip'[t].passengers = trip[t].passengers
      PROVE  AllSound'
  BY <1>c, <1>b, SameTrips DEF AllSound
<1>1. CASE r.op = "createTrip" /\ CreateTrip(r.me, r.trip)
  <2>1. plan' = plan /\ \A t \in Trip : IsLive(trip[t]) => trip'[t] = trip[t]
    BY <1>1, <1>a, <1>b DEF CreateTrip, IsLive
  <2>2. ASSUME NEW p \in Plan PROVE Sound(plan'[p], trip')
    BY <2>1, <1>b DEF Sound
  <2> QED
    BY <2>2 DEF AllSound
<1>2. CASE r.op = "deleteTrip" /\ DeleteTrip(r.trip)
  <2>1. /\ trip' = [trip EXCEPT ![r.trip] = NoTrip("deleted")]
        /\ plan' = [p \in Plan |-> IF plan[p].trip = r.trip THEN NoPlan("deleted") ELSE plan[p]]
    BY <1>2 DEF DeleteTrip
  <2>2. ASSUME NEW p \in Plan PROVE Sound(plan'[p], trip')
    <3>1. CASE plan[p].trip = r.trip
      BY <3>1, <2>1, BlankSound DEF Life
    <3>2. CASE plan[p].trip # r.trip
      BY <3>2, <2>1, <1>b DEF Sound, IsLive
    <3> QED
      BY <3>1, <3>2
  <2> QED
    BY <2>2 DEF AllSound
<1>3. CASE r.op = "addTripPassenger" /\ AddTripPassenger(r.trip, r.user)
  <2>1. /\ trip' = [trip EXCEPT ![r.trip] = Boarded(trip[r.trip], r.user)]
        /\ plan' = [p \in Plan |->
             IF plan[p].trip = r.trip /\ r.user \in VisibleToMembers(p) \ plan[p].manual
             THEN [plan[p] EXCEPT !.viaTrip = @ \cup {r.user}] ELSE plan[p]]
    BY <1>3 DEF AddTripPassenger
  <2>2. /\ Boarded(trip[r.trip], r.user).life = trip[r.trip].life
        /\ Boarded(trip[r.trip], r.user).passengers = trip[r.trip].passengers \cup {r.user}
    BY <1>a, <1>b DEF Boarded, TripType
  <2>3. ASSUME NEW p \in Plan PROVE Sound(plan'[p], trip')
    <3>1. CASE plan[p].trip # r.trip
      BY <3>1, <2>1, <1>b DEF Sound, IsLive
    <3>2. CASE plan[p].trip = r.trip
      <4> DEFINE seen == Audience(plan[p].mode, plan[p].named)
                 new == IF r.user \in seen \ plan[p].manual
                        THEN plan[p].viaTrip \cup {r.user} ELSE plan[p].viaTrip
      <4>1. /\ plan[p] \in PlanRow /\ Sound(plan[p], trip)
            /\ trip'[r.trip].life = trip[r.trip].life
            /\ trip'[r.trip].passengers = trip[r.trip].passengers \cup {r.user}
        BY <2>1, <2>2, <1>a, <1>b
      <4>2. r.trip # None
        BY <1>a, SharingAssumption
      <4>3. /\ plan'[p].viaTrip = new /\ plan'[p].life = plan[p].life
            /\ plan'[p].trip = plan[p].trip /\ plan'[p].moved = plan[p].moved
            /\ plan'[p].mode = plan[p].mode /\ plan'[p].named = plan[p].named
            /\ plan'[p].manual = plan[p].manual
        BY <2>1, <3>2, <4>1 DEF VisibleToMembers, PlanRow, PlanType
      <4> QED
        BY <3>2, <4>1, <4>2, <4>3, <1>a DEF Sound, Manifest, IsLive
    <3> QED
      BY <3>1, <3>2
  <2> QED
    BY <2>3 DEF AllSound
<1>4. CASE r.op = "removeTripPassenger" /\ RemoveTripPassenger(r.trip, r.user)
  <2>1. PICK manual : trip' = [trip EXCEPT ![r.trip] = Landed(trip[r.trip], r.user, manual)]
    BY <1>4 DEF RemoveTripPassenger
  <2>2. plan' = [p \in Plan |->
          IF plan[p].trip = r.trip THEN [plan[p] EXCEPT !.viaTrip = @ \ {r.user}] ELSE plan[p]]
    BY <1>4 DEF RemoveTripPassenger
  <2>3. /\ Landed(trip[r.trip], r.user, manual).life = trip[r.trip].life
        /\ Landed(trip[r.trip], r.user, manual).passengers = trip[r.trip].passengers \ {r.user}
    BY <1>a, <1>b DEF Landed, TripType
  <2>4. ASSUME NEW p \in Plan PROVE Sound(plan'[p], trip')
    <3>1. CASE plan[p].trip # r.trip
      BY <3>1, <2>1, <2>2, <1>b DEF Sound, IsLive
    <3>2. CASE plan[p].trip = r.trip
      <4>1. /\ plan[p] \in PlanRow /\ Sound(plan[p], trip)
            /\ trip'[r.trip].life = trip[r.trip].life
            /\ trip'[r.trip].passengers = trip[r.trip].passengers \ {r.user}
        BY <2>1, <2>3, <1>a, <1>b
      <4>2. r.trip # None
        BY <1>a, SharingAssumption
      <4>3. /\ plan'[p].viaTrip = plan[p].viaTrip \ {r.user} /\ plan'[p].life = plan[p].life
            /\ plan'[p].trip = plan[p].trip /\ plan'[p].moved = plan[p].moved
            /\ plan'[p].mode = plan[p].mode /\ plan'[p].named = plan[p].named
            /\ plan'[p].manual = plan[p].manual
        BY <2>2, <3>2, <4>1 DEF PlanRow, PlanType
      <4> QED
        BY <3>2, <4>1, <4>2, <4>3, <1>a DEF Sound, Manifest, IsLive
    <3> QED
      BY <3>1, <3>2
  <2> QED
    BY <2>4 DEF AllSound
<1>5. CASE r.op = "createPlan" /\ CreatePlan(r.me, r.trip, r.plan)
  <2>1. /\ IsLive(trip[r.trip]) /\ UNCHANGED trip
        /\ plan' = [plan EXCEPT ![r.plan] = NewPlan(r.me, r.trip, trip[r.trip].passengers)]
    BY <1>5 DEF CreatePlan
  <2>2. trip[r.trip].passengers \subseteq User
    BY <1>a, <1>b DEF TripType
  <2>3. Sound(NewPlan(r.me, r.trip, trip[r.trip].passengers), trip)
    BY <2>1, <2>2, <1>a, NewSound
  <2> QED
    BY <2>1, <2>3, <1>a, <1>b, OnePlan
<1>6. CASE r.op = "deletePlan" /\ DeletePlan(r.plan)
  BY <1>6, <1>a, <1>b, BlankSound, OnePlan DEF DeletePlan, Life
<1>7. CASE r.op = "movePlan" /\ MovePlan(r.plan, r.trip)
  <2> DEFINE row == [plan[r.plan] EXCEPT !.trip = r.trip,
                                         !.moved = @ \/ plan[r.plan].trip # r.trip]
  <2>1. Sound(row, trip)
    BY <1>7, <1>a, <1>b, MovedSound DEF MovePlan
  <2>2. plan' = [plan EXCEPT ![r.plan] = row] /\ UNCHANGED trip
    BY <1>7, <1>a, <1>b DEF MovePlan
  <2> HIDE DEF row
  <2> QED
    BY <2>1, <2>2, <1>a, <1>b, OnePlan
<1>8. CASE r.op = "linkPlans" /\ LinkPlans(r.plan, r.other)
  <2> DEFINE n == plan[r.plan].legs + plan[r.other].legs
             row == [plan[r.plan] EXCEPT !.legs = n]
  <2>1. n \in Nat
    BY <1>a, <1>b, LegsAreNat
  <2>2. plan' = [[plan EXCEPT ![r.plan] = row] EXCEPT ![r.other] = NoPlan("deleted")]
        /\ UNCHANGED trip
    BY <1>8, <1>a, <1>b DEF LinkPlans
  <2> HIDE DEF n
  <2>3. Sound(row, trip) /\ Sound(NoPlan("deleted"), trip)
    BY <2>1, <1>a, <1>b, FlagsSound, BlankSound DEF Life
  <2> HIDE DEF row
  <2> QED
    BY <2>2, <2>3, <1>a, <1>b, TwoPlans
<1>9. CASE r.op = "splitPlanPart" /\ SplitPlanPart(r.plan, r.other)
  <2> DEFINE n == plan[r.plan].legs - 1
             row == [plan[r.plan] EXCEPT !.legs = n]
             leg == [plan[r.plan] EXCEPT !.legs = 1, !.allFriends = FALSE]
  <2>1. n \in Nat
    BY <1>9, <1>a, <1>b, LegsAreNat DEF SplitPlanPart
  <2>2. plan' = [[plan EXCEPT ![r.plan] = row] EXCEPT ![r.other] = leg] /\ UNCHANGED trip
    BY <1>9, <1>a, <1>b DEF SplitPlanPart
  <2> HIDE DEF n
  <2>3. Sound(row, trip) /\ Sound(leg, trip)
    BY <2>1, <1>a, <1>b, FlagsSound
  <2> HIDE DEF row, leg
  <2> QED
    BY <2>2, <2>3, <1>a, <1>b, TwoPlans
<1>10. CASE \/ r.op = "addPlanPassenger" /\ AddPlanPassenger(r.plan, r.user)
            \/ r.op = "sharePlanByEmail" /\ SharePlanByEmail(r.me, r.plan, r.user)
  <2> DEFINE row == [plan[r.plan] EXCEPT !.manual = @ \cup {r.user}, !.viaTrip = @ \ {r.user}]
  <2>1. \/ UNCHANGED <<trip, plan>>
        \/ IsLive(plan[r.plan]) /\ plan' = [plan EXCEPT ![r.plan] = row] /\ UNCHANGED trip
    BY <1>10, <1>a, <1>b DEF AddPlanPassenger, SharePlanByEmail
  <2>2. IsLive(plan[r.plan]) => Sound(row, trip)
    BY <1>a, <1>b, ManualSound
  <2> HIDE DEF row
  <2>3. CASE UNCHANGED <<trip, plan>>
    BY <2>3, <1>c
  <2>4. CASE IsLive(plan[r.plan]) /\ plan' = [plan EXCEPT ![r.plan] = row] /\ UNCHANGED trip
    BY <2>2, <2>4, <1>a, <1>b, OnePlan
  <2> QED
    BY <2>1, <2>3, <2>4
<1>11. CASE r.op = "removePlanPassenger" /\ RemovePlanPassenger(r.plan, r.user)
  <2> DEFINE stays == r.user \in VisibleToMembers(r.plan)
                                  \cap trip[plan[r.plan].trip].passengers
             row == [plan[r.plan] EXCEPT
                       !.manual = @ \ {r.user},
                       !.viaTrip = IF stays THEN @ \cup {r.user} ELSE @ \ {r.user}]
  <2>1. plan' = [plan EXCEPT ![r.plan] = row] /\ UNCHANGED trip
    BY <1>11, <1>a, <1>b DEF RemovePlanPassenger
  <2>2. IsLive(plan[r.plan])
    BY <1>11, <1>a, <1>b DEF RemovePlanPassenger, Passengers, Sound
  <2>3. /\ stays \in BOOLEAN
        /\ stays <=> r.user \in Audience(plan[r.plan].mode, plan[r.plan].named)
                                   \cap trip[plan[r.plan].trip].passengers
    BY DEF VisibleToMembers
  <2> HIDE DEF stays
  <2>4. Sound(row, trip)
    BY <2>2, <2>3, <1>a, <1>b, RemovedSound
  <2> HIDE DEF row
  <2> QED
    BY <2>1, <2>4, <1>a, <1>b, OnePlan
<1>12. CASE r.op = "setPlanVisibility" /\ SetPlanVisibility(r.plan, r.mode, r.named)
  <2> DEFINE who == IF r.mode = "everyone" THEN {} ELSE r.named
             aboard == trip[plan[r.plan].trip].passengers
             row == [plan[r.plan] EXCEPT
                       !.mode = r.mode, !.named = who,
                       !.viaTrip = (@ \cup (aboard \ plan[r.plan].manual))
                                   \cap Audience(r.mode, who)]
  <2>1. plan' = [plan EXCEPT ![r.plan] = row] /\ UNCHANGED trip /\ IsLive(plan[r.plan])
    BY <1>12, <1>a, <1>b DEF SetPlanVisibility
  <2>2. who \in SUBSET User /\ aboard = trip[plan[r.plan].trip].passengers
    BY <1>a
  <2> HIDE DEF who, aboard
  <2>3. Sound(row, trip)
    BY <2>1, <2>2, <1>a, <1>b, PrivacySound
  <2> HIDE DEF row
  <2> QED
    BY <2>1, <2>3, <1>a, <1>b, OnePlan
<1>13. CASE r.op = "setPlanShareAllFriends" /\ SetPlanShareAllFriends(r.plan, r.flag)
  <2> DEFINE row == [plan[r.plan] EXCEPT !.allFriends = r.flag]
  <2>1. plan' = [plan EXCEPT ![r.plan] = row] /\ UNCHANGED trip
    BY <1>13, <1>a, <1>b DEF SetPlanShareAllFriends
  <2>2. Sound(row, trip)
    BY <1>a, <1>b, FlagsSound
  <2> HIDE DEF row
  <2> QED
    BY <2>1, <2>2, <1>a, <1>b, OnePlan
<1>14. CASE \/ r.op = "addTripMember" /\ AddTripMember(r.trip, r.user, r.role)
            \/ r.op = "removeTripMember" /\ RemoveTripMember(r.trip, r.user)
            \/ r.op = "setTripShareAllFriends" /\ SetTripShareAllFriends(r.trip, r.role)
            \/ r.op = "shareTripByEmail" /\ ShareTripByEmail(r.me, r.trip, r.user, r.role)
  <2>1. UNCHANGED plan
    BY <1>14 DEF AddTripMember, RemoveTripMember, SetTripShareAllFriends, ShareTripByEmail
  <2>2. PICK row : /\ row.life = trip[r.trip].life /\ row.passengers = trip[r.trip].passengers
                   /\ trip' = trip \/ trip' = [trip EXCEPT ![r.trip] = row]
    <3>1. /\ [trip[r.trip] EXCEPT !.role[r.user] = r.role].life = trip[r.trip].life
          /\ [trip[r.trip] EXCEPT !.role[r.user] = r.role].passengers = trip[r.trip].passengers
          /\ [trip[r.trip] EXCEPT !.role[r.user] = "none"].life = trip[r.trip].life
          /\ [trip[r.trip] EXCEPT !.role[r.user] = "none"].passengers = trip[r.trip].passengers
          /\ [trip[r.trip] EXCEPT !.allFriends = r.role].life = trip[r.trip].life
          /\ [trip[r.trip] EXCEPT !.allFriends = r.role].passengers = trip[r.trip].passengers
      BY <1>a, <1>b DEF TripType
    <3> QED
      BY <3>1, <1>14 DEF AddTripMember, RemoveTripMember, SetTripShareAllFriends, ShareTripByEmail
  <2> QED
    BY <2>1, <2>2, <1>a, <1>b, <1>c
<1>15. CASE UNCHANGED content
  BY <1>15, <1>c DEF content
<1> QED
  BY <1>1, <1>2, <1>3, <1>4, <1>5, <1>6, <1>7, <1>8, <1>9, <1>10, <1>11, <1>12, <1>13, <1>14, <1>15
  DEF Execute, SetAutoShare, RemoveAutoShare, InviteFriend, AcceptFriendship, RemoveFriendship,
      CancelOutgoingInvite, content

LEMMA SignInKeepsSound ==
  ASSUME RowsOK, AllSound, NEW u \in User, SignIn(u)
  PROVE  AllSound'
<1>1. \A t \in Trip : trip[t].life = trip'[t].life /\ trip[t].passengers = trip'[t].passengers
  BY DEF SignIn, ClaimShares, RowsOK, TripsOK, TripType
<1>2. ASSUME NEW p \in Plan PROVE Sound(plan'[p], trip)
  <2>1. plan[p] \in PlanRow /\ Sound(plan[p], trip)
    BY DEF RowsOK, PlansOK, AllSound
  <2>2. CASE plan'[p] = plan[p]
    BY <2>1, <2>2
  <2>3. CASE plan'[p] = [plan[p] EXCEPT !.manual = @ \cup {u}] /\ IsLive(plan[p])
    BY <2>1, <2>3, ManualSound
  <2> QED
    BY <2>2, <2>3 DEF SignIn, ClaimsSucceed, ClaimShares
<1> QED
  BY <1>1, <1>2, SameTrips DEF AllSound

IInv == TypeInv /\ AllSound

LEMMA IInvInit == Init => IInv
<1> SUFFICES ASSUME Init PROVE IInv
  OBVIOUS
<1>1. AllSound
  BY BlankSound DEF Init, AllSound, Life
<1> QED
  BY <1>1, TypeInvInit DEF IInv

LEMMA IInvNext ==
  ASSUME IInv, [Next]_vars
  PROVE  IInv'
<1>1. TypeInv'
  BY TypeInvNext DEF IInv
<1>2. AllSound'
  <2>1. ASSUME NEW r \in Requests, Execute(r) PROVE AllSound'
    BY <2>1, RequestsKeepSound DEF IInv, TypeInv
  <2>2. ASSUME NEW u \in User, SignIn(u) PROVE AllSound'
    BY <2>2, SignInKeepsSound DEF IInv, TypeInv
  <2>3. CASE UNCHANGED content
    BY <2>3 DEF IInv, AllSound, content
  <2>4. CASE \E r \in Requests : Serve(r) \/ Suspend(r)
    BY <2>1, <2>3, <2>4 DEF Serve, Suspend
  <2>5. CASE \E r \in inFlight : Resume(r) \/ Abandon(r)
    BY <2>1, <2>3, <2>5 DEF IInv, TypeInv, Resume, Abandon
  <2> QED
    BY <2>2, <2>3, <2>4, <2>5 DEF Next, vars
<1> QED
  BY <1>1, <1>2 DEF IInv

LEMMA IInvHolds == Spec => []IInv
<1> QED
  BY IInvInit, IInvNext, PTL DEF Spec

\* For any people, trips, plans and interleaving of requests: a trip's passengers
\* are on each plan of it they may see.
THEOREM TravellersAlwaysOnBoard == Spec => []TravellersOnBoard
<1>1. IInv => TravellersOnBoard
  BY DEF IInv, AllSound, Sound, Manifest, TravellersOnBoard, VisibleToMembers, Passengers
<1> QED
  BY <1>1, IInvHolds, PTL

\* A derived passenger row never outlives its cause.
THEOREM DerivedRowsAlwaysCaused == Spec => []DerivedRowsHaveACause
<1>1. IInv => DerivedRowsHaveACause
  BY DEF IInv, AllSound, Sound, Manifest, DerivedRowsHaveACause, VisibleToMembers
<1> QED
  BY <1>1, IInvHolds, PTL

\* A plan hidden from someone is not shown to them by any trip-wide grant.
THEOREM HiddenAlwaysHidden == Spec => []HiddenStaysHidden
<1>1. IInv => HiddenStaysHidden
  <2> SUFFICES ASSUME IInv, NEW p \in Plan, NEW u \in User,
                      IsLive(plan[p]),
                      u \notin VisibleToMembers(p) \cup plan[p].manual,
                      u \notin {plan[p].createdBy, trip[plan[p].trip].createdBy},
                      ~plan[p].allFriends
               PROVE  ~CanViewPlan(p, u)
    BY DEF HiddenStaysHidden
  <2>1. u \notin Passengers(p)
    BY DEF IInv, AllSound, Sound, Manifest, VisibleToMembers, Passengers
  <2>2. plan[p].mode \in Mode
    BY DEF IInv, TypeInv, RowsOK, PlansOK, PlanRow, PlanType
  <2>3. plan[p].mode # "everyone" /\ (plan[p].mode = "only_visible_to" => u \notin plan[p].named)
        /\ (plan[p].mode = "hidden_from" => u \in plan[p].named)
    BY <2>2 DEF VisibleToMembers, Audience, Mode
  <2> QED
    BY <2>1, <2>3 DEF CanViewPlan, PlanGrant
<1> QED
  BY <1>1, IInvHolds, PTL

\* The trip's tile shows exactly to those it has something to show to.
THEOREM TileAlwaysMatches == Spec => []TileMatchesPlans
<1>1. IInv => TileMatchesPlans
  <2> SUFFICES ASSUME IInv, NEW t \in Trip, NEW u \in User, IsLive(trip[t])
               PROVE  CanViewTrip(t, u) <=>
                        \/ trip[t].createdBy = u
                        \/ Friend(trip[t].createdBy, u) /\ TripGrant(t, u)
                        \/ \E p \in PlansOf(t) : CanViewPlan(p, u)
    BY DEF TileMatchesPlans
  <2>1. \A p \in PlansOf(t) : IsLive(plan[p]) /\ plan[p].trip = t
    BY SharingAssumption DEF IInv, AllSound, Sound, PlansOf
  <2>2. \A p \in PlansOf(t) : CanViewPlan(p, u) =>
          \/ trip[t].createdBy = u
          \/ Friend(trip[t].createdBy, u) /\ (PlanGrant(p, u) \/ TripGrant(t, u))
    BY <2>1 DEF CanViewPlan
  <2>3. \A p \in PlansOf(t) : Friend(trip[t].createdBy, u) /\ PlanGrant(p, u) => CanViewPlan(p, u)
    BY <2>1 DEF CanViewPlan
  <2> QED
    BY <2>2, <2>3 DEF CanViewTrip
<1> QED
  BY <1>1, IInvHolds, PTL

\* Splitting a leg into a plan of its own shows it to nobody new.
THEOREM SplitAlwaysNarrows == Spec => SplitNeverWidens
<1>1. ASSUME IInv, NEW p \in Plan, NEW q \in Plan, NEW u \in User,
             SplitPlanPart(p, q), CanViewPlan(q, u)'
      PROVE  CanViewPlan(p, u)
  <2>1. /\ plan \in [Plan -> PlanRow] /\ plan[p] \in PlanRow
        /\ IsLive(plan[p]) /\ plan[p].trip \in Trip
    BY <1>1 DEF IInv, TypeInv, RowsOK, PlansOK, AllSound, Sound, SplitPlanPart
  <2>2. /\ plan'[q] = [plan[p] EXCEPT !.legs = 1, !.allFriends = FALSE]
        /\ trip' = trip /\ friends' = friends
    BY <1>1, <2>1 DEF SplitPlanPart, people
  <2>3. /\ plan'[q].life = plan[p].life /\ plan'[q].trip = plan[p].trip
        /\ plan'[q].createdBy = plan[p].createdBy /\ plan'[q].allFriends = FALSE
        /\ plan'[q].mode = plan[p].mode /\ plan'[q].named = plan[p].named
        /\ plan'[q].manual = plan[p].manual /\ plan'[q].viaTrip = plan[p].viaTrip
    BY <2>1, <2>2 DEF PlanRow, PlanType
  <2> QED
    BY <1>1, <2>1, <2>2, <2>3
    DEF CanViewPlan, PlanGrant, TripGrant, Passengers, Friend, IsLive
<1>2. IInv => \A p, q \in Plan, u \in User :
                SplitPlanPart(p, q) /\ CanViewPlan(q, u)' => CanViewPlan(p, u)
  BY <1>1
<1> QED
  BY <1>2, IInvHolds, PTL DEF SplitNeverWidens

----------------------------------------------------------------------------
(* Who owns a trip *)

\* A trip whose life and owners no write touched.
OwnersStand(t) ==
  trip'[t].life = trip[t].life /\ \A u \in User : trip'[t].role[u] = "owner" <=> trip[t].role[u] = "owner"

LEMMA OwnersStay ==
  ASSUME NEW t \in Trip, OwnersStand(t)
  PROVE  Owners(t)' = Owners(t) /\ IsLive(trip[t])' = IsLive(trip[t])
  BY DEF OwnersStand, Owners, IsLive

\* A request makes an owner only of whom it names, and takes the last one only by
\* demoting him.
Inherits(t, r) ==
  /\ Owners(t)' \subseteq Owners(t) \cup MayOwn(t)
  /\ IsLive(trip[t])' /\ Owners(t)' = {} =>
       /\ IsLive(trip[t])
       /\ \/ Owners(t) = {}
          \/ Demotes(r) /\ r.trip = t /\ Owners(t) = {r.user}

LEMMA StandInherits ==
  ASSUME NEW t \in Trip, OwnersStand(t), NEW r
  PROVE  Inherits(t, r)
  BY OwnersStay DEF Inherits

LEMMA RequestsKeepOwners ==
  ASSUME RowsOK, NEW r \in Requests, Execute(r), NEW t \in Trip
  PROVE  Inherits(t, r)
<1>a. r.trip \in Trip /\ r.user \in User /\ r.me \in User /\ r.role \in RoleFor(r.op)
  BY RequestFields
<1>b. /\ trip \in [Trip -> TripType] /\ trip[t] \in TripType /\ trip[t].role \in [User -> Role]
      /\ trip[r.trip] \in TripType /\ trip[r.trip].role \in [User -> Role]
  BY <1>a DEF RowsOK, TripsOK, TripType
<1>1. CASE t # r.trip /\ \A s \in Trip : s # r.trip => trip'[s] = trip[s]
  BY <1>1, StandInherits DEF OwnersStand
<1>2. ASSUME NEW u \in User, NEW role \in Role, t = r.trip, IsLive(trip[t]),
             trip' = [trip EXCEPT ![t].role[u] = role]
      PROVE  /\ IsLive(trip[t])' /\ Owners(t)' \subseteq Owners(t) \cup {u}
             /\ role # "owner" => Owners(t)' = Owners(t) \ {u}
             /\ role = "owner" => u \in Owners(t)'
  <2>1. /\ trip'[t].life = trip[t].life /\ trip'[t].role[u] = role
        /\ \A v \in User : v # u => trip'[t].role[v] = trip[t].role[v]
    BY <1>2, <1>b DEF TripType
  <2> QED
    BY <1>2, <2>1 DEF Owners, IsLive
<1>3. CASE r.op = "createTrip" /\ CreateTrip(r.me, r.trip) /\ t = r.trip
  <2>1. /\ trip'[t].role[r.me] = "owner"
        /\ \A u \in User : u # r.me => trip'[t].role[u] # "owner"
    <3>1. \A u \in User : autoShare[r.me][u] # "owner"
      BY <1>a DEF RowsOK, AutoShareOK, GrantRole
    <3>2. trip'[t].role = [u \in User |-> CASE u = r.me -> "owner"
                                            [] u # r.me /\ autoShare[r.me][u] = "passenger" -> "viewer"
                                            [] OTHER -> autoShare[r.me][u]]
      BY <1>3, <1>b DEF CreateTrip
    <3> QED
      BY <3>1, <3>2, <1>a
  <2>2. r.me \in MayOwn(t)
    BY <1>3 DEF MayOwn
  <2>3. Owners(t)' = {r.me}
    BY <2>1, <1>a DEF Owners
  <2> QED
    BY <2>2, <2>3 DEF Inherits
<1>4. CASE r.op = "deleteTrip" /\ DeleteTrip(r.trip) /\ t = r.trip
  <2>1. trip'[t] = NoTrip("deleted")
    BY <1>4, <1>b DEF DeleteTrip
  <2> QED
    BY <2>1 DEF NoTrip, Inherits, Owners, IsLive
<1>5. CASE r.op = "addTripMember" /\ AddTripMember(r.trip, r.user, r.role) /\ t = r.trip
  <2>1. r.role \in Role /\ IsLive(trip[t]) /\ trip' = [trip EXCEPT ![t].role[r.user] = r.role]
    BY <1>5, <1>a DEF RoleFor, GrantRole, Role, AddTripMember
  <2>2. r.role = "owner" => r.user \in MayOwn(t)
    BY <1>5 DEF MayOwn
  <2>3. /\ IsLive(trip[t])' /\ Owners(t)' \subseteq Owners(t) \cup {r.user}
        /\ r.role # "owner" => Owners(t)' = Owners(t) \ {r.user}
        /\ r.role = "owner" => r.user \in Owners(t)'
    BY <1>2, <1>5, <1>a, <2>1
  <2> QED
    BY <1>5, <2>1, <2>2, <2>3 DEF Inherits, Demotes
<1>6. CASE r.op = "removeTripMember" /\ RemoveTripMember(r.trip, r.user) /\ t = r.trip
  <2>1. /\ trip[t].role[r.user] # "none" /\ Owners(t) # {r.user}
        /\ trip' = [trip EXCEPT ![t].role[r.user] = "none"]
    BY <1>6 DEF RemoveTripMember
  <2>2. /\ trip'[t].life = trip[t].life /\ trip'[t].role[r.user] = "none"
        /\ \A v \in User : v # r.user => trip'[t].role[v] = trip[t].role[v]
    BY <2>1, <1>a, <1>b DEF TripType
  <2>3. Owners(t)' = Owners(t) \ {r.user}
    BY <2>2 DEF Owners
  <2> QED
    BY <2>1, <2>2, <2>3 DEF Inherits, IsLive
<1>7. CASE r.op = "setTripShareAllFriends" /\ SetTripShareAllFriends(r.trip, r.role) /\ t = r.trip
  <2>1. trip'[t].role = trip[t].role /\ trip'[t].life = trip[t].life
    BY <1>7, <1>b DEF SetTripShareAllFriends, TripType
  <2> QED
    BY <2>1, StandInherits DEF OwnersStand
<1>8. CASE r.op = "addTripPassenger" /\ AddTripPassenger(r.trip, r.user) /\ t = r.trip
  <2>1. trip'[t] = Boarded(trip[t], r.user)
    BY <1>8, <1>b DEF AddTripPassenger
  <2>2. OwnersStand(t)
    BY <2>1, <1>a, <1>b DEF OwnersStand, Boarded, TripType
  <2> QED
    BY <2>2, StandInherits
<1>9. CASE r.op = "removeTripPassenger" /\ RemoveTripPassenger(r.trip, r.user) /\ t = r.trip
  <2>1. PICK justified : trip'[t] = Landed(trip[t], r.user, justified)
    BY <1>9, <1>b DEF RemoveTripPassenger
  <2>2. OwnersStand(t)
    BY <2>1, <1>a, <1>b DEF OwnersStand, Landed, TripType
  <2> QED
    BY <2>2, StandInherits
<1>10. CASE r.op = "shareTripByEmail" /\ ShareTripByEmail(r.me, r.trip, r.user, r.role) /\ t = r.trip
  <2>1. r.role \in Role /\ r.role # "owner"
    BY <1>10, <1>a DEF RoleFor, GrantRole, Role
  <2>2. \/ UNCHANGED trip
        \/ IsLive(trip[t]) /\ trip' = [trip EXCEPT ![t].role[r.user] = r.role]
    BY <1>10 DEF ShareTripByEmail
  <2>3. CASE UNCHANGED trip
    BY <2>3, StandInherits DEF OwnersStand
  <2>4. CASE IsLive(trip[t]) /\ trip' = [trip EXCEPT ![t].role[r.user] = r.role]
    <3>1. Owners(t)' = Owners(t) \ {r.user}
      BY <1>2, <1>10, <1>a, <2>1, <2>4
    <3> QED
      BY <1>10, <2>1, <2>4, <3>1 DEF Inherits, Demotes
  <2> QED
    BY <2>2, <2>3, <2>4
<1>11. CASE UNCHANGED trip
  BY <1>11, StandInherits DEF OwnersStand
<1>12. \A s \in Trip : s # r.trip => \/ trip'[s] = trip[s]
                                     \/ UNCHANGED trip
  BY <1>a, <1>b
  DEF Execute, SetAutoShare, RemoveAutoShare, CreatePlan, DeletePlan, MovePlan, LinkPlans,
      SplitPlanPart, AddPlanPassenger, RemovePlanPassenger, SetPlanVisibility,
      SetPlanShareAllFriends, InviteFriend, AcceptFriendship, RemoveFriendship,
      CancelOutgoingInvite, SharePlanByEmail, content, CreateTrip, DeleteTrip, AddTripMember,
      RemoveTripMember, SetTripShareAllFriends, AddTripPassenger, RemoveTripPassenger, ShareTripByEmail
<1>13. CASE t = r.trip /\ trip' # trip
  BY <1>3, <1>4, <1>5, <1>6, <1>7, <1>8, <1>9, <1>10, <1>13
  DEF Execute, SetAutoShare, RemoveAutoShare, CreatePlan, DeletePlan, MovePlan, LinkPlans,
      SplitPlanPart, AddPlanPassenger, RemovePlanPassenger, SetPlanVisibility,
      SetPlanShareAllFriends, InviteFriend, AcceptFriendship, RemoveFriendship,
      CancelOutgoingInvite, SharePlanByEmail, content
<1> QED
  BY <1>1, <1>11, <1>12, <1>13

\* A claim never makes an owner and never takes one.
LEMMA SignInKeepsOwners ==
  ASSUME RowsOK, NEW u \in User, SignIn(u), NEW t \in Trip
  PROVE  OwnersStand(t)
<1>1. trip'[t] = [trip[t] EXCEPT !.role[u] = IF @ = "none" THEN tripShare[u][t] ELSE @]
  BY DEF SignIn, ClaimShares
<1>2. trip[t] \in TripType /\ tripShare[u][t] # "owner"
  BY DEF RowsOK, TripsOK, QueuedOK, GrantRole
<1> QED
  BY <1>1, <1>2 DEF OwnersStand, TripType

\* Whatever runs, one trip's owners stand or a request inherits them.
LEMMA StepsKeepOwners ==
  ASSUME IInv, [Next]_vars, NEW t \in Trip
  PROVE  OwnersStand(t) \/ \E r \in Requests : Inherits(t, r)
<1>1. ASSUME NEW r \in Requests, Execute(r) PROVE Inherits(t, r)
  BY <1>1, RequestsKeepOwners DEF IInv, TypeInv
<1>2. ASSUME NEW u \in User, SignIn(u) PROVE OwnersStand(t)
  BY <1>2, SignInKeepsOwners DEF IInv, TypeInv
<1>3. CASE UNCHANGED trip
  BY <1>3 DEF OwnersStand
<1>4. CASE \E r \in Requests : Serve(r) \/ Suspend(r)
  BY <1>1, <1>3, <1>4 DEF Serve, Suspend, content
<1>5. CASE \E r \in inFlight : Resume(r) \/ Abandon(r)
  BY <1>1, <1>3, <1>5 DEF IInv, TypeInv, Resume, Abandon, content
<1> QED
  BY <1>2, <1>3, <1>4, <1>5 DEF Next, vars, content

\* For any requests and overlaps: a trip that lives on loses its last owner only
\* to a request that gives him a lesser role (RemoveTripMember counts under the
\* trip's lock; AddTripMember and a share by e-mail do not count).
THEOREM LastOwnerOnlyDemoted == Spec => LastOwnerIsDemoted
<1>1. ASSUME IInv, [Next]_vars, NEW t \in Trip,
             IsLive(trip[t]), Owners(t) # {}, IsLive(trip[t])', Owners(t)' = {}
      PROVE  \E r \in Requests : Demotes(r) /\ r.trip = t /\ Owners(t) = {r.user}
  <2>1. ~OwnersStand(t)
    BY <1>1, OwnersStay
  <2>2. PICK r \in Requests : Inherits(t, r)
    BY <1>1, <2>1, StepsKeepOwners
  <2> QED
    BY <1>1, <2>2 DEF Inherits
<1>2. IInv /\ [Next]_vars =>
        \A t \in Trip :
          IsLive(trip[t]) /\ Owners(t) # {} /\ IsLive(trip[t])' /\ Owners(t)' = {} =>
            \E r \in Requests : Demotes(r) /\ r.trip = t /\ Owners(t) = {r.user}
  BY <1>1
<1> QED
  BY <1>2, IInvHolds, PTL DEF Spec, LastOwnerIsDemoted

\* Where nobody is demoted no live trip is ever without an owner, whatever
\* overlaps: two owners who remove each other leave one.
THEOREM OwnersRemain ==
  ASSUME NoDemotion
  PROVE  Spec => []TripsKeepAnOwner
<1> DEFINE Owned == TripsKeepAnOwner /\ \A t \in Trip : Owners(t) \subseteq MayOwn(t)
<1>1. Init => Owned
  BY DEF Init, TripsKeepAnOwner, Owners, IsLive, NoTrip
<1>2. ASSUME IInv, Owned, [Next]_vars
      PROVE  Owned'
  <2> SUFFICES ASSUME NEW t \in Trip
               PROVE  /\ IsLive(trip[t])' => Owners(t)' # {}
                      /\ Owners(t)' \subseteq MayOwn(t)
    BY DEF TripsKeepAnOwner
  <2>1. CASE OwnersStand(t)
    BY <1>2, <2>1, OwnersStay DEF TripsKeepAnOwner
  <2>2. ASSUME NEW r \in Requests, Inherits(t, r)
        PROVE  /\ IsLive(trip[t])' => Owners(t)' # {}
               /\ Owners(t)' \subseteq MayOwn(t)
    <3>1. Owners(t)' \subseteq MayOwn(t)
      BY <1>2, <2>2 DEF Inherits
    <3>2. ~(Demotes(r) /\ r.trip = t /\ Owners(t) = {r.user})
      BY <1>2 DEF NoDemotion
    <3> QED
      BY <1>2, <2>2, <3>1, <3>2 DEF Inherits, TripsKeepAnOwner
  <2> QED
    BY <1>2, <2>1, <2>2, StepsKeepOwners
<1>3. Owned => TripsKeepAnOwner
  OBVIOUS
<1> QED
  BY <1>1, <1>2, <1>3, IInvHolds, PTL DEF Spec

\* A sign-in claims the invitation and what was shared with it in one go: what the
\* trip's owner queued is in sight from then on (ClaimInvites, ClaimShares).
THEOREM PreSharesAlwaysLightUp == Spec => PreSharesLightUp
<1>1. ASSUME IInv, NEW u \in User, NEW t \in Trip,
             SignIn(u), IsLive(trip[t]), <<trip[t].createdBy, u>> \in invites
      PROVE  /\ tripShare[u][t] # "none" => CanViewTrip(t, u)'
             /\ \A p \in PlansOf(t) : <<u, p>> \in planShare => CanViewPlan(p, u)'
  <2> DEFINE o == trip[t].createdBy
  <2>1. /\ trip[t] \in TripType /\ o \in User /\ plan \in [Plan -> PlanRow]
        /\ friends \in [Pair -> User \cup {"none", "accepted"}]
        /\ tripShare \in [User -> [Trip -> GrantRole \cup {"none"}]]
    BY <1>1 DEF IInv, TypeInv, RowsOK, TripsOK, PlansOK, PeopleOK, QueuedOK
  <2>2. trip'[t] = [trip[t] EXCEPT !.role[u] = IF @ = "none" THEN tripShare[u][t] ELSE @]
    BY <1>1 DEF SignIn, ClaimShares
  <2>3. /\ trip'[t].life = "live" /\ trip'[t].createdBy = o
        /\ tripShare[u][t] # "none" => trip'[t].role[u] # "none"
    BY <1>1, <2>1, <2>2 DEF TripType, IsLive
  <2>4. o = u \/ Friend(o, u)'
    <3> SUFFICES ASSUME o # u
                 PROVE  Friend(o, u)'
      OBVIOUS
    <3>1. {o, u} \in Pair
      <4>1. o \in User /\ u \in User /\ \A a \in User : {a} # {o, u}
        BY <2>1
      <4> HIDE DEF o
      <4> QED
        BY <4>1 DEF Pair
    <3>2. friends'[{o, u}] = "accepted"
      BY <1>1, <2>1, <3>1 DEF SignIn, ClaimInvites
    <3> QED
      BY <2>3, <3>2 DEF Friend
  <2>5. tripShare[u][t] # "none" => CanViewTrip(t, u)'
    BY <2>3, <2>4 DEF CanViewTrip, TripGrant, IsLive
  <2>6. ASSUME NEW p \in PlansOf(t), <<u, p>> \in planShare
        PROVE  CanViewPlan(p, u)'
    <3>1. p \in Plan /\ plan[p].trip = t /\ IsLive(plan[p]) /\ plan[p] \in PlanRow
      BY <1>1, <2>1, <2>6 DEF PlansOf, SignIn, ClaimsSucceed
    <3>2. plan'[p] = IF u \notin plan[p].viaTrip THEN [plan[p] EXCEPT !.manual = @ \cup {u}] ELSE plan[p]
      BY <1>1, <2>6, <3>1 DEF SignIn, ClaimShares
    <3>3. plan'[p].trip = t /\ plan'[p].life = "live" /\ u \in plan'[p].manual \cup plan'[p].viaTrip
      BY <3>1, <3>2 DEF PlanRow, PlanType, IsLive
    <3> QED
      BY <2>3, <2>4, <3>3 DEF CanViewPlan, PlanGrant, Passengers, IsLive
  <2> QED
    BY <2>5, <2>6
<1>2. IInv => \A u \in User, t \in Trip :
        SignIn(u) /\ IsLive(trip[t]) /\ <<trip[t].createdBy, u>> \in invites =>
          /\ tripShare[u][t] # "none" => CanViewTrip(t, u)'
          /\ \A p \in PlansOf(t) : <<u, p>> \in planShare => CanViewPlan(p, u)'
  BY <1>1
<1> QED
  BY <1>2, IInvHolds, PTL DEF PreSharesLightUp


---------------------------------------------------------------------------
\* Anchoring: a reading that a zone's clocks show becomes an instant that shows
\* that reading, and one they skip becomes some instant.
LEMMA AnchorShows ==
  ASSUME NEW d \in Int, NEW z \in Zone
  PROVE  /\ Anchor(d, z) \in Int
         /\ candidates(d, z) # {} => Wall(Anchor(d, z), z) = d
<1> DEFINE u == d - Std[z]
           v == d - Std[z] - Shift[z]
           C == candidates(d, z)
<1>1. Std[z] \in Int /\ Shift[z] \in Int /\ Change[z] \in Int
  BY TimesAssumption
<1>2. u \in Int /\ v \in Int
  BY <1>1
<1>3. C \subseteq {u, v} /\ \A t \in C : Wall(t, z) = d
  BY DEF candidates
<1>4. CASE C = {}
  <2>1. \A t \in Int : Offset(z, t) \in Int
    BY <1>1 DEF Offset
  <2>2. d - Offset(z, d) \in Int
    BY <2>1
  <2>3. Offset(z, d - Offset(z, d)) \in Int
    BY <2>1, <2>2
  <2>4. Anchor(d, z) = d - Offset(z, d - Offset(z, d))
    BY <1>4 DEF Anchor, Normalised
  <2> QED BY <1>4, <2>3, <2>4
<1>5. CASE C # {}
  <2>1. \E t \in C : \A s \in C : t <= s
    <3>1. PICK t \in C : TRUE
      BY <1>5
    <3>2. CASE u \in C /\ v \in C
      <4>1. CASE u <= v
        BY <4>1, <3>2, <1>2, <1>3
      <4>2. CASE ~(u <= v)
        <5>1. v <= u /\ v <= v
          BY <4>2, <1>2
        <5> QED BY <5>1, <3>2, <1>3
      <4> QED BY <4>1, <4>2
    <3>3. CASE u \notin C
      <4>1. \A s \in C : s = v
        BY <3>3, <1>3
      <4>2. v <= v
        BY <1>2
      <4> QED BY <4>1, <4>2, <3>1
    <3>4. CASE v \notin C
      <4>1. \A s \in C : s = u
        BY <3>4, <1>3
      <4>2. u <= u
        BY <1>2
      <4> QED BY <4>1, <4>2, <3>1
    <3> QED BY <3>2, <3>3, <3>4
  <2>2. Anchor(d, z) = CHOOSE t \in C : \A s \in C : t <= s
    BY <1>5 DEF Anchor
  <2>3. Anchor(d, z) \in C
    BY <2>1, <2>2
  <2>4. Anchor(d, z) \in Int
    BY <2>3, <1>2, <1>3
  <2> QED BY <2>3, <2>4, <1>3
<1> QED BY <1>4, <1>5

\* The zone of an airport is none or a zone.
LEMMA AirportZoneTyped ==
  ASSUME NEW c \in Airport \cup {Blank}, NEW p \in Place \cup {Blank}
  PROVE  AirportZone(c, p) \in Zone \cup {Blank}
BY TimesAssumption DEF AirportZone

---------------------------------------------------------------------------
\* What a write may do to an end so that what was said of it can be followed:
\* leave its time as it stands, give a floating reading a zone or a new label,
\* relabel an instant, or move an instant so that it reads as before.
Kept(old, new, relabels) ==
  \/ new.at = old.at /\ new.tz = old.tz /\ new.src = old.src
  \/ old.at = Blank /\ new.at = Blank
  \/ /\ old.at # Blank /\ old.src = "floating" /\ new.src # "unknown"
     /\ \/ new.tz = Blank /\ new.at = old.at
        \/ new.tz \in Zone /\ new.at = Anchor(old.at, new.tz)
  \/ old.at # Blank /\ old.src = "floating" /\ relabels /\ new.src = "unknown" /\ new.at = old.at
  \/ /\ old.at # Blank /\ old.src # "floating" /\ relabels
     /\ new.at = old.at /\ (new.src = "floating" => new.tz = Blank)
  \/ /\ old.at # Blank /\ old.src = "unknown" /\ ~relabels /\ new.at = old.at
  \/ /\ old.at # Blank /\ old.src \notin Zoneless /\ ~relabels
     /\ new.at = old.at /\ new.tz = old.tz /\ new.src # "unknown"
  \/ /\ old.at # Blank /\ old.src \notin Zoneless /\ ~relabels
     /\ new.tz \in Zone /\ new.tz # old.tz
     /\ new.at = Anchor(Shown(old), new.tz) /\ new.src # "unknown"

\* What was said of an end holds of it, and nobody claims to have read a clock
\* that showed an instant of no known zone.
Right(word, e) ==
  e.at # Blank =>
    /\ IF word.wall THEN Shown(e) = word.time ELSE e.at = word.time
    /\ e.src = "unknown" => ~word.wall

LEMMA WallTyped ==
  ASSUME NEW t \in Int, NEW z \in Zone
  PROVE  Wall(t, z) \in Int
BY TimesAssumption DEF Wall, Offset

LEMMA ShownTyped ==
  ASSUME NEW e \in EndType, e.at # Blank
  PROVE  Shown(e) \in Int
<1>1. e.at \in Int /\ e.tz \in Zone \cup {Blank}
  BY DEF EndType
<1> QED BY <1>1, WallTyped DEF Shown

\* A reading given to an anchored end is the one it shows.
LEMMA RereadIsTrue ==
  ASSUME NEW old \in EndType, NEW new \in EndType, old.at # Blank,
         new.tz \in Zone, new.at = Anchor(Shown(old), new.tz)
  PROVE  Shown(new) = Reread(old, new).time /\ Reread(old, new).wall = TRUE
<1> DEFINE d == Shown(old)
<1>1. d \in Int
  BY ShownTyped
<1>2. candidates(d, new.tz) # {} => Wall(Anchor(d, new.tz), new.tz) = d
  BY <1>1, AnchorShows
<1>3. new.tz # Blank
  BY TimesAssumption
<1>4. Shown(new) = Wall(Anchor(d, new.tz), new.tz)
  BY <1>3 DEF Shown
<1>5. CASE candidates(d, new.tz) = {}
  BY <1>5, <1>3 DEF Reread, Skipped, Given
<1>6. CASE candidates(d, new.tz) # {}
  BY <1>6, <1>4, <1>2 DEF Reread, Skipped, Given
<1> QED BY <1>5, <1>6

LEMMA ToldIsTrue ==
  ASSUME NEW s \in Side, NEW old \in EndType, NEW new \in EndType, NEW relabels \in BOOLEAN,
         Matches(old), Matches(new), Kept(old, new, relabels), Right(said[s], old)
  PROVE  Right(Told(s, old, new, relabels), new)
<1> DEFINE told == Told(s, old, new, relabels)
<1>1. SUFFICES ASSUME new.at # Blank
               PROVE  Right(told, new)
  BY DEF Right
<1>2. old.at # Blank
  BY <1>1 DEF Kept
<1>3. CASE new.at = old.at /\ new.tz = old.tz /\ new.src = old.src
  <2>1. told = said[s]
    BY <1>3 DEF Told
  <2>2. Shown(new) = Shown(old)
    BY <1>3 DEF Shown
  <2> QED BY <2>1, <2>2, <1>1, <1>2, <1>3 DEF Right
<1>4. CASE ~(new.at = old.at /\ new.tz = old.tz /\ new.src = old.src)
  <2> DEFINE same == old.at = new.at /\ old.tz = new.tz /\ old.src = new.src
  <2>0. ~same
    BY <1>4
  <2>1. CASE old.src = "floating" /\ new.src # "unknown"
    <3>1. told = Reread(old, new)
      BY <2>1, <2>0, <1>2 DEF Told
    <3>2. old.tz = Blank
      BY <2>1 DEF Matches, Zoneless
    <3>3. Shown(old) = old.at
      BY <3>2 DEF Shown
    <3>4. /\ new.src # "unknown"
         /\ \/ new.tz = Blank /\ new.at = old.at
            \/ new.tz \in Zone /\ new.at = Anchor(old.at, new.tz)
      BY <2>1, <1>4, <1>2 DEF Kept, Zoneless
    <3>5. CASE new.tz = Blank /\ new.at = old.at
      <4>1. Reread(old, new) = Given(old.at) /\ Shown(new) = old.at
        BY <3>5, <3>3 DEF Reread, Skipped, Shown
      <4> QED BY <4>1, <3>1, <3>4 DEF Right, Given
    <3>6. CASE new.tz \in Zone /\ new.at = Anchor(old.at, new.tz)
      <4>1. Shown(new) = Reread(old, new).time /\ Reread(old, new).wall = TRUE
        BY <3>6, <3>3, <1>2, RereadIsTrue
      <4> QED BY <4>1, <3>1, <3>4 DEF Right
    <3> QED BY <3>4, <3>5, <3>6
  <2>6. CASE old.src = "floating" /\ new.src = "unknown"
    <3>1. relabels /\ new.at = old.at
      BY <2>6, <1>4, <1>2 DEF Kept, Zoneless
    <3>2. old.tz = Blank
      BY <2>6 DEF Matches, Zoneless
    <3>3. told = Instant(old.at, new.src)
      BY <2>6, <2>0, <3>1, <3>2, <1>2 DEF Told
    <3>4. told = TrueInstant(old.at)
      BY <2>6, <3>3 DEF Instant
    <3> HIDE DEF told
    <3>5. told = [wall |-> FALSE, time |-> old.at]
      BY <3>4 DEF TrueInstant
    <3>6. told.wall = FALSE /\ told.time = new.at
      BY <3>1, <3>5
    <3> QED BY <3>6 DEF Right
  <2>2. CASE old.src # "floating" /\ relabels
    <3>1. new.at = old.at /\ (new.src = "floating" => new.tz = Blank)
      BY <2>2, <1>4, <1>2 DEF Kept, Zoneless
    <3>2. CASE old.tz = Blank \/ old.tz # new.tz
      <4>1. told = IF new.src = "floating" THEN Given(old.at) ELSE TrueInstant(old.at)
        BY <2>2, <2>0, <3>2, <1>2 DEF Told, Instant
      <4>2. CASE new.src = "floating"
        BY <4>1, <4>2, <3>1 DEF Right, Given, Shown
      <4>3. CASE new.src # "floating"
        BY <4>1, <4>3, <3>1 DEF Right, TrueInstant
      <4> QED BY <4>2, <4>3
    <3>3. CASE ~(old.tz = Blank \/ old.tz # new.tz)
      <4>1. told = said[s]
        BY <2>2, <2>0, <3>3, <1>2 DEF Told
      <4>2. Shown(new) = Shown(old)
        BY <3>1, <3>3 DEF Shown
      <4>3. new.src # "unknown"
        BY <3>3 DEF Matches, Zoneless
      <4> QED BY <4>1, <4>2, <4>3, <3>1, <1>2 DEF Right
    <3> QED BY <3>2, <3>3
  <2>3. CASE old.src = "unknown" /\ ~relabels
    <3>1. told = said[s]
      BY <2>3, <2>0, <1>2 DEF Told
    <3>2. ~said[s].wall /\ old.at = said[s].time
      BY <2>3, <1>2 DEF Right
    <3>3. new.at = old.at
      BY <2>3, <1>4, <1>2 DEF Kept, Zoneless
    <3> QED BY <3>1, <3>2, <3>3 DEF Right
  <2>4. CASE old.src \notin Zoneless /\ ~relabels
    <3>1. old.src # "floating" /\ old.src # "unknown"
      BY <2>4 DEF Zoneless
    <3>2. CASE new.at = old.at /\ new.tz = old.tz /\ new.src # "unknown"
      <4>1. told = said[s]
        BY <2>4, <2>0, <3>1, <3>2, <1>2 DEF Told
      <4>2. Shown(new) = Shown(old)
        BY <3>2 DEF Shown
      <4> QED BY <4>1, <4>2, <3>2, <1>2 DEF Right
    <3>3. CASE new.tz \in Zone /\ new.tz # old.tz /\ new.at = Anchor(Shown(old), new.tz) /\ new.src # "unknown"
      <4>1. told = Reread(old, new)
        BY <2>4, <2>0, <3>1, <3>3, <1>2 DEF Told
      <4>2. Shown(new) = Reread(old, new).time /\ Reread(old, new).wall = TRUE
        BY <3>3, <1>2, RereadIsTrue
      <4> QED BY <4>1, <4>2, <3>3 DEF Right
    <3> QED BY <2>4, <3>1, <3>2, <3>3, <1>4, <1>2 DEF Kept
  <2>5. old.src \in Zoneless => old.src = "floating" \/ old.src = "unknown"
    BY DEF Zoneless
  <2> QED BY <2>1, <2>2, <2>3, <2>4, <2>5, <2>6
<1> QED BY <1>3, <1>4

---------------------------------------------------------------------------
\* What a worker may hold.
RowType == {row \in [Side -> EndType] : row["start"].at # Blank}
ChangeType ==
  [at : Int \cup {Keep}, tz : Zone \cup {Blank, Keep}, src : Source \cup {Keep},
   place : Place \cup {Blank, Keep}, pinned : BOOLEAN \cup {Keep}]
TurnType ==
  [code : Airport \cup {Keep}, time : Int \cup {Keep}, at : Int \cup {Keep},
   tz : Zone \cup {Blank, Keep}, src : Source \cup {Keep}, place : Place \cup {Blank, Keep}]
RouteType == [to : [Side -> TurnType], resolved : BOOLEAN \cup {Keep}]
JobType ==
  [pc : {"idle", "lookup", "locate", "pin", "read", "write", "reread", "flight", "sync", "route", "update"},
   stage : {"edit", "anchor", "geocode"}, in : Edits \cup {Blank}, timed : SUBSET Side,
   pl : [Side -> ChangeType], seen : RowType \cup {Blank}, fd : FlightType \cup {Blank}, route : RouteType \cup {Blank}]

HasSeen(j) ==
  j.pc \in {"lookup", "flight", "sync", "route", "update"} \/ (j.stage # "edit" /\ j.pc # "reread")
Holds(j) == j.pc \in {"locate", "pin", "read", "write"}
Dated(j, s) == j.stage = "edit" /\ s \in j.timed
EndAsStart(j) == j.seen["end"].at = j.seen["start"].at

\* The changes that anchor a flight's floating ends; an arrival that stands for
\* none takes the departure's.
AnchorsEnd(c) ==
  \/ c = Nothing
  \/ c.at \in Int /\ c.tz \in Zone /\ c.src = "confirmed" /\ c.place = Keep /\ c.pinned = Keep
AnchorsFlight(j) ==
  /\ \A s \in Side : AnchorsEnd(j.pl[s])
  /\ EndAsStart(j) /\ j.pl["end"] # Nothing =>
       j.seen["start"].tz = Blank /\ j.pl["end"].at = Anchor(j.seen["start"].at, j.pl["end"].tz)

\* A route that gives a time gives it to the part too, and one that leaves the
\* zone of an end alone leaves its source.
TurnOK(turn) ==
  /\ turn.time = Keep \/ turn.at = turn.time
  /\ turn.tz = Keep => turn.src = Keep

Formed(j) ==
  /\ j \in JobType
  /\ j.pc \in {"locate", "pin", "flight", "route", "update"} => j.stage = "edit"
  /\ j.pc = "lookup" => j.stage = "geocode"
  /\ j.stage = "anchor" => j.pc \in {"read", "write", "reread", "sync"}
  /\ j.pc # "idle" => IF j.stage = "geocode" THEN j.in = Blank ELSE j.in \in Edits
  /\ j.pc # "idle" /\ j.stage # "geocode" => j.timed = Timed(j.in)
  /\ HasSeen(j) => j.seen \in RowType
  /\ j.pc = "sync" \/ j.stage = "anchor" \/ (j.pc = "reread" /\ j.stage # "edit") => j.fd \in FlightType
  /\ j.pc = "update" =>
       /\ j.route \in RouteType
       /\ \A s \in Side : TurnOK(j.route.to[s])
  /\ Holds(j) => \A s \in Side : Dated(j, s) => j.pl[s].at # Keep
  /\ Holds(j) /\ j.stage = "anchor" => AnchorsFlight(j)

\* What a worker holds of an end that nobody has written since it read it.
Opened(in, c, s, e) ==
  LET z == IF in.zone[s] # Keep THEN in.zone[s] ELSE e.tz IN
  /\ c.tz = in.zone[s]
  /\ in.local[s] = Blank =>
       /\ c.at = IF in.at[s] = Blank THEN Keep ELSE in.at[s]
       /\ c.src = in.src[s]
  /\ in.local[s] # Blank =>
       /\ c.at = IF z = Blank THEN in.local[s] ELSE Anchor(in.local[s], z)
       /\ c.src = IF z = Blank THEN "floating" ELSE in.src[s]
       /\ z # Blank => candidates(in.local[s], z) # {}
Shows(in, s, new, e) ==
  IF in.local[s] = Blank THEN new.at = in.at[s]
  ELSE \/ in.zone[s] = Keep /\ new.tz # e.tz
       \/ Shown(new) = in.local[s] /\ new.src # "unknown"
Fits(j, s, c, e) ==
  Matches(ApplyEnd(e, c)) =>
    IF Dated(j, s) THEN Shows(j.in, s, ApplyEnd(e, c), e)
    ELSE IF j.stage = "anchor" /\ s = "end" /\ EndAsStart(j) THEN TRUE
    ELSE Kept(e, ApplyEnd(e, c), j.stage = "edit" /\ Relabels(j.in, s))
Placed(j, s, e) ==
  j.pl[s].place # Keep =>
    \/ e.place = Blank \/ ~e.pinned
    \/ j.in # Blank /\ (j.in.coords[s] # Blank \/ j.in.pin[s] = FALSE)
Routed(turn, e) ==
  turn.time = Keep /\ turn.at # Keep =>
    /\ e.src = "floating" /\ e.at # Blank
    /\ turn.tz \in Zone /\ turn.src = "confirmed" /\ turn.at = Anchor(e.at, turn.tz)

Fresh(j, s, e) ==
  /\ j.pc # "idle" /\ HasSeen(j) => j.seen[s] = e
  /\ j.pc \in {"locate", "pin"} => Opened(j.in, j.pl[s], s, e)
  /\ j.pc = "read" => Fits(j, s, anchorFloating(j.pl[s], e), e)
  /\ j.pc = "write" => Fits(j, s, j.pl[s], e)
  /\ Holds(j) => Placed(j, s, e)
  /\ j.pc = "update" => Routed(j.route.to[s], e)

\* The inductive invariant.
PartOK ==
  /\ part \in RowType /\ \A s \in Side : Matches(part[s])
  /\ flight \in FlightType \cup {Blank}
  /\ lost \subseteq Side
FixesOK ==
  fixes # Blank =>
    /\ DOMAIN fixes \subseteq Side
    /\ \A s \in DOMAIN fixes :
         fixes[s].old \in Int /\ fixes[s].tz \in Zone /\ fixes[s].src \in Source \ Zoneless
         /\ fixes[s].at = Anchor(fixes[s].old, fixes[s].tz)
JobsOK ==
  /\ job \in [Worker -> JobType]
  /\ \A w \in Worker : Formed(job[w])
  /\ \A w \in Worker : job[w].fd # Blank \/ job[w].pc \in {"reread", "flight", "route", "update"} => flight # Blank
DisturbedOK == disturbed \in [Worker -> SUBSET Side]
HeldOK == \A w \in Worker : \A s \in Side \ disturbed[w] : Fresh(job[w], s, part[s])
SaidOK == \A s \in Side \ lost : Right(said[s], part[s])
TimesInv == PartOK /\ FixesOK /\ JobsOK /\ DisturbedOK /\ HeldOK /\ SaidOK

---------------------------------------------------------------------------
\* The helpers.
LEMMA ApplyTyped ==
  ASSUME NEW e \in EndType, NEW c \in ChangeType
  PROVE  /\ ApplyEnd(e, c) \in EndType
         /\ e.at # Blank => ApplyEnd(e, c).at # Blank
<1>1. /\ c.at \in Int \cup {Keep} /\ c.tz \in Zone \cup {Blank, Keep} /\ c.src \in Source \cup {Keep}
      /\ c.place \in Place \cup {Blank, Keep} /\ c.pinned \in BOOLEAN \cup {Keep}
  BY DEF ChangeType
<1>2. /\ e.at \in Int \cup {Blank} /\ e.tz \in Zone \cup {Blank} /\ e.src \in Source
      /\ e.place \in Place \cup {Blank} /\ e.pinned \in BOOLEAN
  BY DEF EndType
<1>3. /\ Or(c.at, e.at) \in Int \cup {Blank} /\ Or(c.tz, e.tz) \in Zone \cup {Blank}
      /\ Or(c.src, e.src) \in Source /\ Or(c.place, e.place) \in Place \cup {Blank}
      /\ Or(c.pinned, e.pinned) \in BOOLEAN
  BY <1>1, <1>2 DEF Or
<1>4. e.at # Blank => Or(c.at, e.at) # Blank
  BY <1>1, TimesAssumption DEF Or
<1> QED BY <1>3, <1>4 DEF ApplyEnd, EndType

LEMMA anchorFloatingTyped ==
  ASSUME NEW e \in EndType, NEW c \in ChangeType
  PROVE  anchorFloating(c, e) \in ChangeType
<1>1. c.tz \in Zone \cup {Blank, Keep} /\ e.at \in Int \cup {Blank}
  BY DEF ChangeType, EndType
<1>2. [c EXCEPT !.src = "floating"] \in ChangeType /\ [c EXCEPT !.src = "unknown"] \in ChangeType
  BY DEF ChangeType, Source, Zoneless
<1>3. CASE c.tz \in Zone /\ e.at \in Int
  <2>1. Anchor(e.at, c.tz) \in Int
    BY <1>3, AnchorShows
  <2>2. [c EXCEPT !.src = "confirmed", !.at = Anchor(e.at, c.tz)] \in ChangeType
    BY <2>1 DEF ChangeType, Source, Zoneless
  <2> QED BY <1>2, <2>2 DEF anchorFloating
<1>4. CASE ~(c.tz \in Zone /\ e.at \in Int)
  BY <1>1, <1>2, <1>4 DEF anchorFloating
<1> QED BY <1>3, <1>4

LEMMA NothingTyped ==
  /\ Nothing \in ChangeType /\ NoChange \in [Side -> ChangeType]
BY DEF Nothing, NoChange, ChangeType

LEMMA IdleIsFormed == Formed(Idle)
<1>1. Idle \in JobType
  BY NothingTyped DEF Idle, JobType
<1> QED BY <1>1 DEF Formed, Idle, HasSeen, Holds

LEMMA IdleIsFresh ==
  ASSUME NEW s, NEW e
  PROVE  Fresh(Idle, s, e)
BY DEF Fresh, Idle, Holds

---------------------------------------------------------------------------
\* A step that only changes what one worker holds.
LEMMA OneHolds ==
  ASSUME TimesInv, NEW w \in Worker, NEW rec, Step(w, rec), Formed(rec),
         UNCHANGED <<part, fixes, said, lost>>,
         flight' \in FlightType \cup {Blank}, flight # Blank => flight' # Blank,
         rec.fd # Blank \/ rec.pc \in {"reread", "flight", "route", "update"} => flight # Blank,
         UNCHANGED disturbed \/ ReadsNow(w),
         \A s \in Side \ disturbed'[w] : Fresh(rec, s, part[s])
  PROVE  TimesInv'
<1>1. job \in [Worker -> JobType] /\ disturbed \in [Worker -> SUBSET Side]
  BY DEF TimesInv, JobsOK, DisturbedOK
<1>2. rec \in JobType
  BY DEF Formed
<1>3. job' = [job EXCEPT ![w] = rec]
  BY DEF Step
<1>4. job' \in [Worker -> JobType] /\ job'[w] = rec /\ \A v \in Worker : v # w => job'[v] = job[v]
  BY <1>1, <1>2, <1>3
<1>5. /\ disturbed' \in [Worker -> SUBSET Side]
      /\ \A v \in Worker : v # w => disturbed'[v] = disturbed[v]
  BY <1>1 DEF ReadsNow
<1>6. PartOK' /\ FixesOK' /\ SaidOK'
  BY DEF TimesInv, PartOK, FixesOK, SaidOK
<1>7. JobsOK'
  BY <1>4 DEF TimesInv, JobsOK
<1>8. HeldOK'
  <2>1. SUFFICES ASSUME NEW v \in Worker, NEW s \in Side \ disturbed'[v]
                 PROVE  Fresh(job'[v], s, part[s])
    BY DEF HeldOK
  <2>2. CASE v = w
    BY <2>2, <1>4
  <2>3. CASE v # w
    BY <2>3, <1>4, <1>5 DEF TimesInv, HeldOK
  <2> QED BY <2>2, <2>3
<1> QED BY <1>5, <1>6, <1>7, <1>8 DEF TimesInv, DisturbedOK

LEMMA OneEnds ==
  ASSUME TimesInv, NEW w \in Worker, Ends(w), UNCHANGED <<part, fixes, said, lost>>,
         flight' \in FlightType \cup {Blank}, flight # Blank => flight' # Blank
  PROVE  TimesInv'
<1>1. Idle.fd = Blank /\ Idle.pc = "idle"
  BY DEF Idle
<1>2. Step(w, Idle) /\ ReadsNow(w)
  BY DEF Ends
<1> QED BY <1>1, <1>2, IdleIsFormed, IdleIsFresh, OneHolds

\* A step that writes the part: every other worker that had read a changed end
\* is told so.
LEMMA OthersHold ==
  ASSUME TimesInv, NEW w, NEW new, part' = new, Disturbs(new, w),
         NEW v \in Worker, v # w, job'[v] = job[v]
  PROVE  \A s \in Side \ disturbed'[v] : Fresh(job'[v], s, part'[s])
<1>1. SUFFICES ASSUME NEW s \in Side \ disturbed'[v]
               PROVE  Fresh(job[v], s, part'[s])
  OBVIOUS
<1>2. disturbed'[v] = disturbed[v] \cup (IF job[v].pc = "idle" THEN {} ELSE Moved(new))
  BY DEF Disturbs
<1>3. CASE job[v].pc = "idle"
  BY <1>3 DEF Fresh, Holds
<1>4. CASE job[v].pc # "idle"
  <2>1. s \notin Moved(new) /\ s \in Side \ disturbed[v]
    BY <1>2, <1>4
  <2>2. part'[s] = part[s]
    BY <2>1 DEF Moved
  <2> QED BY <2>1, <2>2 DEF TimesInv, HeldOK
<1> QED BY <1>3, <1>4

LEMMA DisturbsTyped ==
  ASSUME TimesInv, NEW w, NEW new, Disturbs(new, w)
  PROVE  DisturbedOK'
<1>1. \A v \in Worker : disturbed[v] \subseteq Side
  BY DEF TimesInv, DisturbedOK
<1>2. Moved(new) \subseteq Side
  BY DEF Moved
<1> QED BY <1>1, <1>2 DEF DisturbedOK, Disturbs

---------------------------------------------------------------------------
\* A traveller's edit, up to the write.
LEMMA EditTyped ==
  ASSUME NEW in \in Edits, NEW s \in Side
  PROVE  /\ in.local[s] \in Int \cup {Blank} /\ in.at[s] \in Int \cup {Blank}
         /\ in.src[s] \in Source \cup {Keep} /\ in.zone[s] \in Zone \cup {Blank, Keep}
         /\ in.coords[s] \in Place \cup {Blank} /\ in.pin[s] \in BOOLEAN \cup {Keep}
         /\ in.airport[s] \in Airport \cup {Blank}
<1>1. in \in EditType
  BY TimesAssumption
<1> QED BY <1>1 DEF EditType

LEMMA Change0Opens ==
  ASSUME PartOK, NEW in \in Edits, NEW s \in Side, ~Refused(in)
  PROVE  /\ Change0(in, s) \in ChangeType /\ Opened(in, Change0(in, s), s, part[s])
         /\ s \in Timed(in) => Change0(in, s).at # Keep
         /\ Change0(in, s).place # Keep => in.coords[s] # Blank
<1> DEFINE z == LocalZone(in, s)
           c == Change0(in, s)
           l == in.local[s]
           floats == l # Blank /\ z = Blank
<1>1. /\ l \in Int \cup {Blank} /\ in.zone[s] \in Zone \cup {Blank, Keep}
      /\ in.at[s] \in Int \cup {Blank} /\ in.src[s] \in Source \cup {Keep}
      /\ in.coords[s] \in Place \cup {Blank} /\ in.pin[s] \in BOOLEAN \cup {Keep}
  BY EditTyped
<1>2. part[s].tz \in Zone \cup {Blank}
  BY DEF PartOK, RowType, EndType
<1>3. z \in Zone \cup {Blank}
  BY <1>1, <1>2 DEF LocalZone
<1>4. z = IF in.zone[s] # Keep THEN in.zone[s] ELSE part[s].tz
  BY DEF LocalZone
<1>5. l # Blank /\ z # Blank => candidates(l, z) # {} /\ Anchor(l, z) \in Int
  <2>1. l # Blank /\ z # Blank => candidates(l, z) # {}
    BY DEF Refused
  <2>2. l # Blank /\ z # Blank => Anchor(l, z) \in Int
    BY <1>1, <1>3, AnchorShows
  <2> QED BY <2>1, <2>2
<1> DEFINE at == IF l = Blank THEN (IF in.at[s] = Blank THEN Keep ELSE in.at[s])
                 ELSE IF floats THEN l ELSE Anchor(l, z)
           src == IF floats THEN "floating" ELSE in.src[s]
           place == IF in.coords[s] = Blank THEN Keep ELSE in.coords[s]
<1>6. at \in Int \cup {Keep} /\ (l # Blank \/ in.at[s] # Blank => at \in Int)
  BY <1>1, <1>5
<1>7. src \in Source \cup {Keep} /\ place \in Place \cup {Blank, Keep}
  BY <1>1 DEF Source, Zoneless
<1>8. c = [at |-> at, tz |-> in.zone[s], src |-> src, place |-> place, pinned |-> in.pin[s]]
  BY DEF Change0
<1>9. c \in ChangeType /\ c.at = at /\ c.tz = in.zone[s] /\ c.src = src /\ c.place = place
  <2> HIDE DEF c, at, src, place
  <2> QED BY <1>1, <1>6, <1>7, <1>8 DEF ChangeType
<1>10. s \in Timed(in) => c.at # Keep
  BY <1>6, <1>9, TimesAssumption DEF Timed
<1>11. c.place # Keep => in.coords[s] # Blank
  BY <1>9
<1>12. Opened(in, c, s, part[s])
  <2> HIDE DEF c
  <2> QED BY <1>4, <1>5, <1>9 DEF Opened
<1> QED BY <1>9, <1>10, <1>11, <1>12

LEMMA StartEditHolds ==
  ASSUME TimesInv, NEW w \in Editors, NEW in \in Edits, StartEdit(w, in)
  PROVE  TimesInv'
<1> DEFINE pl == [s \in Side |-> Change0(in, s)]
           rec == [Idle EXCEPT !.pc = "locate", !.in = in, !.timed = Timed(in), !.pl = pl]
<1>1. /\ ~Refused(in) /\ Step(w, rec) /\ ReadsNow(w) /\ UNCHANGED Rows /\ w \in Worker
  BY DEF StartEdit, Worker
<1>2. \A s \in Side : Change0(in, s) \in ChangeType /\ Opened(in, Change0(in, s), s, part[s])
        /\ (s \in Timed(in) => Change0(in, s).at # Keep) /\ (Change0(in, s).place # Keep => in.coords[s] # Blank)
  BY <1>1, Change0Opens DEF TimesInv
<1>3. /\ rec.pc = "locate" /\ rec.in = in /\ rec.timed = Timed(in) /\ rec.stage = "edit" /\ rec.fd = Blank
      /\ \A s \in Side : rec.pl[s] = Change0(in, s)
  BY DEF Idle
<1>4. rec \in JobType
  <2>1. pl \in [Side -> ChangeType]
    BY <1>2
  <2>2. Timed(in) \subseteq Side
    BY DEF Timed
  <2> QED BY <2>1, <2>2, IdleIsFormed DEF Formed, JobType
<1>5. Formed(rec)
  BY <1>2, <1>3, <1>4 DEF Formed, HasSeen, Dated
<1>6. in # Blank
  BY TimesAssumption
<1>7. \A s \in Side : Fresh(rec, s, part[s])
  BY <1>2, <1>3, <1>6 DEF Fresh, HasSeen, Placed
<1> HIDE DEF rec
<1> QED BY <1>1, <1>3, <1>5, <1>7, OneHolds DEF Rows, TimesInv, PartOK

LEMMA LocateHolds ==
  ASSUME TimesInv, NEW w \in Editors, Locate(w)
  PROVE  TimesInv'
<1> DEFINE j == job[w]
<1>1. w \in Worker /\ j.pc = "locate" /\ UNCHANGED Rows /\ UNCHANGED disturbed
  BY DEF Locate, Worker
<1>2. PICK found \in [{s \in Side : LooksUp(j.in, s)} -> Finds \cup {Keep}] :
        Step(w, [j EXCEPT !.pc = "pin",
                   !.pl = [s \in Side |-> IF s \in DOMAIN found THEN [@[s] EXCEPT !.place = found[s]] ELSE @[s]]])
  BY DEF Locate
<1> DEFINE pl == [s \in Side |-> IF s \in DOMAIN found THEN [j.pl[s] EXCEPT !.place = found[s]] ELSE j.pl[s]]
           rec == [j EXCEPT !.pc = "pin", !.pl = pl]
<1>3. Step(w, rec)
  BY <1>2
<1>4. Formed(j) /\ \A s \in Side \ disturbed[w] : Fresh(j, s, part[s])
  BY <1>1 DEF TimesInv, JobsOK, HeldOK
<1>5. j \in JobType /\ j.stage = "edit" /\ j.in \in Edits /\ j.pl \in [Side -> ChangeType]
  BY <1>1, <1>4 DEF Formed, JobType
<1>6. \A s \in Side : /\ pl[s] \in ChangeType
                      /\ pl[s].at = j.pl[s].at /\ pl[s].tz = j.pl[s].tz /\ pl[s].src = j.pl[s].src
                      /\ pl[s].place # j.pl[s].place => LooksUp(j.in, s)
  <2> SUFFICES ASSUME NEW s \in Side
               PROVE  /\ pl[s] \in ChangeType
                      /\ pl[s].at = j.pl[s].at /\ pl[s].tz = j.pl[s].tz /\ pl[s].src = j.pl[s].src
                      /\ pl[s].place # j.pl[s].place => LooksUp(j.in, s)
    OBVIOUS
  <2>1. j.pl[s] \in ChangeType
    BY <1>5
  <2>2. CASE s \in DOMAIN found
    <3>1. found[s] \in Place \cup {Blank, Keep} /\ LooksUp(j.in, s)
      BY <1>2, <2>2, TimesAssumption
    <3>2. pl[s] = [j.pl[s] EXCEPT !.place = found[s]]
      BY <2>2
    <3> HIDE DEF pl, j
    <3> QED BY <2>1, <3>1, <3>2 DEF ChangeType
  <2>3. CASE s \notin DOMAIN found
    BY <2>1, <2>3
  <2> QED BY <2>2, <2>3
<1>7. rec \in JobType /\ rec.pc = "pin" /\ rec.in = j.in /\ rec.stage = "edit" /\ rec.fd = j.fd /\ rec.pl = pl
      /\ rec.seen = j.seen /\ rec.timed = j.timed
  <2>1. pl \in [Side -> ChangeType]
    BY <1>6
  <2> HIDE DEF pl, j
  <2> QED BY <1>5, <2>1 DEF JobType
<1>8. Formed(rec)
  <2>1. (\A s \in Side : Dated(j, s) => j.pl[s].at # Keep) /\ j.timed = Timed(j.in)
    BY <1>1, <1>4, <1>5 DEF Formed, Holds
  <2> HIDE DEF rec, pl, j
  <2> QED BY <1>5, <1>6, <1>7, <2>1 DEF Formed, HasSeen, Dated
<1>9. \A s \in Side \ disturbed[w] : Fresh(rec, s, part[s])
  <2> SUFFICES ASSUME NEW s \in Side \ disturbed[w]
               PROVE  Fresh(rec, s, part[s])
    OBVIOUS
  <2>1. Opened(j.in, j.pl[s], s, part[s]) /\ Placed(j, s, part[s])
    BY <1>1, <1>4 DEF Fresh, Holds
  <2>2. Opened(j.in, pl[s], s, part[s])
    <3> HIDE DEF pl, j
    <3> QED BY <1>6, <2>1 DEF Opened
  <2>3. Placed(rec, s, part[s])
    <3>1. CASE pl[s].place = j.pl[s].place
      <4> HIDE DEF rec, pl, j
      <4> QED BY <3>1, <1>7, <2>1 DEF Placed
    <3>2. CASE pl[s].place # j.pl[s].place
      <4>1. Or(j.in.pin[s], part[s].pinned) = FALSE
        BY <3>2, <1>6 DEF LooksUp
      <4>2. j.in # Blank
        BY <1>5, TimesAssumption
      <4>3. j.in.pin[s] = FALSE \/ ~part[s].pinned
        BY <4>1 DEF Or
      <4> HIDE DEF rec, pl, j
      <4> QED BY <4>2, <4>3, <1>7 DEF Placed
    <3> QED BY <3>1, <3>2
  <2> HIDE DEF rec, pl, j
  <2> QED BY <2>2, <2>3, <1>7 DEF Fresh, HasSeen
<1>10. rec.fd # Blank \/ rec.pc \in {"reread", "flight", "route", "update"} => flight # Blank
  BY <1>1, <1>7 DEF TimesInv, JobsOK
<1> HIDE DEF rec
<1> QED BY <1>1, <1>3, <1>8, <1>9, <1>10, OneHolds DEF Rows, TimesInv, PartOK

\* What a write makes of an end.
LEMMA ApplyReads ==
  ASSUME NEW e, NEW c
  PROVE  /\ ApplyEnd(e, c).at = Or(c.at, e.at) /\ ApplyEnd(e, c).tz = Or(c.tz, e.tz)
         /\ ApplyEnd(e, c).src = Or(c.src, e.src) /\ ApplyEnd(e, c).place = Or(c.place, e.place)
BY DEF ApplyEnd

\* A pin changes the zone of an end whose zone the request leaves alone, and
\* keeps its reading.
PinMoves(r, c, e, z) ==
  /\ ~TouchesZone(c) /\ e.at # Blank
  /\ r.tz = z /\ r.src = "confirmed" /\ r.place = c.place
  /\ r.at = IF c.at = Keep /\ z # e.tz /\ e.src # "unknown" THEN Anchor(Shown(e), z) ELSE c.at

LEMMA RezonedIs ==
  ASSUME PartOK, NEW in \in Edits, NEW pl \in [Side -> ChangeType], NEW s \in Side
  PROVE  /\ Rezoned(in, pl, s) \in ChangeType
         /\ \/ Rezoned(in, pl, s) = pl[s]
            \/ \E z \in Zone : PinMoves(Rezoned(in, pl, s), pl[s], part[s], z)
<1> DEFINE p == PinnedPlace(in, pl, s)
           z == IF p = Blank THEN Blank ELSE ZoneAt[p]
           r == Rezoned(in, pl, s)
           e == part[s]
           c == pl[s]
<1>1. p \in Place \cup {Blank}
  <2>1. in.coords[s] \in Place \cup {Blank} /\ in.coords["start"] \in Place \cup {Blank}
    BY EditTyped DEF Side
  <2> QED BY <2>1 DEF PinnedPlace
<1>2. z \in Zone \cup {Blank} /\ c \in ChangeType /\ e \in EndType
  BY <1>1, TimesAssumption DEF PartOK, RowType
<1>3. CASE z = Blank \/ e.at = Blank \/ TouchesZone(c)
  <2>1. r = c
    BY <1>3 DEF Rezoned
  <2> QED BY <2>1, <1>2
<1>4. CASE ~(z = Blank \/ e.at = Blank \/ TouchesZone(c))
  <2> DEFINE at == IF c.at = Keep /\ z # e.tz /\ e.src # "unknown" THEN Anchor(Shown(e), z) ELSE c.at
  <2>1. r = [c EXCEPT !.tz = z, !.src = "confirmed", !.at = at]
    BY <1>4 DEF Rezoned, keepWallClock
  <2>2. z \in Zone /\ ~TouchesZone(c) /\ e.at # Blank
    BY <1>2, <1>4
  <2>3. Anchor(Shown(e), z) \in Int
    <3> HIDE DEF z, e
    <3> QED BY <2>2, <1>2, ShownTyped, AnchorShows
  <2>4. at \in Int \cup {Keep}
    BY <2>3, <1>2 DEF ChangeType
  <2> HIDE DEF z, r, c, e, at
  <2>5. r \in ChangeType /\ r.tz = z /\ r.src = "confirmed" /\ r.place = c.place /\ r.at = at
    BY <2>1, <2>2, <2>4, <1>2 DEF ChangeType, Source, Zoneless
  <2>6. PinMoves(r, c, e, z)
    BY <2>2, <2>5 DEF PinMoves, at
  <2> QED BY <2>2, <2>5, <2>6 DEF r, c, e
<1> QED BY <1>3, <1>4

LEMMA RezonedTyped ==
  ASSUME PartOK, NEW in \in Edits, NEW pl \in [Side -> ChangeType], NEW s \in Side
  PROVE  /\ Rezoned(in, pl, s) \in ChangeType
         /\ Rezoned(in, pl, s).place = pl[s].place
         /\ pl[s].at # Keep => Rezoned(in, pl, s).at # Keep
<1>1. Rezoned(in, pl, s) \in ChangeType
  BY RezonedIs
<1>2. CASE Rezoned(in, pl, s) = pl[s]
  BY <1>1, <1>2
<1>3. ASSUME NEW z \in Zone, PinMoves(Rezoned(in, pl, s), pl[s], part[s], z)
      PROVE  /\ Rezoned(in, pl, s).place = pl[s].place
             /\ pl[s].at # Keep => Rezoned(in, pl, s).at # Keep
  BY <1>3 DEF PinMoves
<1> QED BY <1>1, <1>2, <1>3, RezonedIs

LEMMA RezonedFits ==
  ASSUME PartOK, NEW in \in Edits, NEW pl \in [Side -> ChangeType], NEW s \in Side,
         Opened(in, pl[s], s, part[s])
  PROVE  LET new == ApplyEnd(part[s], anchorFloating(Rezoned(in, pl, s), part[s])) IN
         Matches(new) =>
           IF s \in Timed(in) THEN Shows(in, s, new, part[s])
           ELSE Kept(part[s], new, Relabels(in, s))
<1> DEFINE r == Rezoned(in, pl, s)
           e == part[s]
           c == pl[s]
           l == in.local[s]
           t == in.at[s]
           k == in.src[s]
           y == in.zone[s]
           a == anchorFloating(r, e)
           new == ApplyEnd(e, a)
           goal == IF l # Blank \/ t # Blank THEN Shows(in, s, new, e) ELSE Kept(e, new, y # Keep \/ k # Keep)
<1>0. SUFFICES ASSUME (new.tz = Blank) = (new.src \in Zoneless)
               PROVE  goal
  <2>1. s \in Timed(in) <=> l # Blank \/ t # Blank
    BY DEF Timed
  <2>2. Relabels(in, s) = (y # Keep \/ k # Keep)
    BY DEF Relabels
  <2> QED BY <2>1, <2>2 DEF Matches
<1>1. /\ c \in ChangeType /\ e \in EndType /\ Matches(e)
      /\ l \in Int \cup {Blank} /\ y \in Zone \cup {Blank, Keep}
      /\ t \in Int \cup {Blank} /\ k \in Source \cup {Keep}
  BY EditTyped DEF PartOK, RowType
<1>2. /\ e.at \in Int \cup {Blank} /\ e.tz \in Zone \cup {Blank} /\ e.src \in Source
      /\ (e.tz = Blank) = (e.src \in Zoneless)
  BY <1>1 DEF EndType, Matches
<1>3. /\ new.at = Or(a.at, e.at) /\ new.tz = Or(a.tz, e.tz) /\ new.src = Or(a.src, e.src)
  BY ApplyReads
<1>4. /\ c.tz = y
      /\ l = Blank => c.src = k /\ c.at = IF t = Blank THEN Keep ELSE t
  BY DEF Opened
<1> DEFINE z == IF y # Keep THEN y ELSE e.tz
<1>5. l # Blank => /\ c.at = IF z = Blank THEN l ELSE Anchor(l, z)
                   /\ c.src = IF z = Blank THEN "floating" ELSE k
                   /\ z # Blank => candidates(l, z) # {}
  BY DEF Opened
<1>6. z \in Zone \cup {Blank} /\ Blank \notin Zone /\ Keep \notin Zone \cup {Blank} /\ Keep \notin Source
      /\ Keep \notin Int /\ Blank \notin Int
  BY <1>1, <1>2, TimesAssumption
<1>7. l # Blank => c.at \in Int /\ (z # Blank => Wall(c.at, z) = l)
  BY <1>1, <1>5, <1>6, AnchorShows
<1>8. Zoneless = {"unknown", "floating"}
  BY DEF Zoneless
<1>9. CASE r = c
  <2>1. CASE l # Blank
    <3>1. a = c
      BY <1>9, <1>7, <1>6, <2>1 DEF anchorFloating
    <3>2. new.at = c.at /\ new.tz = z /\ (z = Blank => new.src = "floating")
      <4> HIDE DEF new, a, c, r, e, l, k
      <4> QED BY <3>1, <1>3, <1>4, <1>5, <1>6, <1>7, <2>1 DEF Or, Source, Zoneless
    <3>3. Shown(new) = l
      <4> HIDE DEF new, a, c, r, e, l, z
      <4> QED BY <3>2, <1>5, <1>7, <2>1 DEF Shown
    <3>4. new.src # "unknown"
      <4> HIDE DEF new, a, c, r, e, l, z
      <4> QED BY <3>2, <1>0, <1>8
    <3> QED BY <2>1, <3>3, <3>4 DEF Shows
  <2>6. CASE l = Blank /\ t # Blank
    <3>1. c.at = t /\ c.at # Keep
      BY <1>1, <1>4, <1>6, <2>6
    <3>2. a = c
      BY <1>9, <3>1 DEF anchorFloating
    <3>3. new.at = t
      <4> HIDE DEF new, a, c, r, e, l, y, z, t, k
      <4> QED BY <3>1, <3>2, <1>3 DEF Or
    <3> QED BY <2>6, <3>3 DEF Shows
  <2>2. CASE l = Blank /\ t = Blank /\ y = Keep
    <3>1. a = c
      BY <1>9, <1>4, <2>2 DEF anchorFloating
    <3>2. new.at = e.at /\ new.tz = e.tz /\ new.src = IF k = Keep THEN e.src ELSE k
      <4> HIDE DEF new, a, c, r, e, l, y, z, t, k
      <4> QED BY <3>1, <1>3, <1>4, <2>2 DEF Or
    <3>3. Kept(e, new, y # Keep \/ k # Keep)
      <4> HIDE DEF new, a, c, r, e, l, y, z, t, k
      <4>1. CASE k = Keep
        BY <3>2, <4>1 DEF Kept
      <4>2. CASE k # Keep /\ e.at = Blank
        BY <3>2, <4>2 DEF Kept
      <4>3. CASE k # Keep /\ e.at # Blank /\ e.src = "floating"
        <5>1. new.src = "floating" \/ new.src = "unknown"
          BY <3>2, <4>3, <1>0, <1>2, <1>8
        <5> QED BY <5>1, <3>2, <4>3 DEF Kept
      <4>4. CASE k # Keep /\ e.at # Blank /\ e.src # "floating"
        <5>1. new.src = "floating" => new.tz = Blank
          BY <1>0, <1>8
        <5> QED BY <5>1, <3>2, <4>4 DEF Kept
      <4> QED BY <4>1, <4>2, <4>3, <4>4
    <3> QED BY <2>2, <3>3
  <2>3. CASE l = Blank /\ t = Blank /\ y # Keep /\ e.at = Blank
    <3>1. a = c \/ a = [c EXCEPT !.src = "unknown"]
      BY <1>9, <1>4, <2>3 DEF anchorFloating
    <3>2. a.at = Keep
      <4> HIDE DEF new, a, c, r, e, l, y, z, t, k
      <4> QED BY <3>1, <1>1, <1>4, <2>3 DEF ChangeType
    <3>3. new.at = Blank
      <4> HIDE DEF new, a, c, r, e, l, y, z, t, k
      <4> QED BY <3>2, <1>3, <2>3 DEF Or
    <3>4. Kept(e, new, y # Keep \/ k # Keep)
      BY <3>3, <2>3 DEF Kept
    <3> QED BY <2>3, <3>4
  <2>4. CASE l = Blank /\ t = Blank /\ y # Keep /\ e.at # Blank /\ e.src # "floating"
    <3>1. a = c
      BY <1>9, <2>4 DEF anchorFloating
    <3>2. new.at = e.at /\ new.tz = y
      <4> HIDE DEF new, a, c, r, e, l, y, z, t, k
      <4> QED BY <3>1, <1>3, <1>4, <1>6, <2>4 DEF Or
    <3>3. new.src = "floating" => new.tz = Blank
      <4> HIDE DEF new
      <4> QED BY <1>0, <1>8
    <3>4. Kept(e, new, y # Keep \/ k # Keep)
      <4> HIDE DEF new, a, c, r, e, l, y, z, t, k
      <4> QED BY <3>2, <3>3, <2>4 DEF Kept
    <3> QED BY <2>4, <3>4
  <2>5. CASE l = Blank /\ t = Blank /\ y # Keep /\ e.at # Blank /\ e.src = "floating"
    <3>1. CASE y = Blank
      <4>1. a = [c EXCEPT !.src = "floating"]
        BY <1>9, <1>4, <1>6, <2>5, <3>1 DEF anchorFloating
      <4>2. a.at = Keep /\ a.tz = Blank /\ a.src = "floating"
        <5> HIDE DEF a, c, r, e, l, y, z, t, k
        <5> QED BY <4>1, <1>1, <1>4, <2>5, <3>1 DEF ChangeType
      <4>3. new.at = e.at /\ new.tz = Blank /\ new.src = "floating"
        <5> HIDE DEF new, a, c, r, e, l, y, z
        <5> QED BY <4>2, <1>3, <1>6 DEF Or, Source, Zoneless
      <4>4. Kept(e, new, y # Keep \/ k # Keep)
        <5> HIDE DEF new, a, c, r, e, l, y, z, t, k
        <5> QED BY <4>3, <2>5 DEF Kept
      <4> QED BY <2>5, <4>4
    <3>2. CASE y # Blank
      <4>0. y \in Zone
        BY <1>1, <2>5, <3>2
      <4>1. a = [c EXCEPT !.src = "confirmed", !.at = Anchor(e.at, y)]
        BY <1>9, <1>4, <1>6, <2>5, <3>2 DEF anchorFloating
      <4>2. a.at = Anchor(e.at, y) /\ a.tz = y /\ a.src = "confirmed"
        <5> HIDE DEF a, c, r, e, l, y, z, t, k
        <5> QED BY <4>1, <1>1, <1>4, <2>5, <3>2 DEF ChangeType
      <4>3. Anchor(e.at, y) \in Int
        BY <1>2, <4>0, <2>5, AnchorShows
      <4>4. new.at = Anchor(e.at, y) /\ new.tz = y /\ new.src = "confirmed"
        <5> HIDE DEF new, a, c, r, e, l, y, z, t, k
        <5> QED BY <4>2, <4>3, <1>3, <1>6, <2>5 DEF Or, Source, Zoneless
      <4>5. Kept(e, new, y # Keep \/ k # Keep)
        <5> HIDE DEF new, a, c, r, e, l, y, z, t, k
        <5> QED BY <4>0, <4>4, <2>5 DEF Kept
      <4> QED BY <2>5, <4>5
    <3> QED BY <3>1, <3>2
  <2> QED BY <2>1, <2>2, <2>3, <2>4, <2>5, <2>6
<1>10. ASSUME NEW p \in Zone, PinMoves(r, c, e, p)
       PROVE  goal
  <2> DEFINE moves == c.at = Keep /\ p # e.tz /\ e.src # "unknown"
  <2>1. y = Keep /\ e.at # Blank
    BY <1>10, <1>4 DEF PinMoves, TouchesZone
  <2>2. r.tz = p /\ r.src = "confirmed" /\ r.at = IF moves THEN Anchor(Shown(e), p) ELSE c.at
    BY <1>10 DEF PinMoves
  <2>3. Anchor(Shown(e), p) \in Int
    BY <1>1, <2>1, ShownTyped, AnchorShows
  <2>4. CASE l # Blank
    <3>1. r.at = c.at /\ r.at # Keep
      BY <2>2, <2>4, <1>6, <1>7
    <3>2. a = r
      BY <3>1 DEF anchorFloating
    <3>3. new.at = c.at /\ new.tz = p /\ new.src = "confirmed"
      <4> HIDE DEF new, a, c, r, e, l, y, z, k
      <4> QED BY <3>1, <3>2, <2>2, <1>3, <1>6, <2>1 DEF Or, Source, Zoneless
    <3>4. CASE p # e.tz
      BY <3>3, <3>4, <2>1, <2>4 DEF Shows
    <3>5. CASE p = e.tz
      <4>1. z = p /\ p # Blank
        BY <3>5, <2>1, <1>6
      <4>2. Shown(new) = l
        <5> HIDE DEF new, a, c, r, e, l, y, z, k
        <5> QED BY <3>3, <4>1, <1>7, <2>4 DEF Shown
      <4> QED BY <4>2, <3>3, <2>4 DEF Shows
    <3> QED BY <3>4, <3>5
  <2>6. CASE l = Blank /\ t # Blank
    <3>1. r.at = t /\ r.at # Keep
      BY <2>2, <2>6, <1>1, <1>4, <1>6
    <3>2. a = r
      BY <3>1 DEF anchorFloating
    <3>3. new.at = t
      <4> HIDE DEF new, a, c, r, e, l, y, z, t, k
      <4> QED BY <3>1, <3>2, <1>3 DEF Or
    <3> QED BY <2>6, <3>3 DEF Shows
  <2>5. CASE l = Blank /\ t = Blank
    <3>0. k = Keep
      BY <2>5, <1>4, <1>10 DEF PinMoves, TouchesZone
    <3>1. c.at = Keep
      BY <2>5, <1>4
    <3>2. CASE moves
      <4>1. r.at = Anchor(Shown(e), p) /\ r.at # Keep
        BY <3>2, <2>2, <2>3, <1>6
      <4>2. a = r
        BY <4>1 DEF anchorFloating
      <4>3. new.at = Anchor(Shown(e), p) /\ new.tz = p /\ new.src = "confirmed"
        <5> HIDE DEF new, a, c, r, e, l, y, z, k
        <5> QED BY <4>1, <4>2, <2>2, <1>3, <1>6, <2>1 DEF Or, Source, Zoneless
      <4>4. e.src = "floating" => Shown(e) = e.at
        BY <1>2, <1>8 DEF Shown
      <4>5. Kept(e, new, y # Keep \/ k # Keep)
        <5> HIDE DEF new, a, c, r, e, l, y, z, k
        <5> QED BY <3>0, <4>3, <4>4, <3>2, <2>1, <1>8 DEF Kept
      <4> QED BY <4>5, <2>5
    <3>3. CASE ~moves
      <4>1. r.at = Keep
        BY <3>1, <3>3, <2>2
      <4>2. e.src # "floating"
        BY <3>1, <3>3, <1>2, <1>6, <1>8, <1>10
      <4>3. a = r
        BY <4>2, <2>1 DEF anchorFloating
      <4>4. new.at = e.at /\ new.tz = p /\ new.src = "confirmed"
        <5> HIDE DEF new, a, c, r, e, l, y, z, k
        <5> QED BY <4>1, <4>3, <2>2, <1>3, <1>6, <2>1 DEF Or, Source, Zoneless
      <4>5. Kept(e, new, y # Keep \/ k # Keep)
        <5>1. e.src = "unknown" \/ (p = e.tz /\ e.src \notin Zoneless)
          BY <3>1, <3>3, <1>2, <1>6, <2>1
        <5> HIDE DEF new, a, c, r, e, l, y, z, k
        <5> QED BY <3>0, <5>1, <4>4, <2>1 DEF Kept
      <4> QED BY <4>5, <2>5
    <3> QED BY <3>2, <3>3
  <2> QED BY <2>4, <2>5, <2>6
<1>11. ASSUME r # c
       PROVE  goal
  <2>1. \E p \in Zone : PinMoves(r, c, e, p)
    BY <1>11, RezonedIs
  <2> HIDE DEF r, c, e, l, y, new, goal
  <2> QED BY <2>1, <1>10
<1>12. goal
  BY <1>9, <1>11
<1> QED BY <1>12

\* A worker about to write reads the part first when it touches a zone.
LEMMA WritesIs ==
  ASSUME NEW j \in JobType
  PROVE  /\ Writes(j) \in JobType
         /\ Writes(j).pc \in {"read", "write"}
         /\ Writes(j).pc = "write" => \A s \in Side : j.pl[s].tz = Keep
         /\ Writes(j).stage = j.stage /\ Writes(j).in = j.in /\ Writes(j).pl = j.pl
         /\ Writes(j).seen = j.seen /\ Writes(j).fd = j.fd /\ Writes(j).timed = j.timed
<1>1. Writes(j).pc = IF \E s \in Side : TouchesZone(j.pl[s]) THEN "read" ELSE "write"
  BY DEF Writes, JobType
<1>2. Writes(j) \in JobType
  BY DEF Writes, JobType
<1>3. /\ Writes(j).stage = j.stage /\ Writes(j).in = j.in /\ Writes(j).pl = j.pl
      /\ Writes(j).seen = j.seen /\ Writes(j).fd = j.fd /\ Writes(j).timed = j.timed
  BY DEF Writes, JobType
<1> QED BY <1>1, <1>2, <1>3 DEF TouchesZone

LEMMA WritesFormed ==
  ASSUME NEW j \in JobType,
         IF j.stage = "geocode" THEN j.in = Blank ELSE j.in \in Edits,
         j.stage # "geocode" => j.timed = Timed(j.in),
         j.stage # "edit" => j.seen \in RowType,
         j.stage = "anchor" => j.fd \in FlightType /\ AnchorsFlight(j),
         \A s \in Side : Dated(j, s) => j.pl[s].at # Keep
  PROVE  Formed(Writes(j))
<1> DEFINE r == Writes(j)
<1>1. /\ r \in JobType /\ r.pc \in {"read", "write"}
      /\ r.stage = j.stage /\ r.in = j.in /\ r.pl = j.pl /\ r.seen = j.seen /\ r.fd = j.fd
      /\ r.timed = j.timed
  BY WritesIs
<1>2. r.stage = "anchor" => AnchorsFlight(r)
  BY <1>1 DEF AnchorsFlight, EndAsStart
<1>3. \A s \in Side : Dated(r, s) => r.pl[s].at # Keep
  BY <1>1 DEF Dated
<1> HIDE DEF r
<1> QED BY <1>1, <1>2, <1>3 DEF Formed, HasSeen, r

LEMMA WritesFresh ==
  ASSUME NEW j \in JobType, NEW s \in Side, NEW e,
         Fits(j, s, anchorFloating(j.pl[s], e), e), Placed(j, s, e),
         j.stage # "edit" => j.seen[s] = e
  PROVE  Fresh(Writes(j), s, e)
<1> DEFINE r == Writes(j)
<1>1. /\ r.pc \in {"read", "write"}
      /\ r.pc = "write" => j.pl[s].tz = Keep
      /\ r.stage = j.stage /\ r.in = j.in /\ r.pl = j.pl /\ r.seen = j.seen /\ r.timed = j.timed
  BY WritesIs
<1>2. \A c : Fits(r, s, c, e) = Fits(j, s, c, e)
  BY <1>1 DEF Fits, Dated, EndAsStart
<1>3. r.pc = "write" => anchorFloating(j.pl[s], e) = j.pl[s]
  BY <1>1 DEF anchorFloating
<1>4. Placed(r, s, e)
  BY <1>1 DEF Placed
<1> HIDE DEF r
<1> QED BY <1>1, <1>2, <1>3, <1>4 DEF Fresh, HasSeen, r

LEMMA pinZonesHolds ==
  ASSUME TimesInv, NEW w \in Editors, pinZones(w)
  PROVE  TimesInv'
<1> DEFINE j == job[w]
           pl == [s \in Side |-> Rezoned(j.in, j.pl, s)]
           n == [j EXCEPT !.pl = pl]
           rec == Writes(n)
<1>1. w \in Worker /\ j.pc = "pin" /\ Step(w, rec) /\ UNCHANGED Rows /\ UNCHANGED disturbed
  BY DEF pinZones, Worker
<1>2. Formed(j) /\ PartOK /\ \A s \in Side \ disturbed[w] : Fresh(j, s, part[s])
  BY <1>1 DEF TimesInv, JobsOK, HeldOK
<1>3. j \in JobType /\ j.stage = "edit" /\ j.in \in Edits /\ j.pl \in [Side -> ChangeType]
  BY <1>1, <1>2 DEF Formed, JobType
<1>4. \A s \in Side : pl[s] \in ChangeType /\ pl[s].place = j.pl[s].place /\ (j.pl[s].at # Keep => pl[s].at # Keep)
  BY <1>2, <1>3, RezonedTyped
<1>5. n \in JobType /\ n.pl = pl /\ n.stage = "edit" /\ n.in = j.in /\ n.fd = j.fd /\ n.timed = j.timed
  <2>1. pl \in [Side -> ChangeType]
    BY <1>4
  <2> HIDE DEF pl, j
  <2> QED BY <1>3, <2>1 DEF JobType
<1>6. Formed(rec)
  <2>1. (\A s \in Side : Dated(j, s) => j.pl[s].at # Keep) /\ j.timed = Timed(j.in)
    BY <1>1, <1>2, <1>3 DEF Formed, Holds
  <2>2. \A s \in Side : Dated(n, s) => n.pl[s].at # Keep
    <3> HIDE DEF n, pl, j
    <3> QED BY <2>1, <1>3, <1>4, <1>5 DEF Dated
  <2> HIDE DEF n, pl, j
  <2> QED BY <1>3, <1>5, <2>1, <2>2, WritesFormed
<1>7. \A s \in Side \ disturbed[w] : Fresh(rec, s, part[s])
  <2> SUFFICES ASSUME NEW s \in Side \ disturbed[w]
               PROVE  Fresh(rec, s, part[s])
    OBVIOUS
  <2>1. Opened(j.in, j.pl[s], s, part[s]) /\ Placed(j, s, part[s])
    BY <1>1, <1>2 DEF Fresh, Holds
  <2> DEFINE a == anchorFloating(pl[s], part[s])
  <2>0. j.timed = Timed(j.in)
    BY <1>1, <1>2, <1>3 DEF Formed
  <2>2. Matches(ApplyEnd(part[s], a)) =>
          IF s \in Timed(j.in) THEN Shows(j.in, s, ApplyEnd(part[s], a), part[s])
          ELSE Kept(part[s], ApplyEnd(part[s], a), Relabels(j.in, s))
    <3> HIDE DEF j
    <3> QED BY <2>1, <1>2, <1>3, RezonedFits
  <2>3. Fits(n, s, a, part[s])
    <3> HIDE DEF a, n, j, pl
    <3>1. Dated(n, s) <=> s \in Timed(j.in)
      BY <2>0, <1>5 DEF Dated
    <3>2. n.stage = "edit" /\ n.in = j.in
      BY <1>5
    <3>3. CASE s \in Timed(j.in)
      BY <2>2, <3>1, <3>2, <3>3 DEF Fits
    <3>4. CASE s \notin Timed(j.in)
      BY <2>2, <3>1, <3>2, <3>4 DEF Fits, Relabels
    <3> QED BY <3>3, <3>4
  <2>4. Placed(n, s, part[s])
    <3> HIDE DEF n, pl, j
    <3> QED BY <2>1, <1>4, <1>5 DEF Placed
  <2>5. Fits(n, s, anchorFloating(n.pl[s], part[s]), part[s])
    <3> HIDE DEF n, pl, j
    <3> QED BY <2>3, <1>5
  <2> HIDE DEF n
  <2> QED BY <1>5, <2>4, <2>5, WritesFresh
<1>8. rec.fd = j.fd /\ rec.pc \in {"read", "write"}
  <2> HIDE DEF n, j
  <2> QED BY <1>5, WritesIs
<1>9. rec.fd # Blank \/ rec.pc \in {"reread", "flight", "route", "update"} => flight # Blank
  BY <1>1, <1>8 DEF TimesInv, JobsOK
<1> HIDE DEF rec
<1> QED BY <1>1, <1>6, <1>7, <1>9, OneHolds DEF Rows, TimesInv, PartOK

LEMMA anchorFloatingKeeps ==
  ASSUME NEW e \in EndType, NEW c \in ChangeType
  PROVE  /\ c.at # Keep \/ c.tz = Keep => anchorFloating(c, e) = c
         /\ anchorFloating(c, e).place = c.place
         /\ anchorFloating(c, e).tz = c.tz
  BY DEF anchorFloating, ChangeType

LEMMA ReadPartHolds ==
  ASSUME TimesInv, NEW w \in Worker, ReadPart(w)
  PROVE  TimesInv'
<1> DEFINE j == job[w]
           pl == [s \in Side |-> anchorFloating(j.pl[s], part[s])]
           rec == [j EXCEPT !.pc = "write", !.pl = pl]
<1>1. j.pc = "read" /\ UNCHANGED Rows
  BY DEF ReadPart
<1>2. \/ Ends(w)
      \/ Step(w, rec) /\ UNCHANGED disturbed
  BY DEF ReadPart
<1>3. Formed(j) /\ PartOK /\ \A s \in Side \ disturbed[w] : Fresh(j, s, part[s])
  BY <1>1 DEF TimesInv, JobsOK, HeldOK
<1>4. j \in JobType /\ j.pl \in [Side -> ChangeType] /\ \A s \in Side : part[s] \in EndType
  BY <1>3 DEF Formed, JobType, PartOK, RowType
<1>5. \A s \in Side : /\ pl[s] \in ChangeType /\ pl[s].place = j.pl[s].place
                      /\ j.pl[s].at # Keep \/ j.pl[s].tz = Keep => pl[s] = j.pl[s]
  BY <1>4, anchorFloatingTyped, anchorFloatingKeeps
<1>6. /\ rec \in JobType /\ rec.pc = "write" /\ rec.pl = pl /\ rec.stage = j.stage /\ rec.in = j.in
      /\ rec.seen = j.seen /\ rec.fd = j.fd /\ rec.timed = j.timed
  <2>1. pl \in [Side -> ChangeType]
    BY <1>5
  <2> HIDE DEF pl, j
  <2> QED BY <1>4, <2>1 DEF JobType
<1>7. AnchorsFlight(j) => AnchorsFlight(rec)
  <2> SUFFICES ASSUME AnchorsFlight(j)
               PROVE  AnchorsFlight(rec)
    OBVIOUS
  <2>1. \A s \in Side : pl[s] = j.pl[s]
    <3> SUFFICES ASSUME NEW s \in Side
                 PROVE  pl[s] = j.pl[s]
      OBVIOUS
    <3>1. AnchorsEnd(j.pl[s])
      BY DEF AnchorsFlight
    <3>2. j.pl[s].at # Keep \/ j.pl[s].tz = Keep
      BY <3>1, TimesAssumption DEF AnchorsEnd, Nothing
    <3> QED BY <3>2, <1>5
  <2> HIDE DEF rec, pl, j
  <2> QED BY <2>1, <1>6 DEF AnchorsFlight, EndAsStart, Side
<1>8. Formed(rec)
  <2>1. \A s \in Side : Dated(j, s) => pl[s].at # Keep
    BY <1>1, <1>3, <1>5 DEF Formed, Holds
  <2>2. j.stage = "anchor" => AnchorsFlight(rec)
    BY <1>1, <1>3, <1>7 DEF Formed, Holds
  <2> HIDE DEF rec, pl, j
  <2> QED BY <1>1, <1>3, <1>6, <2>1, <2>2 DEF Formed, HasSeen, Dated
<1>9. \A s \in Side \ disturbed[w] : Fresh(rec, s, part[s])
  <2> SUFFICES ASSUME NEW s \in Side \ disturbed[w]
               PROVE  Fresh(rec, s, part[s])
    OBVIOUS
  <2>1. /\ Fits(j, s, pl[s], part[s]) /\ Placed(j, s, part[s])
        /\ HasSeen(j) => j.seen[s] = part[s]
    BY <1>1, <1>3 DEF Fresh, Holds
  <2>2. Fits(rec, s, rec.pl[s], part[s])
    <3> HIDE DEF rec, pl, j
    <3> QED BY <2>1, <1>6 DEF Fits, Dated, EndAsStart
  <2>3. Placed(rec, s, part[s])
    <3> HIDE DEF rec, pl, j
    <3> QED BY <2>1, <1>5, <1>6 DEF Placed
  <2>4. HasSeen(rec) => HasSeen(j)
    <3> HIDE DEF rec, pl, j
    <3> QED BY <1>1, <1>6 DEF HasSeen
  <2> HIDE DEF rec, pl, j
  <2> QED BY <2>1, <2>2, <2>3, <2>4, <1>6 DEF Fresh
<1>10. rec.fd # Blank \/ rec.pc \in {"reread", "flight", "route", "update"} => flight # Blank
  BY <1>6 DEF TimesInv, JobsOK
<1>11. CASE Ends(w)
  BY <1>1, <1>11, OneEnds DEF Rows, TimesInv, PartOK
<1>12. CASE Step(w, rec) /\ UNCHANGED disturbed
  <2> HIDE DEF rec
  <2> QED BY <1>1, <1>8, <1>9, <1>10, <1>12, OneHolds DEF Rows, TimesInv, PartOK
<1> QED BY <1>2, <1>11, <1>12

LEMMA FailsHolds ==
  ASSUME TimesInv, NEW w \in Worker, Fails(w)
  PROVE  TimesInv'
BY OneEnds DEF Fails, TimesInv, PartOK

LEMMA StartGeocodeHolds ==
  ASSUME TimesInv, StartGeocode
  PROVE  TimesInv'
<1> DEFINE rec == [Idle EXCEPT !.pc = "lookup", !.stage = "geocode", !.seen = part]
<1>1. Geocoder \in Worker /\ Step(Geocoder, rec) /\ ReadsNow(Geocoder) /\ UNCHANGED Rows
  BY DEF StartGeocode, Worker
<1>2. part \in RowType
  BY DEF TimesInv, PartOK
<1>3. /\ rec.pc = "lookup" /\ rec.stage = "geocode" /\ rec.seen = part /\ rec.in = Blank /\ rec.fd = Blank
      /\ rec \in JobType
  BY <1>2, IdleIsFormed DEF Formed, JobType, Idle
<1>4. Formed(rec)
  <2> HIDE DEF rec
  <2> QED BY <1>2, <1>3 DEF Formed, HasSeen, Holds
<1>5. \A s \in Side : Fresh(rec, s, part[s])
  <2> HIDE DEF rec
  <2> QED BY <1>3 DEF Fresh, Holds
<1> HIDE DEF rec
<1> QED BY <1>1, <1>3, <1>4, <1>5, OneHolds DEF Rows, TimesInv, PartOK

---------------------------------------------------------------------------
\* The schedule of the flight.
AnchorsFloating(c, e) ==
  \/ c = Nothing
  \/ /\ e.at # Blank /\ e.tz = Blank /\ e.src = "floating"
     /\ c.tz \in Zone /\ c.at = Anchor(e.at, c.tz) /\ AnchorsEnd(c)

LEMMA anchorFlightEndIs ==
  ASSUME NEW e \in EndType, NEW z \in Zone \cup {Blank}
  PROVE  anchorFlightEnd(e, z) \in ChangeType /\ AnchorsFloating(anchorFlightEnd(e, z), e)
<1> DEFINE c == anchorFlightEnd(e, z)
<1>1. CASE e.at = Blank \/ e.tz # Blank \/ e.src # "floating" \/ z = Blank
  <2>1. c = Nothing
    BY <1>1 DEF anchorFlightEnd
  <2> QED BY <2>1, NothingTyped DEF AnchorsFloating
<1>2. CASE ~(e.at = Blank \/ e.tz # Blank \/ e.src # "floating" \/ z = Blank)
  <2>1. c = [Nothing EXCEPT !.at = Anchor(e.at, z), !.tz = z, !.src = "confirmed"]
    BY <1>2 DEF anchorFlightEnd
  <2>2. z \in Zone /\ e.at \in Int
    BY <1>2 DEF EndType
  <2>3. Anchor(e.at, z) \in Int
    BY <2>2, AnchorShows
  <2> HIDE DEF c
  <2>4. /\ c.at = Anchor(e.at, z) /\ c.tz = z /\ c.src = "confirmed" /\ c.place = Keep /\ c.pinned = Keep
        /\ c \in ChangeType
    BY <2>1, <2>2, <2>3, NothingTyped DEF Nothing, ChangeType, Source, Zoneless
  <2>5. AnchorsFloating(c, e)
    BY <1>2, <2>2, <2>3, <2>4 DEF AnchorsFloating, AnchorsEnd
  <2> QED BY <2>4, <2>5 DEF c
<1> QED BY <1>1, <1>2

\* A change that anchors a floating end, or none, fits it.
LEMMA AnchoringFits ==
  ASSUME NEW e \in EndType, NEW c \in ChangeType, AnchorsFloating(c, e), NEW relabels
  PROVE  /\ anchorFloating(c, e) = c
         /\ Kept(e, ApplyEnd(e, c), relabels)
<1>1. CASE c = Nothing
  <2>1. c.at = Keep /\ c.tz = Keep /\ c.src = Keep
    BY <1>1 DEF Nothing
  <2>2. ApplyEnd(e, c).at = e.at /\ ApplyEnd(e, c).tz = e.tz /\ ApplyEnd(e, c).src = e.src
    BY <2>1, ApplyReads DEF Or
  <2> QED BY <2>1, <2>2 DEF Kept, anchorFloating
<1>2. CASE c # Nothing
  <2>1. /\ e.at # Blank /\ e.src = "floating" /\ c.tz \in Zone /\ c.at = Anchor(e.at, c.tz)
        /\ c.at \in Int /\ c.src = "confirmed"
    BY <1>2 DEF AnchorsFloating, AnchorsEnd
  <2>2. c.at # Keep /\ c.tz # Keep /\ c.src # Keep
    BY <2>1, TimesAssumption DEF Source, Zoneless
  <2>3. ApplyEnd(e, c).at = c.at /\ ApplyEnd(e, c).tz = c.tz /\ ApplyEnd(e, c).src = "confirmed"
    BY <2>1, <2>2, ApplyReads DEF Or
  <2> QED BY <2>1, <2>2, <2>3 DEF Kept, anchorFloating
<1> QED BY <1>1, <1>2

LEMMA anchorFloatingFlightPartIs ==
  ASSUME NEW fd \in FlightType, NEW j, j.seen \in RowType, j.in \in Edits
  PROVE  LET pl == anchorFloatingFlightPart(fd, j) IN
         /\ pl \in [Side -> ChangeType]
         /\ AnchorsFloating(pl["start"], j.seen["start"])
         /\ EndAsStart(j) => pl["end"] = pl["start"]
         /\ ~EndAsStart(j) => AnchorsFloating(pl["end"], j.seen["end"])
<1> DEFINE zone(s) == AirportZone(Codes(fd, j)[s], CodePlace(fd, j, s))
           start == anchorFlightEnd(j.seen["start"], zone("start"))
           end == anchorFlightEnd(j.seen["end"], zone("end"))
           pl == anchorFloatingFlightPart(fd, j)
<1>1. \A s \in Side : j.seen[s] \in EndType
  BY DEF RowType
<1>2. \A s \in Side : zone(s) \in Zone \cup {Blank}
  <2> SUFFICES ASSUME NEW s \in Side
               PROVE  zone(s) \in Zone \cup {Blank}
    OBVIOUS
  <2>1. fd.code[s] \in Airport \cup {Blank} /\ j.in.airport[s] \in Airport \cup {Blank}
    BY EditTyped DEF FlightType
  <2>2. Codes(fd, j)[s] \in Airport \cup {Blank}
    BY <2>1 DEF Codes
  <2>3. CodePlace(fd, j, s) \in Place \cup {Blank}
    BY <1>1, TimesAssumption DEF CodePlace, EndType
  <2> QED BY <2>2, <2>3, AirportZoneTyped
<1>3. /\ start \in ChangeType /\ AnchorsFloating(start, j.seen["start"])
      /\ end \in ChangeType /\ AnchorsFloating(end, j.seen["end"])
  <2> HIDE DEF zone
  <2> QED BY <1>1, <1>2, anchorFlightEndIs DEF Side
<1>4. pl = [s \in Side |-> IF s = "start" \/ EndAsStart(j) THEN start ELSE end]
  <2>1. pl = [s \in Side |-> IF s = "start" \/ EndAsStart(j) THEN start ELSE anchorFlightEnd(j.seen["end"], zone("end"))]
    BY DEF anchorFloatingFlightPart, EndAsStart
  <2> QED BY <2>1
<1> HIDE DEF start, end, pl
<1>5. /\ pl \in [Side -> ChangeType]
      /\ pl["start"] = start /\ (EndAsStart(j) => pl["end"] = start) /\ (~EndAsStart(j) => pl["end"] = end)
  BY <1>3, <1>4 DEF Side
<1>6. /\ pl \in [Side -> ChangeType]
      /\ AnchorsFloating(pl["start"], j.seen["start"])
      /\ EndAsStart(j) => pl["end"] = pl["start"]
      /\ ~EndAsStart(j) => AnchorsFloating(pl["end"], j.seen["end"])
  BY <1>3, <1>5
<1> QED BY <1>6 DEF pl

\* What is left of a request once its times are done.
LEMMA ProceedsHolds ==
  ASSUME TimesInv, NEW w \in Worker, Proceeds(w), UNCHANGED <<part, fixes, said, lost>>,
         flight \in FlightType, flight' \in FlightType,
         job[w].pc \in {"flight", "sync"}
  PROVE  TimesInv'
<1> DEFINE j == job[w]
           rec == [j EXCEPT !.pc = "route", !.stage = "edit"]
<1>1. Formed(j) /\ \A s \in Side \ disturbed[w] : Fresh(j, s, part[s])
  BY DEF TimesInv, JobsOK, HeldOK
<1>2. /\ j \in JobType /\ j.seen \in RowType
      /\ IF j.stage = "geocode" THEN j.in = Blank ELSE j.in \in Edits /\ j.timed = Timed(j.in)
      /\ \A s \in Side \ disturbed[w] : j.seen[s] = part[s]
  BY <1>1 DEF Formed, HasSeen, Fresh
<1>3. flight # Blank /\ flight' # Blank
  BY TimesAssumption
<1>4. CASE EditsFlight(j)
  <2>1. Step(w, rec) /\ UNCHANGED disturbed
    BY <1>4 DEF Proceeds
  <2>2. j.in # Blank
    BY <1>4 DEF EditsFlight
  <2>3. /\ rec \in JobType /\ rec.pc = "route" /\ rec.stage = "edit" /\ rec.in = j.in
        /\ rec.seen = j.seen /\ rec.timed = j.timed
    BY <1>2 DEF JobType
  <2> HIDE DEF rec, j
  <2>4. Formed(rec)
    BY <2>2, <2>3, <1>2 DEF Formed, HasSeen, Holds
  <2>5. \A s \in Side \ disturbed[w] : Fresh(rec, s, part[s])
    BY <2>3, <1>2 DEF Fresh, Holds
  <2> QED BY <1>3, <2>1, <2>4, <2>5, OneHolds
<1>5. CASE ~EditsFlight(j)
  <2>1. Ends(w)
    BY <1>5 DEF Proceeds
  <2> QED BY <1>3, <2>1, OneEnds
<1> QED BY <1>4, <1>5

LEMMA ReadFlightHolds ==
  ASSUME TimesInv, NEW w \in Editors, ReadFlight(w)
  PROVE  TimesInv'
<1> DEFINE j == job[w]
           pl == anchorFloatingFlightPart(flight, j)
           sync == [j EXCEPT !.pc = "sync", !.fd = flight]
           n == [j EXCEPT !.stage = "anchor", !.fd = flight, !.pl = pl]
<1>1. w \in Worker /\ j.pc = "flight" /\ UNCHANGED <<part, flight, fixes, said, lost>>
  BY DEF ReadFlight, Worker
<1>2. Proceeds(w) \/ ((Step(w, sync) \/ Step(w, Writes(n))) /\ UNCHANGED disturbed)
  BY DEF ReadFlight
<1>3. Formed(j) /\ \A s \in Side \ disturbed[w] : Fresh(j, s, part[s])
  BY <1>1 DEF TimesInv, JobsOK, HeldOK
<1>4. /\ j \in JobType /\ j.stage = "edit" /\ j.in \in Edits /\ j.seen \in RowType
      /\ j.timed = Timed(j.in)
      /\ \A s \in Side \ disturbed[w] : j.seen[s] = part[s]
  BY <1>1, <1>3 DEF Formed, HasSeen, Fresh
<1>5. flight \in FlightType /\ flight # Blank
  BY <1>1 DEF TimesInv, JobsOK, PartOK
<1>6. CASE Proceeds(w)
  BY <1>1, <1>5, <1>6, ProceedsHolds
<1>7. CASE Step(w, sync) /\ UNCHANGED disturbed
  <2>1. /\ sync \in JobType /\ sync.pc = "sync" /\ sync.stage = "edit" /\ sync.in = j.in
        /\ sync.seen = j.seen /\ sync.fd = flight /\ sync.timed = j.timed
    BY <1>4, <1>5 DEF JobType
  <2> HIDE DEF sync, j
  <2>2. Formed(sync)
    BY <2>1, <1>4, <1>5 DEF Formed, HasSeen, Holds
  <2>3. \A s \in Side \ disturbed[w] : Fresh(sync, s, part[s])
    BY <2>1, <1>4 DEF Fresh, Holds
  <2> QED BY <1>1, <1>5, <1>7, <2>2, <2>3, OneHolds
<1>8. CASE Step(w, Writes(n)) /\ UNCHANGED disturbed
  <2>1. /\ pl \in [Side -> ChangeType]
        /\ AnchorsFloating(pl["start"], j.seen["start"])
        /\ EndAsStart(j) => pl["end"] = pl["start"]
        /\ ~EndAsStart(j) => AnchorsFloating(pl["end"], j.seen["end"])
    <3> HIDE DEF j
    <3> QED BY <1>4, <1>5, anchorFloatingFlightPartIs
  <2> HIDE DEF pl
  <2>2. /\ n \in JobType /\ n.stage = "anchor" /\ n.in = j.in /\ n.pl = pl
        /\ n.seen = j.seen /\ n.fd = flight /\ n.timed = j.timed
    BY <1>4, <1>5, <2>1 DEF JobType
  <2> HIDE DEF n, j
  <2>3. \A s \in Side : AnchorsEnd(pl[s])
    BY <2>1 DEF AnchorsFloating, AnchorsEnd, Side
  <2>4. AnchorsFlight(n)
    BY <2>1, <2>2, <2>3 DEF AnchorsFlight, EndAsStart, AnchorsFloating
  <2>5. Formed(Writes(n))
    BY <1>4, <1>5, <2>2, <2>4, WritesFormed DEF Dated
  <2>6. \A s \in Side \ disturbed[w] : Fresh(Writes(n), s, part[s])
    <3> SUFFICES ASSUME NEW s \in Side \ disturbed[w]
                 PROVE  Fresh(Writes(n), s, part[s])
      OBVIOUS
    <3>1. j.seen[s] = part[s] /\ part[s] \in EndType
      BY <1>4 DEF RowType
    <3>2. Fits(n, s, anchorFloating(n.pl[s], part[s]), part[s])
      <4>1. CASE s = "end" /\ EndAsStart(j)
        BY <4>1, <2>2 DEF Fits, Dated, EndAsStart
      <4>2. CASE ~(s = "end" /\ EndAsStart(j))
        <5>1. AnchorsFloating(pl[s], part[s])
          BY <4>2, <3>1, <2>1 DEF Side
        <5>2. anchorFloating(pl[s], part[s]) = pl[s] /\ Kept(part[s], ApplyEnd(part[s], pl[s]), FALSE)
          BY <5>1, <3>1, <2>1, AnchoringFits
        <5> QED BY <5>2, <4>2, <2>2 DEF Fits, Dated, EndAsStart
      <4> QED BY <4>1, <4>2
    <3>3. Placed(n, s, part[s])
      BY <2>2, <2>3 DEF Placed, AnchorsEnd, Nothing
    <3> QED BY <2>2, <3>1, <3>2, <3>3, WritesFresh
  <2>7. Writes(n).fd # Blank \/ Writes(n).pc \in {"reread", "flight", "route", "update"} => flight # Blank
    BY <1>5
  <2> QED BY <1>1, <1>5, <1>8, <2>5, <2>6, <2>7, OneHolds
<1> QED BY <1>2, <1>6, <1>7, <1>8

LEMMA ScheduleTyped ==
  ASSUME NEW row \in RowType, NEW fd \in FlightType
  PROVE  Schedule(row, fd) \in [Side -> Int]
<1>1. row["start"].at \in Int /\ row["end"].at \in Int \cup {Blank}
  BY DEF RowType, EndType, Side
<1>2. fd.time["end"] \in Int /\ fd.time["start"] \in Int
  BY DEF FlightType, Side
<1> QED BY <1>1, <1>2 DEF Schedule

LEMMA SyncFlightScheduleHolds ==
  ASSUME TimesInv, NEW w \in Worker, SyncFlightSchedule(w)
  PROVE  TimesInv'
<1> DEFINE j == job[w]
           new == Schedule(j.seen, j.fd)
<1>1. /\ j.pc = "sync" /\ UNCHANGED <<part, fixes, said, lost>> /\ Proceeds(w)
      /\ flight' = IF Moves(new, j.fd.time) /\ ~flight.resolved THEN [flight EXCEPT !.time = new] ELSE flight
  BY DEF SyncFlightSchedule
<1>2. Formed(j)
  BY <1>1 DEF TimesInv, JobsOK
<1>3. j \in JobType /\ j.seen \in RowType /\ j.fd \in FlightType
  BY <1>1, <1>2 DEF Formed, HasSeen
<1>4. j.fd # Blank /\ flight # Blank /\ flight \in FlightType
  BY <1>3, TimesAssumption DEF TimesInv, JobsOK, PartOK
<1>5. flight' \in FlightType
  <2>1. new \in [Side -> Int]
    BY <1>3, ScheduleTyped
  <2> HIDE DEF new, j
  <2> QED BY <2>1, <1>1, <1>4 DEF FlightType
<1> QED BY <1>1, <1>4, <1>5, ProceedsHolds

---------------------------------------------------------------------------
\* The route of the flight.
LEMMA AnswerTyped ==
  ASSUME NEW rf \in Answers, NEW s \in Side
  PROVE  rf.code[s] \in Airport /\ rf.time[s] \in Int \cup {Keep} /\ rf.place[s] \in Place \cup {Blank}
<1>1. rf \in AnswerType
  BY TimesAssumption
<1> QED BY <1>1 DEF AnswerType

LEMMA AirportCoordsTyped ==
  ASSUME NEW c \in Airport \cup {Blank}, NEW p \in Place \cup {Blank}
  PROVE  AirportCoords(c, p) \in Place \cup {Blank}
BY TimesAssumption DEF AirportCoords

LEMMA KeepRouteTyped ==
  /\ KeepRoute \in [Side -> TurnType]
  /\ \A s \in Side : KeepRoute[s].time = Keep /\ KeepRoute[s].at = Keep /\ TurnOK(KeepRoute[s])
BY DEF KeepRoute, TurnType, TurnOK

LEMMA ResolvedRouteTyped ==
  ASSUME NEW rf \in Answers
  PROVE  /\ RouteUpdateFromResolved(rf) \in [Side -> TurnType]
         /\ \A s \in Side : /\ RouteUpdateFromResolved(rf)[s].at = RouteUpdateFromResolved(rf)[s].time
                            /\ TurnOK(RouteUpdateFromResolved(rf)[s])
<1> DEFINE up == RouteUpdateFromResolved(rf)
<1>1. \A s \in Side : up[s] \in TurnType /\ up[s].at = up[s].time /\ TurnOK(up[s])
  <2> SUFFICES ASSUME NEW s \in Side
               PROVE  up[s] \in TurnType /\ up[s].at = up[s].time /\ TurnOK(up[s])
    OBVIOUS
  <2>1. rf.code[s] \in Airport /\ rf.time[s] \in Int \cup {Keep} /\ rf.place[s] \in Place \cup {Blank}
    BY AnswerTyped
  <2> DEFINE z == AirportZone(rf.code[s], rf.place[s])
             p == AirportCoords(rf.code[s], rf.place[s])
             src == IF z = Blank THEN "unknown" ELSE "confirmed"
  <2>2. z \in Zone \cup {Blank} /\ p \in Place \cup {Blank}
    BY <2>1, AirportZoneTyped, AirportCoordsTyped
  <2>3. src \in Source
    BY DEF Source, Zoneless
  <2>4. up[s] = [code |-> rf.code[s], time |-> rf.time[s], at |-> rf.time[s], tz |-> z, src |-> src, place |-> p]
    BY DEF RouteUpdateFromResolved
  <2> HIDE DEF z, p, src, up
  <2>5. up[s] \in TurnType /\ up[s].at = up[s].time /\ up[s].tz = z
    BY <2>1, <2>2, <2>3, <2>4 DEF TurnType
  <2> QED BY <2>2, <2>5, TimesAssumption DEF TurnOK
<1>2. up = [s \in Side |-> up[s]]
  BY DEF RouteUpdateFromResolved
<1> HIDE DEF up
<1>3. up \in [Side -> TurnType]
  BY <1>1, <1>2
<1> QED BY <1>1, <1>3 DEF up

LEMMA confirmAirportZoneIs ==
  ASSUME NEW c \in Airport, NEW e \in EndType
  PROVE  LET turn == confirmAirportZone(c, e) IN
         turn \in TurnType /\ turn.time = Keep /\ Routed(turn, e) /\ TurnOK(turn)
<1> DEFINE turn == confirmAirportZone(c, e)
           tz == IF c \in Listed THEN ZoneAt[c] ELSE Keep
           src == IF c \in Listed THEN "confirmed" ELSE Keep
           at == IF c \in Listed /\ e.src = "floating" /\ e.at # Blank THEN Anchor(e.at, ZoneAt[c]) ELSE Keep
           place == AirportCoords(c, Blank)
<1>1. c \in Airport /\ (c \in Listed => ZoneAt[c] \in Zone)
  BY TimesAssumption
<1>2. place \in Place \cup {Blank}
  BY AirportCoordsTyped
<1>3. c \in Listed /\ e.at # Blank => Anchor(e.at, ZoneAt[c]) \in Int
  BY <1>1, AnchorShows DEF EndType
<1>4. tz \in Zone \cup {Blank, Keep} /\ src \in Source \cup {Keep} /\ at \in Int \cup {Keep}
  BY <1>1, <1>3 DEF Source, Zoneless
<1>5. KeepRoute["start"] \in TurnType /\ KeepRoute["start"].time = Keep
  BY KeepRouteTyped DEF Side
<1>6. turn = [KeepRoute["start"] EXCEPT !.code = c, !.place = place, !.tz = tz, !.src = src, !.at = at]
  BY DEF confirmAirportZone
<1>7. /\ turn \in TurnType /\ turn.time = Keep /\ turn.at = at /\ turn.tz = tz /\ turn.src = src
  <2> DEFINE k == KeepRoute["start"]
  <2>1. k \in TurnType /\ k.time = Keep
    BY <1>5
  <2>2. turn = [k EXCEPT !.code = c, !.place = place, !.tz = tz, !.src = src, !.at = at]
    BY <1>6
  <2> HIDE DEF turn, tz, src, at, place, k
  <2>3. turn \in TurnType
    <3>1. /\ c \in Airport \cup {Keep} /\ place \in Place \cup {Blank, Keep} /\ k.time \in Int \cup {Keep}
          /\ turn = [code |-> c, time |-> k.time, at |-> at, tz |-> tz, src |-> src, place |-> place]
      BY <1>1, <1>2, <2>1, <2>2 DEF TurnType
    <3> QED BY <3>1, <1>4 DEF TurnType
  <2>4. turn.time = Keep /\ turn.at = at /\ turn.tz = tz /\ turn.src = src
    BY <2>1, <2>2 DEF TurnType
  <2> QED BY <2>3, <2>4
<1>8. Routed(turn, e)
  <2>1. at # Keep => e.src = "floating" /\ e.at # Blank /\ tz \in Zone /\ src = "confirmed" /\ at = Anchor(e.at, tz)
    BY <1>1
  <2> HIDE DEF turn, tz, src, at, place
  <2> QED BY <2>1, <1>7 DEF Routed
<1>9. TurnOK(turn)
  <2>1. tz = Keep => src = Keep
    BY <1>1, TimesAssumption
  <2> HIDE DEF turn, tz, src
  <2> QED BY <2>1, <1>7 DEF TurnOK
<1> HIDE DEF turn
<1> QED BY <1>7, <1>8, <1>9 DEF turn

LEMMA manualRouteUpdateIs ==
  ASSUME NEW fd, NEW row \in RowType, NEW in \in Edits
  PROVE  LET up == manualRouteUpdate(fd, row, in) IN
         /\ up \in [Side -> TurnType]
         /\ \A s \in Side : up[s].time = Keep /\ Routed(up[s], row[s]) /\ TurnOK(up[s])
<1> DEFINE up == manualRouteUpdate(fd, row, in)
<1>1. \A s \in Side : up[s] \in TurnType /\ up[s].time = Keep /\ Routed(up[s], row[s]) /\ TurnOK(up[s])
  <2> SUFFICES ASSUME NEW s \in Side
               PROVE  up[s] \in TurnType /\ up[s].time = Keep /\ Routed(up[s], row[s]) /\ TurnOK(up[s])
    OBVIOUS
  <2>1. CASE in.airport[s] \notin {Blank, fd.code[s]}
    <3>1. in.airport[s] \in Airport /\ row[s] \in EndType
      BY <2>1, EditTyped DEF RowType
    <3>2. up[s] = confirmAirportZone(in.airport[s], row[s])
      BY <2>1 DEF manualRouteUpdate
    <3> HIDE DEF up
    <3> QED BY <3>1, <3>2, confirmAirportZoneIs
  <2>2. CASE in.airport[s] \in {Blank, fd.code[s]}
    <3>1. up[s] = KeepRoute[s]
      BY <2>2 DEF manualRouteUpdate
    <3> HIDE DEF up
    <3> QED BY <3>1, KeepRouteTyped DEF Routed
  <2> QED BY <2>1, <2>2
<1>2. up = [s \in Side |-> up[s]]
  BY DEF manualRouteUpdate
<1> HIDE DEF up
<1>3. up \in [Side -> TurnType]
  BY <1>1, <1>2
<1> QED BY <1>1, <1>3 DEF up

LEMMA applyFlightEditHolds ==
  ASSUME TimesInv, NEW w \in Editors, applyFlightEdit(w)
  PROVE  TimesInv'
<1> DEFINE j == job[w]
           manual == manualRouteUpdate(flight, j.seen, j.in)
           Sent(up, resolved) == [j EXCEPT !.pc = "update", !.route = [to |-> up, resolved |-> resolved]]
<1>1. w \in Worker /\ j.pc = "route" /\ UNCHANGED Rows
  BY DEF applyFlightEdit, Worker
<1>2. \/ Ends(w)
      \/ /\ flight # Blank
         /\ \/ \E rf \in Answers : Step(w, Sent(RouteUpdateFromResolved(rf), TRUE))
            \/ Step(w, Sent(KeepRoute, FALSE))
            \/ Step(w, Sent(manual, Keep))
  <2>1. flight # Blank
    BY <1>1 DEF TimesInv, JobsOK
  <2> QED BY <2>1 DEF applyFlightEdit
<1>3. Formed(j) /\ \A s \in Side \ disturbed[w] : Fresh(j, s, part[s])
  BY <1>1 DEF TimesInv, JobsOK, HeldOK
<1>4. /\ j \in JobType /\ j.stage = "edit" /\ j.in \in Edits /\ j.seen \in RowType
      /\ j.timed = Timed(j.in)
      /\ \A s \in Side \ disturbed[w] : j.seen[s] = part[s]
  BY <1>1, <1>3 DEF Formed, HasSeen, Fresh
<1>5. CASE Ends(w)
  BY <1>1, <1>5, OneEnds DEF Rows, TimesInv, PartOK
<1>6. ASSUME NEW up \in [Side -> TurnType], NEW resolved \in BOOLEAN \cup {Keep}, Step(w, Sent(up, resolved)),
             flight # Blank, \A s \in Side : TurnOK(up[s]),
             \A s \in Side \ disturbed[w] : Routed(up[s], part[s])
      PROVE  TimesInv'
  <2> DEFINE rec == Sent(up, resolved)
  <2>1. /\ rec \in JobType /\ rec.pc = "update" /\ rec.stage = "edit" /\ rec.in = j.in /\ rec.seen = j.seen
        /\ rec.timed = j.timed
        /\ rec.route = [to |-> up, resolved |-> resolved] /\ rec.route \in RouteType
    BY <1>4 DEF JobType, RouteType
  <2>2. job'[w].pc = "update"
    <3>1. job' = [job EXCEPT ![w] = rec] /\ job \in [Worker -> JobType]
      BY <1>6 DEF Step, TimesInv, JobsOK
    <3> HIDE DEF rec
    <3> QED BY <3>1, <2>1, <1>1
  <2>3. UNCHANGED disturbed
    BY <2>2 DEF applyFlightEdit
  <2>4. Step(w, rec)
    BY <1>6
  <2> HIDE DEF rec, j
  <2>5. Formed(rec)
    BY <2>1, <1>4, <1>6 DEF Formed, HasSeen, Holds
  <2>6. \A s \in Side \ disturbed[w] : Fresh(rec, s, part[s])
    BY <2>1, <1>4, <1>6 DEF Fresh, Holds
  <2> QED BY <1>1, <1>6, <2>3, <2>4, <2>5, <2>6, OneHolds DEF Rows, TimesInv, PartOK
<1>7. ASSUME flight # Blank, NEW rf \in Answers, Step(w, Sent(RouteUpdateFromResolved(rf), TRUE))
      PROVE  TimesInv'
  <2>1. \A s \in Side : Routed(RouteUpdateFromResolved(rf)[s], part[s])
    BY ResolvedRouteTyped DEF Routed
  <2> HIDE DEF Sent
  <2> QED BY <2>1, <1>6, <1>7, ResolvedRouteTyped
<1>8. CASE flight # Blank /\ Step(w, Sent(KeepRoute, FALSE))
  <2>1. \A s \in Side : Routed(KeepRoute[s], part[s])
    BY KeepRouteTyped DEF Routed
  <2> HIDE DEF Sent
  <2> QED BY <2>1, <1>6, <1>8, KeepRouteTyped
<1>9. CASE flight # Blank /\ Step(w, Sent(manual, Keep))
  <2>1. /\ manual \in [Side -> TurnType]
        /\ \A s \in Side : manual[s].time = Keep /\ Routed(manual[s], j.seen[s]) /\ TurnOK(manual[s])
    <3> HIDE DEF j
    <3> QED BY <1>4, manualRouteUpdateIs
  <2>2. \A s \in Side \ disturbed[w] : Routed(manual[s], part[s])
    BY <2>1, <1>4
  <2> HIDE DEF Sent, manual
  <2> QED BY <2>1, <2>2, <1>6, <1>9
<1> HIDE DEF Sent, manual
<1> QED BY <1>2, <1>5, <1>7, <1>8, <1>9

---------------------------------------------------------------------------
\* The geocoder.
GivesZone(c, e) ==
  \/ c.at = Keep /\ c.tz = Keep /\ c.src = Keep
  \/ /\ zoneless(e) /\ c.tz \in Zone /\ c.src = "confirmed"
     /\ c.at = IF e.src = "floating" THEN Anchor(e.at, c.tz) ELSE Keep

LEMMA ZonedIs ==
  ASSUME NEW e \in EndType, NEW z \in Zone, zoneless(e)
  PROVE  /\ Zoned(e, z) \in ChangeType /\ GivesZone(Zoned(e, z), e)
         /\ Zoned(e, z).place = Keep
         /\ Zoned(e, z).at # Keep => e.src = "floating"
<1> DEFINE at == IF e.src = "floating" THEN Anchor(e.at, z) ELSE Keep
           c == Zoned(e, z)
<1>1. at \in Int \cup {Keep} /\ (at # Keep => e.src = "floating")
  <2>1. e.at \in Int
    BY DEF zoneless, EndType
  <2> QED BY <2>1, AnchorShows
<1>2. c = [Nothing EXCEPT !.tz = z, !.src = "confirmed", !.at = at]
  BY DEF Zoned
<1> HIDE DEF at, c
<1>3. c \in ChangeType /\ c.tz = z /\ c.src = "confirmed" /\ c.at = at /\ c.place = Keep
  BY <1>1, <1>2, NothingTyped DEF Nothing, ChangeType, Source, Zoneless
<1>4. GivesZone(c, e)
  BY <1>3 DEF GivesZone, at
<1> QED BY <1>1, <1>3, <1>4 DEF c

LEMMA NothingGivesZone ==
  ASSUME NEW e
  PROVE  Nothing \in ChangeType /\ GivesZone(Nothing, e) /\ Nothing.place = Keep
BY NothingTyped DEF GivesZone, Nothing

LEMMA ResolvePartTZIs ==
  ASSUME NEW row \in RowType, NEW placed \in [Side -> Place \cup {Blank}], NEW s \in Side
  PROVE  LET c == ResolvePartTZ(row, placed)[s] IN
         c \in ChangeType /\ GivesZone(c, row[s]) /\ c.place = Keep
<1> DEFINE zone(t) == IF placed[t] = Blank THEN Blank ELSE ZoneAt[placed[t]]
           primary == IF placed["start"] # Blank THEN zone("start") ELSE zone("end")
           z == IF s = "end" /\ zone("end") # Blank THEN zone("end") ELSE primary
           c == ResolvePartTZ(row, placed)[s]
<1>1. \A t \in Side : zone(t) \in Zone \cup {Blank}
  BY TimesAssumption
<1>2. z \in Zone \cup {Blank} /\ row[s] \in EndType
  <2> HIDE DEF zone
  <2> QED BY <1>1 DEF Side, RowType
<1>3. c = IF zoneless(row[s]) /\ z # Blank THEN Zoned(row[s], z) ELSE Nothing
  BY DEF ResolvePartTZ
<1> HIDE DEF z, c
<1>4. c \in ChangeType /\ GivesZone(c, row[s]) /\ c.place = Keep
  BY <1>2, <1>3, ZonedIs, NothingGivesZone
<1> QED BY <1>4 DEF c

LEMMA ResolveFlightTZIs ==
  ASSUME NEW row \in RowType, NEW fd \in FlightType, NEW placed \in [Side -> Place \cup {Blank}], NEW s \in Side
  PROVE  LET c == ResolveFlightTZ(row, fd, placed)[s] IN
         c \in ChangeType /\ GivesZone(c, row[s]) /\ c.place = Keep
<1> DEFINE z(t) == AirportZone(fd.code[t], placed[t])
           e == row["end"]
           b == row["start"]
           start == IF zoneless(b) /\ z("start") # Blank THEN Zoned(b, z("start")) ELSE Nothing
           c == ResolveFlightTZ(row, fd, placed)[s]
<1>1. \A t \in Side : z(t) \in Zone \cup {Blank}
  <2> SUFFICES ASSUME NEW t \in Side
               PROVE  z(t) \in Zone \cup {Blank}
    OBVIOUS
  <2>1. fd.code[t] \in Airport \cup {Blank} /\ placed[t] \in Place \cup {Blank}
    BY DEF FlightType
  <2> QED BY <2>1, AirportZoneTyped
<1>2. e \in EndType /\ b \in EndType
  BY DEF RowType, Side
<1>3. c = IF s = "start" THEN start
          ELSE IF ~zoneless(e) THEN Nothing
          ELSE IF e.src = "floating" /\ e.at = b.at THEN (IF start.at # Keep THEN start ELSE Nothing)
          ELSE IF z("end") # Blank THEN Zoned(e, z("end")) ELSE Nothing
  BY DEF ResolveFlightTZ
<1>4. z("start") \in Zone \cup {Blank} /\ z("end") \in Zone \cup {Blank}
  <2> HIDE DEF z
  <2> QED BY <1>1 DEF Side
<1>5. /\ start \in ChangeType /\ GivesZone(start, b) /\ start.place = Keep
      /\ start.at # Keep => zoneless(b) /\ b.src = "floating"
  <2>1. CASE zoneless(b) /\ z("start") # Blank
    <3>1. z("start") \in Zone
      BY <1>4, <2>1
    <3> QED BY <2>1, <3>1, <1>2, ZonedIs
  <2>2. CASE ~(zoneless(b) /\ z("start") # Blank)
    <3>1. start = Nothing
      BY <2>2
    <3> QED BY <3>1, NothingGivesZone DEF Nothing
  <2> QED BY <2>1, <2>2
<1>6. CASE s = "start"
  <2> HIDE DEF start, c, z
  <2>1. c \in ChangeType /\ GivesZone(c, row[s]) /\ c.place = Keep
    BY <1>3, <1>5, <1>6
  <2> QED BY <2>1 DEF c
<1>7. CASE s = "end"
  <2>1. zoneless(e) /\ z("end") # Blank => LET d == Zoned(e, z("end")) IN d \in ChangeType /\ GivesZone(d, e) /\ d.place = Keep
    <3> HIDE DEF z
    <3> QED BY <1>2, <1>4, ZonedIs
  <2>2. zoneless(e) /\ e.src = "floating" /\ e.at = b.at /\ start.at # Keep => GivesZone(start, e)
    <3> HIDE DEF start
    <3> QED BY <1>5 DEF GivesZone, zoneless
  <2> HIDE DEF start, c, z
  <2>3. c \in ChangeType /\ GivesZone(c, row[s]) /\ c.place = Keep
    BY <1>3, <1>5, <1>7, <2>1, <2>2, NothingGivesZone
  <2> QED BY <2>3 DEF c
<1> QED BY <1>6, <1>7 DEF Side

LEMMA GivesZoneFits ==
  ASSUME NEW e \in EndType, NEW c \in ChangeType, GivesZone(c, e)
  PROVE  Kept(e, ApplyEnd(e, anchorFloating(c, e)), FALSE)
<1> DEFINE new == ApplyEnd(e, anchorFloating(c, e))
<1>1. anchorFloating(c, e) = c
  <2>1. e.src = "floating" /\ zoneless(e) /\ c.tz \in Zone => Anchor(e.at, c.tz) # Keep
    BY AnchorShows, TimesAssumption DEF zoneless, EndType
  <2>2. c.tz = Keep \/ c.at # Keep \/ (e.at # Blank /\ e.src # "floating")
    BY <2>1 DEF GivesZone, zoneless
  <2> QED BY <2>2 DEF anchorFloating
<1>2. new.at = Or(c.at, e.at) /\ new.tz = Or(c.tz, e.tz) /\ new.src = Or(c.src, e.src)
  BY <1>1, ApplyReads
<1> HIDE DEF new
<1>3. CASE c.at = Keep /\ c.tz = Keep /\ c.src = Keep
  <2>1. new.at = e.at /\ new.tz = e.tz /\ new.src = e.src
    BY <1>2, <1>3 DEF Or
  <2>2. Kept(e, new, FALSE)
    BY <2>1 DEF Kept
  <2> QED BY <2>2 DEF new
<1>4. CASE zoneless(e) /\ c.tz \in Zone /\ c.src = "confirmed"
           /\ c.at = IF e.src = "floating" THEN Anchor(e.at, c.tz) ELSE Keep
  <2>1. new.tz = c.tz /\ new.src = "confirmed" /\ e.at # Blank /\ e.src \in Zoneless
    BY <1>2, <1>4, TimesAssumption DEF Or, Source, Zoneless, zoneless
  <2>2. CASE e.src = "floating"
    <3>1. Anchor(e.at, c.tz) \in Int
      BY <1>4, AnchorShows DEF zoneless, EndType
    <3>2. new.at = Anchor(e.at, c.tz)
      BY <3>1, <1>2, <1>4, <2>2, TimesAssumption DEF Or
    <3>3. Kept(e, new, FALSE)
      BY <3>2, <2>1, <2>2, <1>4 DEF Kept
    <3> QED BY <3>3 DEF new
  <2>3. CASE e.src # "floating"
    <3>1. e.src = "unknown" /\ new.at = e.at
      BY <2>1, <2>3, <1>2, <1>4 DEF Or, Zoneless
    <3>2. Kept(e, new, FALSE)
      BY <3>1, <2>1 DEF Kept
    <3> QED BY <3>2 DEF new
  <2> QED BY <2>2, <2>3
<1> QED BY <1>3, <1>4 DEF GivesZone

LEMMA GeocodeEndsHolds ==
  ASSUME TimesInv, GeocodeEnds
  PROVE  TimesInv'
<1> DEFINE j == job[Geocoder]
           open == {s \in Side : j.seen[s].place = Blank /\ ~j.seen[s].pinned}
           placed(found) == [s \in Side |-> IF s \in open THEN (IF found[s] = Keep THEN Blank ELSE found[s])
                                            ELSE j.seen[s].place]
           zones(found) == IF flight = Blank THEN ResolvePartTZ(j.seen, placed(found))
                           ELSE ResolveFlightTZ(j.seen, flight, placed(found))
           planned(found, home) ==
             [s \in Side |-> IF s \in open
                THEN [zones(found)[s] EXCEPT !.place = found[s],
                        !.pinned = IF s \in home /\ found[s] # Keep THEN TRUE ELSE Keep]
                ELSE zones(found)[s]]
<1>1. Geocoder \in Worker /\ j.pc = "lookup" /\ UNCHANGED Rows
  BY DEF GeocodeEnds, Worker
<1>2. PICK found \in [open -> Finds \cup {Keep}], home \in SUBSET open :
        IF planned(found, home) = NoChange THEN Ends(Geocoder)
        ELSE /\ Step(Geocoder, Writes([j EXCEPT !.pl = planned(found, home), !.fd = flight,
                                         !.timed = {s \in Side : planned(found, home)[s].at # Keep}]))
             /\ UNCHANGED disturbed
  BY DEF GeocodeEnds
<1> DEFINE pl == planned(found, home)
           n == [j EXCEPT !.pl = pl, !.fd = flight, !.timed = {s \in Side : pl[s].at # Keep}]
<1>3. Formed(j) /\ \A s \in Side \ disturbed[Geocoder] : Fresh(j, s, part[s])
  BY <1>1 DEF TimesInv, JobsOK, HeldOK
<1>4. /\ j \in JobType /\ j.stage = "geocode" /\ j.in = Blank /\ j.seen \in RowType
      /\ \A s \in Side \ disturbed[Geocoder] : j.seen[s] = part[s]
  BY <1>1, <1>3 DEF Formed, HasSeen, Fresh
<1>5. flight \in FlightType \cup {Blank} /\ \A s \in Side : j.seen[s] \in EndType
  BY <1>4 DEF TimesInv, PartOK, RowType
<1>6. placed(found) \in [Side -> Place \cup {Blank}]
  BY <1>2, <1>5, TimesAssumption DEF EndType
<1>7. \A s \in Side :
        zones(found)[s] \in ChangeType /\ GivesZone(zones(found)[s], j.seen[s]) /\ zones(found)[s].place = Keep
  <2> HIDE DEF placed, j
  <2> QED BY <1>4, <1>5, <1>6, ResolvePartTZIs, ResolveFlightTZIs
<1>8. \A s \in Side : /\ pl[s] \in ChangeType /\ GivesZone(pl[s], j.seen[s])
                      /\ pl[s].place # Keep => j.seen[s].place = Blank
  <2> SUFFICES ASSUME NEW s \in Side
               PROVE  /\ pl[s] \in ChangeType /\ GivesZone(pl[s], j.seen[s])
                      /\ pl[s].place # Keep => j.seen[s].place = Blank
    OBVIOUS
  <2> DEFINE c == zones(found)[s]
  <2>1. c \in ChangeType /\ GivesZone(c, j.seen[s]) /\ c.place = Keep
    BY <1>7
  <2>2. CASE s \in open
    <3> DEFINE pinned == IF s \in home /\ found[s] # Keep THEN TRUE ELSE Keep
               place == found[s]
    <3>1. place \in Place \cup {Blank, Keep} /\ pinned \in BOOLEAN \cup {Keep} /\ j.seen[s].place = Blank
      BY <2>2, <1>2, TimesAssumption
    <3>2. pl[s] = [c EXCEPT !.place = place, !.pinned = pinned]
      BY <2>2
    <3> HIDE DEF pl, c, place, pinned, j
    <3>3. pl[s] \in ChangeType /\ pl[s].at = c.at /\ pl[s].tz = c.tz /\ pl[s].src = c.src
      BY <3>1, <3>2, <2>1 DEF ChangeType
    <3> QED BY <3>1, <3>3, <2>1 DEF GivesZone
  <2>3. CASE s \notin open
    <3>1. pl[s] = c
      BY <2>3
    <3> HIDE DEF pl, c, j
    <3> QED BY <3>1, <2>1
  <2> QED BY <2>2, <2>3
<1>9. n \in JobType /\ n.pl = pl /\ n.stage = "geocode" /\ n.in = Blank /\ n.seen = j.seen /\ n.fd = flight
  <2>1. pl \in [Side -> ChangeType]
    <3>1. pl = [s \in Side |-> pl[s]]
      OBVIOUS
    <3> HIDE DEF pl
    <3> QED BY <3>1, <1>8
  <2> HIDE DEF pl, j
  <2> QED BY <1>4, <1>5, <2>1 DEF JobType
<1>10. CASE Ends(Geocoder)
  BY <1>1, <1>10, OneEnds DEF Rows, TimesInv, PartOK
<1>11. CASE Step(Geocoder, Writes(n)) /\ UNCHANGED disturbed
  <2> HIDE DEF n, pl, j
  <2>1. Formed(Writes(n))
    BY <1>4, <1>9, WritesFormed DEF Dated
  <2>2. \A s \in Side \ disturbed[Geocoder] : Fresh(Writes(n), s, part[s])
    <3> SUFFICES ASSUME NEW s \in Side \ disturbed[Geocoder]
                 PROVE  Fresh(Writes(n), s, part[s])
      OBVIOUS
    <3>1. j.seen[s] = part[s] /\ part[s] \in EndType
      BY <1>4, <1>5
    <3>2. Kept(part[s], ApplyEnd(part[s], anchorFloating(pl[s], part[s])), FALSE)
      BY <3>1, <1>8, GivesZoneFits
    <3>3. Fits(n, s, anchorFloating(n.pl[s], part[s]), part[s])
      BY <3>2, <1>9 DEF Fits, Dated
    <3>4. Placed(n, s, part[s])
      BY <3>1, <1>8, <1>9 DEF Placed
    <3> QED BY <3>1, <3>3, <3>4, <1>9, WritesFresh
  <2>3. Writes(n).fd = flight /\ Writes(n).pc \in {"read", "write"}
    BY <1>9, WritesIs
  <2>4. Writes(n).fd # Blank \/ Writes(n).pc \in {"reread", "flight", "route", "update"} => flight # Blank
    BY <2>3
  <2> QED BY <1>1, <1>11, <2>1, <2>2, <2>4, OneHolds DEF Rows, TimesInv, PartOK
<1> HIDE DEF planned, n
<1> QED BY <1>2, <1>10, <1>11 DEF n

---------------------------------------------------------------------------
\* The writes.
LEMMA WorkerWrites ==
  ASSUME TimesInv, NEW w \in Worker, NEW rec, NEW new \in RowType, \A s \in Side : Matches(new[s]),
         part' = new, Step(w, rec), Disturbs(new, w), UNCHANGED fixes, Formed(rec),
         flight' \in FlightType \cup {Blank}, flight # Blank => flight' # Blank,
         rec.fd # Blank \/ rec.pc \in {"reread", "flight", "route", "update"} => flight # Blank,
         \A s \in Side : Fresh(rec, s, new[s]),
         lost' \subseteq Side, \A s \in Side \ lost' : Right(said'[s], new[s])
  PROVE  TimesInv'
<1>1. job \in [Worker -> JobType]
  BY DEF TimesInv, JobsOK
<1>2. rec \in JobType
  BY DEF Formed
<1>3. job' = [job EXCEPT ![w] = rec]
  BY DEF Step
<1>4. job' \in [Worker -> JobType] /\ job'[w] = rec /\ \A v \in Worker : v # w => job'[v] = job[v]
  BY <1>1, <1>2, <1>3
<1>5. PartOK' /\ FixesOK' /\ SaidOK'
  BY DEF TimesInv, PartOK, FixesOK, SaidOK
<1>6. JobsOK'
  BY <1>4 DEF TimesInv, JobsOK
<1>7. HeldOK'
  <2>1. SUFFICES ASSUME NEW v \in Worker, NEW s \in Side \ disturbed'[v]
                 PROVE  Fresh(job'[v], s, part'[s])
    BY DEF HeldOK
  <2>2. CASE v = w
    BY <2>2, <1>4
  <2>3. CASE v # w
    BY <2>3, <1>4, OthersHold
  <2> QED BY <2>2, <2>3
<1>8. DisturbedOK'
  BY DisturbsTyped
<1> QED BY <1>5, <1>6, <1>7, <1>8 DEF TimesInv

LEMMA OutsiderWrites ==
  ASSUME TimesInv, NEW new \in RowType, \A s \in Side : Matches(new[s]),
         part' = new, UNCHANGED job, Disturbs(new, Blank), FixesOK',
         flight' \in FlightType \cup {Blank}, flight # Blank => flight' # Blank,
         lost' \subseteq Side, \A s \in Side \ lost' : Right(said'[s], new[s])
  PROVE  TimesInv'
<1>1. PartOK' /\ SaidOK'
  BY DEF TimesInv, PartOK, SaidOK
<1>2. JobsOK'
  BY DEF TimesInv, JobsOK
<1>3. HeldOK'
  <2>1. SUFFICES ASSUME NEW v \in Worker, NEW s \in Side \ disturbed'[v]
                 PROVE  Fresh(job'[v], s, part'[s])
    BY DEF HeldOK
  <2>2. v # Blank
    BY TimesAssumption
  <2> QED BY <2>2, OthersHold
<1>4. DisturbedOK'
  BY DisturbsTyped
<1> QED BY <1>1, <1>2, <1>3, <1>4 DEF TimesInv

LEMMA RefreshHolds ==
  ASSUME TimesInv, NEW rf \in Answers, RefreshFlightPartSchedule(rf)
  PROVE  TimesInv'
<1> DEFINE fresh(s) == [part[s] EXCEPT !.at = rf.time[s], !.src = IF part[s].tz = Blank THEN "unknown" ELSE @]
           new == [s \in Side |-> fresh(s)]
<1>1. /\ flight # Blank /\ \A s \in Side : rf.time[s] # Keep
      /\ part' = new /\ flight' = [flight EXCEPT !.time = rf.time]
      /\ said' = [s \in Side |-> TrueInstant(rf.time[s])]
      /\ lost' = {} /\ Disturbs(new, Blank) /\ UNCHANGED <<job, fixes>>
  BY DEF RefreshFlightPartSchedule, Poll
<1>2. \A s \in Side : part[s] \in EndType /\ Matches(part[s]) /\ rf.time[s] \in Int
  BY <1>1, AnswerTyped DEF TimesInv, PartOK, RowType
<1>3. \A s \in Side : /\ new[s] \in EndType /\ Matches(new[s]) /\ new[s].at = rf.time[s]
                      /\ Right(TrueInstant(rf.time[s]), new[s])
  <2> SUFFICES ASSUME NEW s \in Side
               PROVE  /\ new[s] \in EndType /\ Matches(new[s]) /\ new[s].at = rf.time[s]
                      /\ Right(TrueInstant(rf.time[s]), new[s])
    OBVIOUS
  <2> DEFINE src == IF part[s].tz = Blank THEN "unknown" ELSE part[s].src
  <2>1. new[s] = [part[s] EXCEPT !.at = rf.time[s], !.src = src]
    OBVIOUS
  <2>2. src \in Source
    BY <1>2 DEF EndType, Source, Zoneless
  <2>3. (part[s].tz = Blank) = (src \in Zoneless)
    BY <1>2 DEF Matches, Zoneless
  <2> HIDE DEF new, src
  <2>4. new[s] \in EndType /\ new[s].at = rf.time[s] /\ new[s].tz = part[s].tz /\ new[s].src = src
    BY <2>1, <2>2, <1>2 DEF EndType
  <2> QED BY <2>3, <2>4 DEF Matches, Right, TrueInstant
<1>4. new \in RowType
  <2>1. new \in [Side -> EndType] /\ new["start"].at \in Int
    <3>1. new = [s \in Side |-> new[s]]
      OBVIOUS
    <3> HIDE DEF new
    <3> QED BY <3>1, <1>2, <1>3 DEF Side
  <2> HIDE DEF new
  <2> QED BY <2>1, TimesAssumption DEF RowType
<1>5. flight' \in FlightType /\ flight' # Blank
  <2>1. flight \in FlightType
    BY <1>1 DEF TimesInv, PartOK
  <2>2. rf.time \in [Side -> Int]
    <3>1. rf \in AnswerType
      BY TimesAssumption
    <3> QED BY <3>1, <1>2 DEF AnswerType
  <2> QED BY <1>1, <2>1, <2>2, TimesAssumption DEF FlightType
<1>6. FixesOK'
  BY <1>1 DEF TimesInv, FixesOK
<1> HIDE DEF new
<1>7. \A s \in Side \ lost' : Right(said'[s], new[s])
  BY <1>1, <1>3
<1> QED BY <1>1, <1>3, <1>4, <1>5, <1>6, <1>7, OutsiderWrites

LEMMA BackfillHolds ==
  ASSUME TimesInv, NEW rf \in Answers, BackfillFlightPart(rf)
  PROVE  TimesInv'
<1> DEFINE place(s) == IF part[s].place = Blank THEN AirportCoords(rf.code[s], rf.place[s]) ELSE part[s].place
           new == [s \in Side |-> [part[s] EXCEPT !.place = place(s)]]
           code == [s \in Side |-> IF flight.code[s] = Blank THEN rf.code[s] ELSE flight.code[s]]
<1>1. /\ flight # Blank /\ part' = new /\ flight' = [flight EXCEPT !.code = code]
      /\ Disturbs(new, Blank) /\ UNCHANGED <<job, fixes, said, lost>>
  BY DEF BackfillFlightPart, Poll
<1>2. /\ \A s \in Side : part[s] \in EndType /\ Matches(part[s])
      /\ part \in RowType /\ flight \in FlightType /\ lost \subseteq Side
  BY <1>1 DEF TimesInv, PartOK, RowType
<1>3. \A s \in Side : /\ new[s] \in EndType /\ new[s].at = part[s].at
                      /\ new[s].tz = part[s].tz /\ new[s].src = part[s].src
  <2> SUFFICES ASSUME NEW s \in Side
               PROVE  /\ new[s] \in EndType /\ new[s].at = part[s].at
                      /\ new[s].tz = part[s].tz /\ new[s].src = part[s].src
    OBVIOUS
  <2> DEFINE p == place(s)
  <2>1. p \in Place \cup {Blank}
    BY <1>2, AnswerTyped, AirportCoordsTyped DEF EndType
  <2>2. new[s] = [part[s] EXCEPT !.place = p]
    OBVIOUS
  <2> HIDE DEF new, p
  <2> QED BY <2>1, <2>2, <1>2 DEF EndType
<1>4. new \in RowType
  <2>1. new \in [Side -> EndType]
    <3>1. new = [s \in Side |-> new[s]]
      OBVIOUS
    <3> HIDE DEF new
    <3> QED BY <3>1, <1>3
  <2>2. new["start"].at # Blank
    <3> HIDE DEF new
    <3> QED BY <1>2, <1>3 DEF RowType, Side
  <2> HIDE DEF new
  <2> QED BY <2>1, <2>2 DEF RowType
<1>5. \A s \in Side : Matches(new[s])
  <2> HIDE DEF new
  <2> QED BY <1>2, <1>3 DEF Matches
<1>6. \A s \in Side \ lost' : Right(said'[s], new[s])
  <2>1. \A s \in Side \ lost : Right(said[s], part[s])
    BY DEF TimesInv, SaidOK
  <2>2. said' = said /\ lost' = lost
    BY <1>1
  <2> HIDE DEF new
  <2> QED BY <2>1, <2>2, <1>3 DEF Right, Shown
<1>7. flight' \in FlightType /\ flight' # Blank
  <2>1. code \in [Side -> Airport \cup {Blank}]
    BY <1>2, AnswerTyped DEF FlightType
  <2> HIDE DEF code
  <2> QED BY <2>1, <1>1, <1>2, TimesAssumption DEF FlightType
<1>8. FixesOK'
  BY <1>1 DEF TimesInv, FixesOK
<1> HIDE DEF new
<1> QED BY <1>1, <1>2, <1>4, <1>5, <1>6, <1>7, <1>8, OutsiderWrites

LEMMA FixZoneTyped ==
  ASSUME PartOK, NEW s \in Side, NEW z \in FixZone(s)
  PROVE  z.tz \in Zone \cup {Blank} /\ (z.tz # Blank => z.src \in Source \ Zoneless)
<1> DEFINE code == IF flight = Blank THEN Blank ELSE flight.code[s]
           place == IF part[s].place # Blank THEN part[s].place
                    ELSE IF s = "end" /\ code = Blank THEN part["start"].place ELSE Blank
           own == IF place # Blank /\ ZoneAt[place] # Blank THEN ZoneAt[place]
                  ELSE IF code \in Listed THEN ZoneAt[code] ELSE Blank
<1>1. place \in Place \cup {Blank}
  BY DEF PartOK, RowType, EndType, Side
<1>2. own \in Zone \cup {Blank}
  <2> HIDE DEF place, code
  <2> QED BY <1>1, TimesAssumption
<1>3. CASE own # Blank
  <2>1. z = [tz |-> own, src |-> "confirmed"]
    BY <1>3 DEF FixZone
  <2> HIDE DEF own
  <2> QED BY <1>2, <2>1 DEF Source, Zoneless
<1>4. CASE own = Blank
  <2>1. z \in {[tz |-> y, src |-> "inferred"] : y \in Zone} \cup {[tz |-> Blank, src |-> "unknown"]}
    BY <1>4 DEF FixZone
  <2> QED BY <2>1 DEF Source, Zoneless
<1> QED BY <1>3, <1>4

LEMMA PlanFixesHolds ==
  ASSUME TimesInv, PlanFixes
  PROVE  TimesInv'
<1>1. PICK z \in [FloatingEnds -> UNION {FixZone(s) : s \in FloatingEnds}] :
        /\ \A s \in FloatingEnds : z[s] \in FixZone(s)
        /\ fixes' = [s \in {f \in FloatingEnds : z[f].tz # Blank} |->
             [old |-> part[s].at, at |-> Anchor(part[s].at, z[s].tz), tz |-> z[s].tz, src |-> z[s].src]]
  BY DEF PlanFixes
<1>2. UNCHANGED <<part, flight, job, said, disturbed, lost>>
  BY DEF PlanFixes
<1>3. FixesOK'
  <2>1. DOMAIN fixes' = {f \in FloatingEnds : z[f].tz # Blank}
    BY <1>1
  <2>2. DOMAIN fixes' \subseteq Side
    BY <2>1 DEF FloatingEnds
  <2>3. ASSUME NEW s \in DOMAIN fixes'
        PROVE  /\ fixes'[s].old \in Int /\ fixes'[s].tz \in Zone /\ fixes'[s].src \in Source \ Zoneless
               /\ fixes'[s].at = Anchor(fixes'[s].old, fixes'[s].tz)
    <3>1. s \in FloatingEnds /\ z[s].tz # Blank
      BY <2>1
    <3>2. s \in Side /\ part[s].at \in Int
      BY <3>1 DEF FloatingEnds, TimesInv, PartOK, RowType, EndType
    <3>3. z[s].tz \in Zone /\ z[s].src \in Source \ Zoneless
      BY <1>1, <3>1, <3>2, FixZoneTyped DEF TimesInv
    <3>4. fixes'[s] = [old |-> part[s].at, at |-> Anchor(part[s].at, z[s].tz), tz |-> z[s].tz, src |-> z[s].src]
      BY <1>1, <3>1
    <3> QED BY <3>2, <3>3, <3>4
  <2> QED BY <2>2, <2>3 DEF FixesOK
<1> QED BY <1>2, <1>3 DEF TimesInv, PartOK, JobsOK, DisturbedOK, HeldOK, SaidOK

LEMMA MarkResolvedHolds ==
  ASSUME TimesInv, MarkFlightPartResolved
  PROVE  TimesInv'
<1>1. UNCHANGED <<part, job, fixes, said, disturbed, lost>> /\ flight # Blank
  BY DEF MarkFlightPartResolved, Poll
<1>2. flight' \in FlightType
  BY <1>1 DEF MarkFlightPartResolved, TimesInv, PartOK, FlightType
<1>3. flight' # Blank
  BY <1>2, TimesAssumption
<1> QED BY <1>1, <1>2, <1>3 DEF TimesInv, PartOK, FixesOK, JobsOK, DisturbedOK, HeldOK, SaidOK

LEMMA ApplyZoneFixesHolds ==
  ASSUME TimesInv, ApplyZoneFixes
  PROVE  TimesInv'
<1> DEFINE hit == {s \in DOMAIN fixes : Guarded(s)}
           new == [s \in Side |-> IF s \in hit
                     THEN [part[s] EXCEPT !.at = fixes[s].at, !.tz = fixes[s].tz, !.src = fixes[s].src]
                     ELSE part[s]]
<1>1. /\ fixes # Blank /\ part' = new /\ fixes' = Blank
      /\ said' = [s \in Side |-> Told(s, part[s], new[s], FALSE)]
      /\ Disturbs(new, Blank) /\ UNCHANGED <<flight, job, lost>>
  BY DEF ApplyZoneFixes
<1>2. /\ \A s \in Side : part[s] \in EndType /\ Matches(part[s])
      /\ part \in RowType /\ lost \subseteq Side
  BY DEF TimesInv, PartOK, RowType
<1>3. \A s \in Side : /\ new[s] \in EndType /\ Matches(new[s]) /\ Kept(part[s], new[s], FALSE)
                      /\ part[s].at # Blank => new[s].at # Blank
  <2> SUFFICES ASSUME NEW s \in Side
               PROVE  /\ new[s] \in EndType /\ Matches(new[s]) /\ Kept(part[s], new[s], FALSE)
                      /\ part[s].at # Blank => new[s].at # Blank
    OBVIOUS
  <2>1. CASE s \notin hit
    <3>1. new[s] = part[s]
      BY <2>1
    <3> HIDE DEF new
    <3> QED BY <3>1, <1>2 DEF Kept
  <2>2. CASE s \in hit
    <3>1. /\ part[s].src = "floating" /\ part[s].at = fixes[s].old
          /\ fixes[s].old \in Int /\ fixes[s].tz \in Zone /\ fixes[s].src \in Source \ Zoneless
          /\ fixes[s].at = Anchor(fixes[s].old, fixes[s].tz)
      BY <1>1, <2>2 DEF Guarded, TimesInv, FixesOK
    <3>2. fixes[s].at \in Int
      BY <3>1, AnchorShows
    <3>3. new[s] = [part[s] EXCEPT !.at = fixes[s].at, !.tz = fixes[s].tz, !.src = fixes[s].src]
      BY <2>2
    <3> HIDE DEF new
    <3>4. new[s] \in EndType /\ new[s].at = fixes[s].at /\ new[s].tz = fixes[s].tz /\ new[s].src = fixes[s].src
      BY <3>1, <3>2, <3>3, <1>2 DEF EndType
    <3>5. Matches(new[s])
      BY <3>1, <3>4, TimesAssumption DEF Matches
    <3>6. part[s].at # Blank /\ new[s].at # Blank /\ new[s].src # "unknown"
      BY <3>1, <3>2, <3>4, TimesAssumption DEF Zoneless
    <3>7. Kept(part[s], new[s], FALSE)
      BY <3>1, <3>4, <3>6 DEF Kept
    <3> QED BY <3>4, <3>5, <3>6, <3>7
  <2> QED BY <2>1, <2>2
<1>4. new \in RowType
  <2>1. new \in [Side -> EndType]
    <3>1. new = [s \in Side |-> new[s]]
      OBVIOUS
    <3> HIDE DEF new
    <3> QED BY <3>1, <1>3
  <2>2. new["start"].at # Blank
    <3> HIDE DEF new
    <3> QED BY <1>2, <1>3 DEF RowType, Side
  <2> HIDE DEF new
  <2> QED BY <2>1, <2>2 DEF RowType
<1> HIDE DEF new
<1>5. \A s \in Side \ lost' : Right(said'[s], new[s])
  <2> SUFFICES ASSUME NEW s \in Side \ lost'
               PROVE  Right(said'[s], new[s])
    OBVIOUS
  <2>1. Right(said[s], part[s])
    BY <1>1 DEF TimesInv, SaidOK
  <2>2. Right(Told(s, part[s], new[s], FALSE), new[s])
    BY <1>2, <1>3, <2>1, ToldIsTrue
  <2> QED BY <1>1, <2>2
<1>6. FixesOK'
  BY <1>1 DEF FixesOK
<1> QED BY <1>1, <1>2, <1>3, <1>4, <1>5, <1>6, OutsiderWrites DEF TimesInv, PartOK

LEMMA ApplyRow ==
  ASSUME NEW row \in RowType, NEW pl \in [Side -> ChangeType]
  PROVE  /\ Apply(row, pl) \in RowType
         /\ \A s \in Side : Apply(row, pl)[s] = ApplyEnd(row[s], pl[s])
<1>1. \A s \in Side : /\ row[s] \in EndType /\ pl[s] \in ChangeType
                      /\ ApplyEnd(row[s], pl[s]) \in EndType
                      /\ row[s].at # Blank => ApplyEnd(row[s], pl[s]).at # Blank
  BY ApplyTyped DEF RowType
<1>2. "start" \in Side /\ row["start"].at # Blank
  BY DEF Side, RowType
<1>3. ApplyEnd(row["start"], pl["start"]).at # Blank
  BY <1>1, <1>2
<1> QED BY <1>1, <1>2, <1>3 DEF Apply, RowType

\* What a write of the part says of each end is true of it, or lost.
LEMMA WritePartSays ==
  ASSUME TimesInv, NEW w \in Worker, job[w].pc = "write", NEW new, new = Apply(part, job[w].pl),
         \A s \in Side : Matches(new[s]),
         NEW s \in Side,
         s \notin (lost \ TimesGiven(w)) \cup ({t \in Side : job[w].pl[t] # Nothing} \cap disturbed[w]) \cup Repinned(w, new)
  PROVE  Right(IF s \in TimesGiven(w) THEN Typed(job[w].in, s, new[s])
               ELSE IF s \in {t \in Side : job[w].pl[t] # Nothing} /\ GoesWithStart(w, s)
                 THEN Reread(job[w].seen["start"], new[s])
               ELSE Told(s, part[s], new[s], job[w].stage = "edit" /\ Relabels(job[w].in, s)), new[s])
<1> DEFINE j == job[w]
           e == part[s]
           c == j.pl[s]
           relabels == j.stage = "edit" /\ Relabels(j.in, s)
<1>1. Formed(j) /\ PartOK /\ (s \notin disturbed[w] => Fresh(j, s, e))
  BY DEF TimesInv, JobsOK, HeldOK
<1>2. j \in JobType /\ part \in RowType /\ e \in EndType /\ Matches(e)
  BY <1>1 DEF Formed, PartOK, RowType
<1>3. j.pl \in [Side -> ChangeType] /\ c \in ChangeType
  BY <1>2 DEF JobType
<1>4. new[s] = ApplyEnd(e, c) /\ new[s] \in EndType /\ Matches(new[s])
  <2> HIDE DEF j
  <2> QED BY <1>2, <1>3, ApplyRow DEF RowType, j
<1>5. new[s].at = Or(c.at, e.at) /\ new[s].tz = Or(c.tz, e.tz) /\ new[s].src = Or(c.src, e.src)
  BY <1>4, ApplyReads
<1>6. s \in TimesGiven(w) <=> Dated(j, s)
  BY DEF TimesGiven, Dated
<1>7. c # Nothing => s \notin disturbed[w] /\ Fits(j, s, c, e)
  BY <1>1 DEF Fresh
<1>8. CASE s \in TimesGiven(w)
  <2>1. c.at # Keep
    BY <1>1, <1>6, <1>8 DEF Formed, Holds
  <2>2. c # Nothing
    BY <2>1 DEF Nothing
  <2>3. Shows(j.in, s, new[s], e)
    BY <2>2, <1>4, <1>6, <1>7, <1>8 DEF Fits
  <2>4. CASE j.in.local[s] # Blank
    <3>1. ~(j.in.zone[s] = Keep /\ new[s].tz # e.tz)
      BY <1>8, <2>4 DEF Repinned
    <3>2. Shown(new[s]) = j.in.local[s] /\ new[s].src # "unknown"
      BY <2>3, <2>4, <3>1 DEF Shows
    <3> QED BY <3>2, <2>4, <1>8 DEF Right, Given, Typed
  <2>5. CASE j.in.local[s] = Blank
    <3>1. new[s].at = j.in.at[s]
      BY <2>3, <2>5 DEF Shows
    <3>2. CASE new[s].src = "floating"
      <4>1. Shown(new[s]) = new[s].at
        BY <3>2, <1>4 DEF Matches, Zoneless, Shown
      <4> QED BY <4>1, <3>1, <3>2, <2>5, <1>8 DEF Right, Given, Typed, Instant
    <3>3. CASE new[s].src # "floating"
      BY <3>1, <3>3, <2>5, <1>8 DEF Right, TrueInstant, Typed, Instant
    <3> QED BY <3>2, <3>3
  <2> QED BY <2>4, <2>5
<1>9. CASE s \notin TimesGiven(w) /\ c # Nothing /\ GoesWithStart(w, s)
  <2>1. s = "end" /\ j.stage = "anchor" /\ EndAsStart(j)
    BY <1>9 DEF GoesWithStart, EndAsStart
  <2> DEFINE b == j.seen["start"]
  <2>2. AnchorsFlight(j) /\ j.seen \in RowType
    BY <1>1, <2>1 DEF Formed, Holds, HasSeen
  <2>3. b.tz = Blank /\ c.at = Anchor(b.at, c.tz) /\ AnchorsEnd(c) /\ b \in EndType /\ b.at # Blank
    BY <2>1, <2>2, <1>9 DEF AnchorsFlight, RowType, Side
  <2>4. c.at \in Int /\ c.tz \in Zone /\ c.src = "confirmed"
    BY <2>3, <1>9 DEF AnchorsEnd
  <2>5. new[s].at = c.at /\ new[s].tz = c.tz /\ new[s].src = "confirmed"
    <3> HIDE DEF c, e
    <3> QED BY <2>4, <1>5, TimesAssumption DEF Or, Source, Zoneless
  <2>6. Shown(b) = b.at
    BY <2>3 DEF Shown
  <2>7. Shown(new[s]) = Reread(b, new[s]).time /\ Reread(b, new[s]).wall = TRUE
    <3> HIDE DEF b, c
    <3> QED BY <2>3, <2>4, <2>5, <2>6, <1>4, RereadIsTrue
  <2>8. Right(Reread(b, new[s]), new[s])
    BY <2>5, <2>7 DEF Right
  <2> QED BY <2>8, <1>9
<1>10. CASE s \notin TimesGiven(w) /\ ~(c # Nothing /\ GoesWithStart(w, s))
  <2>1. Right(said[s], e)
    BY <1>10 DEF TimesInv, SaidOK
  <2>2. Kept(e, new[s], relabels)
    <3>1. CASE c = Nothing
      <4>1. new[s].at = e.at /\ new[s].tz = e.tz /\ new[s].src = e.src
        BY <3>1, <1>5 DEF Or, Nothing
      <4> QED BY <4>1 DEF Kept
    <3>2. CASE c # Nothing
      <4>1. ~(j.stage = "anchor" /\ s = "end" /\ EndAsStart(j))
        BY <3>2, <1>10 DEF GoesWithStart, EndAsStart
      <4> QED BY <4>1, <3>2, <1>4, <1>6, <1>7, <1>10 DEF Fits
    <3> QED BY <3>1, <3>2
  <2>3. relabels \in BOOLEAN
    OBVIOUS
  <2>4. Right(Told(s, e, new[s], relabels), new[s])
    <3> HIDE DEF relabels, e
    <3> QED BY <2>1, <2>2, <2>3, <1>2, <1>4, ToldIsTrue
  <2> QED BY <2>4, <1>10
<1> QED BY <1>8, <1>9, <1>10

LEMMA WritePartHolds ==
  ASSUME TimesInv, NEW w \in Worker, WritePart(w)
  PROVE  TimesInv'
<1> DEFINE j == job[w]
           new == Apply(part, j.pl)
           rec == [j EXCEPT !.pc = "reread", !.seen = Blank]
<1>1. j.pc = "write" /\ Formed(j) /\ PartOK
  BY DEF WritePart, TimesInv, JobsOK
<1>2. j \in JobType /\ j.pl \in [Side -> ChangeType] /\ part \in RowType /\ new \in RowType
  BY <1>1, ApplyRow DEF Formed, JobType, PartOK
<1>3. CASE ~(\A s \in Side : Matches(new[s]))
  <2>1. Ends(w) /\ UNCHANGED Rows
    BY <1>3 DEF WritePart
  <2> QED BY <2>1, <1>1, OneEnds DEF Rows, PartOK
<1>4. CASE \A s \in Side : Matches(new[s])
  <2>1. /\ part' = new /\ Disturbs(new, w) /\ UNCHANGED <<flight, fixes>>
        /\ Loses(w, {s \in Side : j.pl[s] # Nothing}, new)
        /\ said' = [s \in Side |->
             IF s \in TimesGiven(w) THEN Typed(j.in, s, new[s])
             ELSE IF s \in {t \in Side : j.pl[t] # Nothing} /\ GoesWithStart(w, s)
               THEN Reread(j.seen["start"], new[s])
             ELSE Told(s, part[s], new[s], j.stage = "edit" /\ Relabels(j.in, s))]
    BY <1>4 DEF WritePart
  <2>2. lost' \subseteq Side
    <3>1. TimesGiven(w) \subseteq Side
      BY <1>2 DEF TimesGiven, JobType
    <3>2. Repinned(w, new) \subseteq Side
      BY <3>1 DEF Repinned
    <3> QED BY <1>1, <2>1, <3>2 DEF Loses, PartOK
  <2>3. \A s \in Side \ lost' : Right(said'[s], new[s])
    <3> SUFFICES ASSUME NEW s \in Side \ lost'
                 PROVE  Right(said'[s], new[s])
      OBVIOUS
    <3>1. s \notin (lost \ TimesGiven(w)) \cup ({t \in Side : j.pl[t] # Nothing} \cap disturbed[w]) \cup Repinned(w, new)
      BY <2>1 DEF Loses
    <3> DEFINE says == IF s \in TimesGiven(w) THEN Typed(j.in, s, new[s])
                       ELSE IF s \in {t \in Side : j.pl[t] # Nothing} /\ GoesWithStart(w, s)
                         THEN Reread(j.seen["start"], new[s])
                       ELSE Told(s, part[s], new[s], j.stage = "edit" /\ Relabels(j.in, s))
    <3>2. said'[s] = says
      BY <2>1
    <3>3. Right(says, new[s])
      BY <1>1, <1>4, <3>1, WritePartSays
    <3> HIDE DEF says
    <3> QED BY <3>2, <3>3
  <2>4. IF ReadsBack(j) THEN Step(w, rec) ELSE Step(w, Idle)
    BY <1>4 DEF WritePart
  <2>5. /\ rec \in JobType /\ rec.pc = "reread" /\ rec.stage = j.stage /\ rec.in = j.in
        /\ rec.fd = j.fd /\ rec.timed = j.timed
    <3> HIDE DEF new, j
    <3> QED BY <1>2 DEF JobType
  <2>6. /\ j.fd \in FlightType \cup {Blank} /\ (j.stage = "anchor" => j.fd \in FlightType)
        /\ IF j.stage = "geocode" THEN j.in = Blank ELSE j.in \in Edits /\ j.timed = Timed(j.in)
        /\ j.stage \in {"edit", "anchor", "geocode"}
    BY <1>1 DEF Formed, JobType
  <2>7. j.fd # Blank => flight # Blank
    BY DEF TimesInv, JobsOK
  <2>8. CASE ReadsBack(j)
    <3>1. Step(w, rec)
      BY <2>4, <2>8
    <3>2. j.stage = "geocode" => j.fd \in FlightType
      BY <2>6, <2>8 DEF ReadsBack
    <3>3. flight # Blank
      <4>1. CASE j.stage = "edit"
        BY <4>1, <2>8 DEF ReadsBack
      <4>2. CASE j.stage # "edit"
        BY <4>2, <3>2, <2>6, <2>7, TimesAssumption
      <4> QED BY <4>1, <4>2
    <3> HIDE DEF rec, new, j
    <3>4. Formed(rec)
      BY <2>5, <2>6, <3>2 DEF Formed, HasSeen, Holds
    <3>5. \A s \in Side : Fresh(rec, s, new[s])
      BY <2>5 DEF Fresh, HasSeen, Holds
    <3> QED BY <1>1, <1>2, <1>4, <2>1, <2>2, <2>3, <3>1, <3>3, <3>4, <3>5, WorkerWrites DEF PartOK
  <2>9. CASE ~ReadsBack(j)
    <3>1. Idle.fd = Blank /\ Idle.pc = "idle" /\ Step(w, Idle)
      BY <2>4, <2>9 DEF Idle
    <3>2. \A s \in Side : Fresh(Idle, s, new[s])
      BY IdleIsFresh
    <3> HIDE DEF new, j
    <3> QED BY <1>1, <1>2, <1>4, <2>1, <2>2, <2>3, <3>1, <3>2, IdleIsFormed, WorkerWrites DEF PartOK
  <2> QED BY <2>8, <2>9
<1> QED BY <1>3, <1>4

\* A caller that needs the row it wrote reads it again.
LEMMA ReadBackHolds ==
  ASSUME TimesInv, NEW w \in Worker, ReadBack(w)
  PROVE  TimesInv'
<1> DEFINE j == job[w]
           pc == IF j.stage # "edit" THEN "sync" ELSE IF j.timed # {} THEN "flight" ELSE "route"
           rec == [j EXCEPT !.seen = part, !.pc = pc]
<1>1. j.pc = "reread" /\ UNCHANGED Rows /\ ReadsNow(w) /\ Step(w, rec)
  BY DEF ReadBack
<1>2. Formed(j) /\ part \in RowType /\ flight # Blank
  BY <1>1 DEF TimesInv, JobsOK, PartOK
<1>3. /\ j \in JobType /\ j.stage \in {"edit", "anchor", "geocode"}
      /\ j.stage # "edit" => j.fd \in FlightType
      /\ IF j.stage = "geocode" THEN j.in = Blank ELSE j.in \in Edits /\ j.timed = Timed(j.in)
  BY <1>1, <1>2 DEF Formed, JobType
<1>4. pc \in {"sync", "flight", "route"} /\ (pc = "sync" <=> j.stage # "edit")
  OBVIOUS
<1>5. /\ rec \in JobType /\ rec.pc = pc /\ rec.stage = j.stage /\ rec.in = j.in
      /\ rec.fd = j.fd /\ rec.timed = j.timed /\ rec.seen = part
  <2> HIDE DEF pc, j
  <2> QED BY <1>2, <1>3, <1>4 DEF JobType
<1> HIDE DEF rec, pc, j
<1>6. Formed(rec)
  BY <1>2, <1>3, <1>4, <1>5 DEF Formed, HasSeen, Holds
<1>7. \A s \in Side : Fresh(rec, s, part[s])
  BY <1>4, <1>5 DEF Fresh, Holds
<1> QED BY <1>1, <1>2, <1>6, <1>7, OneHolds DEF Rows, TimesInv, PartOK

\* What the route transaction says of each end is true of it, or lost.
LEMMA RouteSays ==
  ASSUME NEW s \in Side, NEW e \in EndType, Matches(e), NEW up \in TurnType, TurnOK(up),
         Routed(up, e),
         NEW c \in ChangeType, c.at = up.at, c.tz = up.tz, c.src = up.src,
         NEW new \in EndType, new = ApplyEnd(e, anchorFloating(c, e)), Matches(new),
         up.time # Keep \/ Right(said[s], e)
  PROVE  Right(IF up.time # Keep THEN TrueInstant(new.at) ELSE Told(s, e, new, up.tz # Keep), new)
<1> DEFINE p == anchorFloating(c, e)
<1>1. CASE up.time # Keep
  BY <1>1 DEF Right, TrueInstant
<1>2. CASE up.time = Keep
  <2>1. Kept(e, new, up.tz # Keep)
    <3>1. new.at = Or(p.at, e.at) /\ new.tz = Or(p.tz, e.tz) /\ new.src = Or(p.src, e.src)
      BY ApplyReads
    <3>2. CASE up.at # Keep
      <4>1. /\ e.src = "floating" /\ e.at # Blank /\ up.tz \in Zone /\ up.src = "confirmed"
            /\ up.at = Anchor(e.at, up.tz)
        BY <1>2, <3>2 DEF Routed
      <4>2. p = c
        BY <3>2 DEF anchorFloating
      <4>3. new.at = up.at /\ new.tz = up.tz /\ new.src = "confirmed"
        <5> HIDE DEF p
        <5> QED BY <3>1, <3>2, <4>1, <4>2, TimesAssumption DEF Or, Source, Zoneless
      <4> QED BY <4>1, <4>3 DEF Kept
    <3>3. CASE up.at = Keep /\ up.tz = Keep
      <4>1. p = c /\ up.src = Keep
        BY <3>3 DEF anchorFloating, TurnOK
      <4>2. new.at = e.at /\ new.tz = e.tz /\ new.src = e.src
        <5> HIDE DEF p
        <5> QED BY <3>1, <3>3, <4>1 DEF Or
      <4> QED BY <4>2 DEF Kept
    <3>4. CASE up.at = Keep /\ up.tz # Keep /\ e.at = Blank
      <4>1. p = c \/ p = [c EXCEPT !.src = "unknown"]
        BY <3>4 DEF anchorFloating
      <4>2. new.at = Blank
        <5> HIDE DEF p
        <5>1. p.at = Keep
          BY <3>4, <4>1 DEF ChangeType
        <5> QED BY <3>1, <3>4, <5>1 DEF Or
      <4> QED BY <4>2, <3>4 DEF Kept
    <3>5. CASE up.at = Keep /\ up.tz # Keep /\ e.at # Blank /\ e.src # "floating"
      <4>1. p = c
        BY <3>5 DEF anchorFloating
      <4>2. new.at = e.at
        <5> HIDE DEF p
        <5> QED BY <3>1, <3>5, <4>1 DEF Or
      <4>3. new.src = "floating" => new.tz = Blank
        BY DEF Matches, Zoneless
      <4> QED BY <4>2, <4>3, <3>5 DEF Kept
    <3>6. CASE up.at = Keep /\ up.tz # Keep /\ e.at # Blank /\ e.src = "floating"
      <4>0. up.tz \in Zone \cup {Blank} /\ e.at \in Int
        BY <3>6 DEF TurnType, EndType
      <4>1. CASE up.tz = Blank
        <5>1. p = [c EXCEPT !.src = "floating"]
          BY <3>6, <4>1 DEF anchorFloating
        <5> HIDE DEF p
        <5>2. p.at = Keep /\ p.tz = Blank /\ p.src = "floating"
          BY <5>1, <3>6, <4>1 DEF ChangeType
        <5>3. new.at = e.at /\ new.tz = Blank /\ new.src = "floating"
          BY <5>2, <3>1, TimesAssumption DEF Or, Source, Zoneless
        <5> QED BY <5>3, <3>6 DEF Kept
      <4>2. CASE up.tz # Blank
        <5>0. up.tz \in Zone
          BY <4>0, <4>2
        <5>1. p = [c EXCEPT !.src = "confirmed", !.at = Anchor(e.at, up.tz)]
          BY <3>6, <4>2 DEF anchorFloating
        <5> HIDE DEF p
        <5>2. p.at = Anchor(e.at, up.tz) /\ p.tz = up.tz /\ p.src = "confirmed"
          BY <5>1, <3>6 DEF ChangeType
        <5>3. Anchor(e.at, up.tz) \in Int
          BY <4>0, <5>0, AnchorShows
        <5>4. new.at = Anchor(e.at, up.tz) /\ new.tz = up.tz /\ new.src = "confirmed"
          BY <5>0, <5>2, <5>3, <3>1, TimesAssumption DEF Or, Source, Zoneless
        <5> QED BY <5>0, <5>4, <3>6 DEF Kept
      <4> QED BY <4>1, <4>2
    <3> QED BY <3>2, <3>3, <3>4, <3>5, <3>6
  <2>2. Right(Told(s, e, new, up.tz # Keep), new)
    BY <2>1, <1>2, ToldIsTrue
  <2> QED BY <2>2, <1>2
<1> QED BY <1>1, <1>2

LEMMA UpdateHolds ==
  ASSUME TimesInv, NEW w \in Editors, UpdateFlightPartRoute(w)
  PROVE  TimesInv'
<1> DEFINE j == job[w]
           up == j.route.to
           c0(s) == [Nothing EXCEPT !.at = up[s].at, !.tz = up[s].tz, !.src = up[s].src, !.place = up[s].place]
           pl == [s \in Side |-> anchorFloating(c0(s), part[s])]
           new == Apply(part, pl)
           times == [s \in Side |-> Or(up[s].time, flight.time[s])]
           carries(s) == up[s].at = Keep /\ up[s].time = Keep /\ pl[s].at # Keep
           follows(s) ==
             IF carries(s) /\ times[s] = part[s].at THEN pl[s].at
             ELSE IF s = "end" /\ carries("start") /\ part["end"].at = Blank /\ times["end"] = part["start"].at
               THEN pl["start"].at ELSE times[s]
<1>1. w \in Worker /\ j.pc = "update" /\ Formed(j) /\ PartOK
  BY DEF UpdateFlightPartRoute, TimesInv, JobsOK, Worker
<1>2. j.route \in RouteType /\ (\A s \in Side : TurnOK(up[s])) /\ part \in RowType
  BY <1>1 DEF Formed, PartOK
<1>3. \A s \in Side : /\ up[s] \in TurnType /\ part[s] \in EndType /\ Matches(part[s])
  BY <1>1, <1>2 DEF RouteType, PartOK, RowType
<1>4. flight \in FlightType /\ flight # Blank
  BY <1>1 DEF TimesInv, JobsOK, PartOK
<1>5. CASE ~(\A s \in Side : ResolveSource(pl[s], part[s]))
  <2>1. Ends(w) /\ UNCHANGED Rows
    BY <1>5 DEF UpdateFlightPartRoute
  <2> QED BY <2>1, <1>1, OneEnds DEF Rows, PartOK
<1>6. CASE \A s \in Side : ResolveSource(pl[s], part[s])
  <2>1. /\ part' = new /\ Disturbs(new, w) /\ Step(w, Idle) /\ UNCHANGED fixes
        /\ flight' = [code |-> [s \in Side |-> Or(up[s].code, flight.code[s])],
                      time |-> [s \in Side |-> follows(s)],
                      resolved |-> Or(j.route.resolved, flight.resolved)]
        /\ said' = [s \in Side |->
             IF up[s].time # Keep THEN TrueInstant(new[s].at)
             ELSE Told(s, part[s], new[s], up[s].tz # Keep)]
        /\ lost' = (lost \ {s \in Side : up[s].time # Keep})
                     \cup {s \in disturbed[w] : up[s].time = Keep /\ up[s].at # Keep}
    BY <1>6 DEF UpdateFlightPartRoute
  <2>2. \A s \in Side : /\ c0(s) \in ChangeType
                        /\ c0(s).at = up[s].at /\ c0(s).tz = up[s].tz /\ c0(s).src = up[s].src
    <3> SUFFICES ASSUME NEW s \in Side
                 PROVE  /\ c0(s) \in ChangeType
                        /\ c0(s).at = up[s].at /\ c0(s).tz = up[s].tz /\ c0(s).src = up[s].src
      OBVIOUS
    <3> DEFINE turn == up[s]
               c == c0(s)
    <3>1. c = [Nothing EXCEPT !.at = turn.at, !.tz = turn.tz, !.src = turn.src, !.place = turn.place]
      OBVIOUS
    <3>2. turn \in TurnType
      BY <1>3
    <3> HIDE DEF c, turn
    <3>3. /\ turn.at \in Int \cup {Keep} /\ turn.tz \in Zone \cup {Blank, Keep}
          /\ turn.src \in Source \cup {Keep} /\ turn.place \in Place \cup {Blank, Keep}
      BY <3>2 DEF TurnType
    <3>4. c \in ChangeType /\ c.at = turn.at /\ c.tz = turn.tz /\ c.src = turn.src
      BY <3>1, <3>3, NothingTyped DEF Nothing, ChangeType
    <3> QED BY <3>4 DEF c, turn
  <2>3. pl \in [Side -> ChangeType] /\ \A s \in Side : pl[s] = anchorFloating(c0(s), part[s])
    <3> HIDE DEF c0
    <3> QED BY <2>2, <1>3, anchorFloatingTyped
  <2>4. /\ new \in RowType
        /\ \A s \in Side : new[s] = ApplyEnd(part[s], pl[s])
    <3> HIDE DEF pl
    <3> QED BY <2>3, <1>2, ApplyRow
  <2>5. \A s \in Side : new[s] \in EndType /\ Matches(new[s])
    <3> SUFFICES ASSUME NEW s \in Side
                 PROVE  new[s] \in EndType /\ Matches(new[s])
      OBVIOUS
    <3> HIDE DEF new, pl
    <3>1. new[s] \in EndType /\ new[s] = ApplyEnd(part[s], pl[s])
      BY <2>4 DEF RowType
    <3>2. CASE TouchesZone(pl[s])
      BY <3>1, <3>2, <1>6 DEF ResolveSource
    <3>3. CASE ~TouchesZone(pl[s])
      <4>1. new[s].tz = part[s].tz /\ new[s].src = part[s].src
        BY <3>1, <3>3, ApplyReads DEF TouchesZone, Or
      <4> QED BY <3>1, <4>1, <1>3 DEF Matches
    <3> QED BY <3>2, <3>3
  <2>6. flight' \in FlightType /\ flight' # Blank
    <3>1. \A s \in Side : Or(up[s].code, flight.code[s]) \in Airport \cup {Blank}
      BY <1>3, <1>4 DEF Or, TurnType, FlightType
    <3>2. \A s \in Side : times[s] \in Int
      BY <1>3, <1>4 DEF Or, TurnType, FlightType
    <3>3. \A s \in Side : pl[s].at \in Int \cup {Keep}
      <4> HIDE DEF pl
      <4> QED BY <2>3 DEF ChangeType
    <3>4. \A s \in Side : follows(s) \in Int
      <4> HIDE DEF pl, times
      <4> QED BY <3>2, <3>3 DEF Side
    <3>5. Or(j.route.resolved, flight.resolved) \in BOOLEAN
      BY <1>2, <1>4 DEF Or, RouteType, FlightType
    <3> HIDE DEF follows, up, j
    <3>6. flight' \in FlightType
      BY <2>1, <3>1, <3>4, <3>5 DEF FlightType
    <3> QED BY <3>6, TimesAssumption
  <2>7. lost' \subseteq Side
    BY <1>1, <2>1 DEF PartOK, TimesInv, DisturbedOK
  <2>8. \A s \in Side \ lost' : Right(said'[s], new[s])
    <3> SUFFICES ASSUME NEW s \in Side \ lost'
                 PROVE  Right(said'[s], new[s])
      OBVIOUS
    <3> DEFINE turn == up[s]
               c == c0(s)
               e == part[s]
    <3>1. turn.time # Keep \/ Right(said[s], e)
      BY <2>1 DEF TimesInv, SaidOK
    <3>2. s \in disturbed[w] => turn.time # Keep \/ turn.at = Keep
      BY <2>1
    <3>3. Routed(turn, e)
      <4>1. CASE s \in disturbed[w]
        BY <4>1, <3>2 DEF Routed
      <4>2. CASE s \notin disturbed[w]
        BY <4>2, <1>1 DEF TimesInv, HeldOK, Fresh
      <4> QED BY <4>1, <4>2
    <3>4. /\ c \in ChangeType /\ c.at = turn.at /\ c.tz = turn.tz /\ c.src = turn.src
          /\ turn \in TurnType /\ TurnOK(turn) /\ e \in EndType /\ Matches(e)
          /\ new[s] \in EndType /\ Matches(new[s])
      BY <1>2, <1>3, <2>2, <2>5
    <3>5. new[s] = ApplyEnd(e, anchorFloating(c, e))
      BY <2>3, <2>4
    <3>6. said'[s] = IF turn.time # Keep THEN TrueInstant(new[s].at) ELSE Told(s, e, new[s], turn.tz # Keep)
      BY <2>1
    <3> HIDE DEF turn, c, e, new
    <3>7. Right(IF turn.time # Keep THEN TrueInstant(new[s].at) ELSE Told(s, e, new[s], turn.tz # Keep), new[s])
      BY <3>1, <3>3, <3>4, <3>5, RouteSays
    <3> QED BY <3>6, <3>7
  <2>9. Idle.fd = Blank /\ Idle.pc = "idle" /\ \A s \in Side : Fresh(Idle, s, new[s])
    BY IdleIsFresh DEF Idle
  <2> HIDE DEF new
  <2> QED BY <1>1, <2>1, <2>4, <2>5, <2>6, <2>7, <2>8, <2>9, IdleIsFormed, WorkerWrites
<1> QED BY <1>5, <1>6

---------------------------------------------------------------------------
LEMMA TimesInvInitially ==
  ASSUME TimesInit
  PROVE  TimesInv
<1>1. PICK p \in Parts : part = p.part /\ flight = p.flight
  BY DEF TimesInit
<1>2. /\ part \in RowType /\ (\A s \in Side : Matches(part[s]))
      /\ flight \in FlightType \cup {Blank}
  BY <1>1, PartsAssumption DEF RowType
<1>3. /\ job = [w \in Worker |-> Idle] /\ fixes = Blank /\ lost = {}
      /\ disturbed = [w \in Worker |-> {}]
      /\ said = [s \in Side |-> [wall |-> part[s].src # "unknown", time |-> Shown(part[s])]]
  BY DEF TimesInit
<1>4. Idle.fd = Blank /\ Idle.pc = "idle" /\ Idle \in JobType
  BY IdleIsFormed DEF Idle, Formed
<1>5. JobsOK
  BY <1>3, <1>4, IdleIsFormed DEF JobsOK
<1>6. HeldOK
  BY <1>3, IdleIsFresh DEF HeldOK
<1>7. SaidOK
  <2> SUFFICES ASSUME NEW s \in Side
               PROVE  Right(said[s], part[s])
    BY DEF SaidOK
  <2>1. said[s] = [wall |-> part[s].src # "unknown", time |-> Shown(part[s])]
    BY <1>3
  <2>2. part[s].src = "unknown" => Shown(part[s]) = part[s].at
    BY <1>2 DEF Matches, Zoneless, Shown
  <2>3. said[s].wall = (part[s].src # "unknown") /\ said[s].time = Shown(part[s])
    BY <2>1
  <2>4. CASE part[s].src = "unknown"
    <3>1. said[s].wall = FALSE
      BY <2>3, <2>4
    <3> QED BY <3>1, <2>2, <2>3, <2>4 DEF Right
  <2>5. CASE part[s].src # "unknown"
    <3>1. said[s].wall = TRUE
      BY <2>3, <2>5
    <3> QED BY <3>1, <2>3, <2>5 DEF Right
  <2> QED BY <2>4, <2>5
<1> QED BY <1>2, <1>3, <1>5, <1>6, <1>7 DEF TimesInv, PartOK, FixesOK, DisturbedOK

LEMMA TimesInvKept ==
  ASSUME TimesInv, [TimesNext]_timesVars
  PROVE  TimesInv'
<1>1. CASE UNCHANGED timesVars
  BY <1>1 DEF timesVars, TimesInv, PartOK, FixesOK, JobsOK, DisturbedOK, HeldOK, SaidOK
<1>2. CASE TimesNext
  <2>1. ASSUME NEW w \in Editors, NEW in \in Edits, StartEdit(w, in) PROVE TimesInv'
    BY <2>1, StartEditHolds
  <2>2. ASSUME NEW w \in Editors, Locate(w) PROVE TimesInv'
    BY <2>2, LocateHolds
  <2>3. ASSUME NEW w \in Editors, pinZones(w) PROVE TimesInv'
    BY <2>3, pinZonesHolds
  <2>4. ASSUME NEW w \in Editors, ReadFlight(w) PROVE TimesInv'
    BY <2>4, ReadFlightHolds
  <2>5. ASSUME NEW w \in Editors, applyFlightEdit(w) PROVE TimesInv'
    BY <2>5, applyFlightEditHolds
  <2>6. ASSUME NEW w \in Editors, UpdateFlightPartRoute(w) PROVE TimesInv'
    BY <2>6, UpdateHolds
  <2>7. ASSUME NEW w \in Worker, ReadPart(w) \/ WritePart(w) \/ ReadBack(w) \/ SyncFlightSchedule(w) \/ Fails(w)
        PROVE  TimesInv'
    BY <2>7, ReadPartHolds, WritePartHolds, ReadBackHolds, SyncFlightScheduleHolds, FailsHolds
  <2>8. CASE StartGeocode \/ GeocodeEnds
    BY <2>8, StartGeocodeHolds, GeocodeEndsHolds
  <2>9. CASE PlanFixes \/ ApplyZoneFixes \/ MarkFlightPartResolved
    BY <2>9, PlanFixesHolds, ApplyZoneFixesHolds, MarkResolvedHolds
  <2>10. ASSUME NEW rf \in Answers, RefreshFlightPartSchedule(rf) \/ BackfillFlightPart(rf) PROVE TimesInv'
    BY <2>10, RefreshHolds, BackfillHolds
  <2> QED BY <1>2, <2>1, <2>2, <2>3, <2>4, <2>5, <2>6, <2>7, <2>8, <2>9, <2>10 DEF TimesNext
<1> QED BY <1>1, <1>2

LEMMA TimesInvAlways == TimesSpec => []TimesInv
<1>1. TimesInit => TimesInv
  BY TimesInvInitially
<1>2. TimesInv /\ [TimesNext]_timesVars => TimesInv'
  BY TimesInvKept
<1> QED BY <1>1, <1>2, PTL DEF TimesSpec

\* Whatever edits, geocodings, backfills and polls come together, a part stays a
\* row its table accepts: it has a start, and an end has a zone exactly when the
\* source of its zone says so (ResolveSource, migration 0055).
THEOREM PartsStayWellFormed == TimesSpec => []PartOK
<1>1. TimesInv => PartOK
  BY DEF TimesInv
<1> QED BY <1>1, TimesInvAlways, PTL

\* An end shows the reading, or is the instant, that was last said of it.
THEOREM TimesAreAsSaid == TimesSpec => []TimeIsAsSaid
<1>1. TimesInv => TimeIsAsSaid
  BY DEF TimesInv, SaidOK, Right, TimeIsAsSaid
<1> QED BY <1>1, TimesInvAlways, PTL

\* A pinned place with coordinates moves only by the step of a request that
\* names another place or unpins it, or of a writer that had read the end before
\* it was pinned.
THEOREM PinnedPlacesHold == TimesSpec => PinsHold
<1> DEFINE Holds1 ==
      \A s \in Side :
        part[s].pinned /\ part[s].place \notin {Blank, part'[s].place} =>
          \E w \in Worker : job'[w] # job[w] /\
            \/ job[w].pc = "update"
            \/ job[w].pc = "write" /\ s \in disturbed[w]
            \/ job[w].pc = "write" /\ job[w].in # Blank /\ job[w].in.coords[s] # Blank
            \/ job[w].pc = "write" /\ job[w].in # Blank /\ job[w].in.pin[s] = FALSE
<1>1. ASSUME TimesInv, TimesNext
      PROVE  Holds1
  <2> SUFFICES ASSUME NEW s \in Side, part[s].pinned, part[s].place \notin {Blank, part'[s].place}
               PROVE  \E w \in Worker : job'[w] # job[w] /\
                        \/ job[w].pc = "update"
                        \/ job[w].pc = "write" /\ s \in disturbed[w]
                        \/ job[w].pc = "write" /\ job[w].in # Blank /\ job[w].in.coords[s] # Blank
                        \/ job[w].pc = "write" /\ job[w].in # Blank /\ job[w].in.pin[s] = FALSE
    OBVIOUS
  <2>0. part \in RowType /\ part[s] \in EndType /\ part'[s] # part[s] /\ ~UNCHANGED part
    BY <1>1 DEF TimesInv, PartOK, RowType
  <2>1. ASSUME NEW w \in Editors, UpdateFlightPartRoute(w)
        PROVE  w \in Worker /\ job[w].pc = "update" /\ job'[w] # job[w]
    <3>1. w \in Worker /\ job[w].pc = "update" /\ Step(w, Idle)
      BY <2>1 DEF UpdateFlightPartRoute, Worker, Ends
    <3>2. job'[w] = Idle
      BY <3>1, <1>1 DEF Step, TimesInv, JobsOK
    <3> QED BY <3>1, <3>2 DEF Idle
  <2>2. ASSUME NEW w \in Worker, WritePart(w)
        PROVE  /\ job[w].pc = "write" /\ job'[w] # job[w]
               /\ \/ s \in disturbed[w]
                  \/ job[w].in # Blank /\ (job[w].in.coords[s] # Blank \/ job[w].in.pin[s] = FALSE)
    <3> DEFINE j == job[w]
    <3>1. j.pc = "write" /\ part' = Apply(part, j.pl) /\ j \in JobType
      BY <1>1, <2>2, <2>0 DEF WritePart, Rows, TimesInv, JobsOK
    <3>2. part'[s] = ApplyEnd(part[s], j.pl[s])
      <4>1. j.pl \in [Side -> ChangeType]
        BY <3>1 DEF JobType
      <4> HIDE DEF j
      <4> QED BY <3>1, <4>1, <2>0, ApplyRow
    <3>3. j.pl[s].place # Keep
      <4>1. part'[s].place = Or(j.pl[s].place, part[s].place)
        BY <3>2, ApplyReads
      <4> QED BY <4>1 DEF Or
    <3>4. s \notin disturbed[w] => Placed(j, s, part[s])
      BY <1>1, <3>1 DEF TimesInv, HeldOK, Fresh, Holds
    <3>5. job'[w] # j
      <4> DEFINE rec == [j EXCEPT !.pc = "reread", !.seen = Blank]
      <4>1. Step(w, rec) \/ Step(w, Idle)
        BY <2>2, <2>0 DEF WritePart, Rows
      <4>2. rec.pc = "reread" /\ Idle.pc = "idle"
        BY <3>1 DEF JobType, Idle
      <4> HIDE DEF rec
      <4>3. job'[w] = rec \/ job'[w] = Idle
        BY <4>1, <1>1 DEF Step, TimesInv, JobsOK
      <4> QED BY <4>2, <4>3, <3>1
    <3> QED BY <3>1, <3>3, <3>4, <3>5 DEF Placed
  <2>3. ASSUME NEW rf \in Answers, RefreshFlightPartSchedule(rf)
        PROVE  part'[s].place = part[s].place
    <3> DEFINE at == rf.time[s]
               src == IF part[s].tz = Blank THEN "unknown" ELSE part[s].src
    <3>1. part'[s] = [part[s] EXCEPT !.at = at, !.src = src]
      BY <2>3 DEF RefreshFlightPartSchedule
    <3> HIDE DEF at, src
    <3> QED BY <3>1, <2>0 DEF EndType
  <2>4. ASSUME NEW rf \in Answers, BackfillFlightPart(rf)
        PROVE  part'[s].place = part[s].place
    <3>1. part'[s] = [part[s] EXCEPT !.place = part[s].place]
      BY <2>4 DEF BackfillFlightPart
    <3> QED BY <3>1, <2>0 DEF EndType
  <2>5. ASSUME ApplyZoneFixes
        PROVE  part'[s].place = part[s].place
    <3> DEFINE at == fixes[s].at
               tz == fixes[s].tz
               src == fixes[s].src
    <3>1. part'[s] = part[s] \/ part'[s] = [part[s] EXCEPT !.at = at, !.tz = tz, !.src = src]
      BY <2>5 DEF ApplyZoneFixes
    <3> HIDE DEF at, tz, src
    <3> QED BY <3>1, <2>0 DEF EndType
  <2>6. \A w \in Worker : ~ReadPart(w) /\ ~ReadBack(w) /\ ~SyncFlightSchedule(w) /\ ~Fails(w)
    BY <2>0 DEF ReadPart, ReadBack, SyncFlightSchedule, Fails, Rows
  <2>7. \A w \in Editors : ~Locate(w) /\ ~pinZones(w) /\ ~ReadFlight(w) /\ ~applyFlightEdit(w)
                           /\ \A in \in Edits : ~StartEdit(w, in)
    BY <2>0 DEF Locate, pinZones, ReadFlight, applyFlightEdit, StartEdit, Rows
  <2>8. ~StartGeocode /\ ~GeocodeEnds /\ ~PlanFixes /\ ~MarkFlightPartResolved
    BY <2>0 DEF StartGeocode, GeocodeEnds, PlanFixes, MarkFlightPartResolved, Rows
  <2>9. \/ \E w \in Editors : UpdateFlightPartRoute(w)
        \/ \E w \in Worker : WritePart(w)
    BY <1>1, <2>3, <2>4, <2>5, <2>6, <2>7, <2>8 DEF TimesNext
  <2> QED BY <2>1, <2>2, <2>9
<1>2. ASSUME UNCHANGED timesVars
      PROVE  Holds1
  BY <1>2 DEF timesVars
<1>3. TimesInv /\ [TimesNext]_timesVars => [Holds1]_timesVars
  BY <1>1, <1>2
<1> QED BY <1>3, TimesInvAlways, PTL DEF TimesSpec, PinsHold

---------------------------------------------------------------------------
\* The schedule of a flight.  While nothing has strayed it is the part's own, or
\* some request is still on its way to make it so.
Owes(j) == (j.pc \in {"reread", "flight", "sync"} /\ j.timed # {}) \/ j.stage = "anchor"
KnowsFlight(j) == j.stage = "geocode" /\ j.pc \in {"read", "write"} /\ j.fd = Blank => flight = Blank
Follows == flight.time = Schedule(part, flight)
Linked ==
  /\ \A w \in Worker : KnowsFlight(job[w])
  /\ flight # Blank /\ strayed = {} => Follows \/ \E w \in Worker : Owes(job[w])

LEMMA ScheduleReads ==
  ASSUME NEW row, NEW other, \A s \in Side : row[s].at = other[s].at,
         NEW fd, NEW held, fd.time = held.time
  PROVE  Schedule(row, fd) = Schedule(other, held)
<1>1. row["start"].at = other["start"].at /\ row["end"].at = other["end"].at
  BY DEF Side
<1> QED BY <1>1 DEF Schedule

\* Writing the schedule a part asks for leaves nothing to write.
LEMMA ScheduleSettles ==
  ASSUME NEW row \in RowType, NEW fd \in FlightType, NEW next, next.time = Schedule(row, fd)
  PROVE  Schedule(row, next) = Schedule(row, fd)
<1> DEFINE a == row["start"].at
           b == row["end"].at
           x == fd.time["start"]
           y == fd.time["end"]
<1>1. a \in Int /\ b \in Int \cup {Blank} /\ x \in Int /\ y \in Int
  BY DEF RowType, EndType, FlightType, Side
<1>2. next.time["start"] = a /\ next.time["end"] = IF b # Blank /\ b >= a THEN b ELSE a + y - x
  BY DEF Schedule, Side
<1>3. ~(b # Blank /\ b >= a) => a + next.time["end"] - next.time["start"] = a + y - x
  <2>1. a + (a + y - x) - a = a + y - x
    BY <1>1
  <2> HIDE DEF a, b, x, y
  <2> QED BY <1>2, <2>1
<1>4. \A s \in Side : Schedule(row, next)[s] = Schedule(row, fd)[s]
  BY <1>3 DEF Schedule
<1> QED BY <1>4 DEF Schedule

LEMMA FlightStaysUnknown ==
  ASSUME TimesInv, TimesNext, flight = Blank
  PROVE  flight' = Blank
<1>1. ASSUME NEW w \in Worker, SyncFlightSchedule(w)
      PROVE  FALSE
  <2>1. Formed(job[w]) /\ job[w].pc = "sync"
    BY <1>1 DEF TimesInv, JobsOK, SyncFlightSchedule
  <2>2. job[w].fd \in FlightType
    BY <2>1 DEF Formed
  <2>3. job[w].fd # Blank
    BY <2>2, TimesAssumption
  <2> QED BY <2>3 DEF TimesInv, JobsOK
<1>2. ASSUME NEW w \in Editors, UpdateFlightPartRoute(w)
      PROVE  FALSE
  BY <1>2 DEF TimesInv, JobsOK, UpdateFlightPartRoute, Worker
<1>3. \A w \in Worker : ReadPart(w) \/ WritePart(w) \/ ReadBack(w) \/ Fails(w) => flight' = Blank
  BY DEF ReadPart, WritePart, ReadBack, Fails, Rows
<1>4. \A w \in Editors :
        Locate(w) \/ pinZones(w) \/ ReadFlight(w) \/ applyFlightEdit(w) \/ (\E in \in Edits : StartEdit(w, in))
          => flight' = Blank
  BY DEF Locate, pinZones, ReadFlight, applyFlightEdit, StartEdit, Rows
<1>5. StartGeocode \/ GeocodeEnds \/ PlanFixes \/ ApplyZoneFixes => flight' = Blank
  BY DEF StartGeocode, GeocodeEnds, PlanFixes, ApplyZoneFixes, Rows
<1>6. ~MarkFlightPartResolved /\ \A rf \in Answers : ~RefreshFlightPartSchedule(rf) /\ ~BackfillFlightPart(rf)
  BY DEF MarkFlightPartResolved, RefreshFlightPartSchedule, BackfillFlightPart, Poll
<1> QED BY <1>1, <1>2, <1>3, <1>4, <1>5, <1>6 DEF TimesNext

LEMMA StepIs ==
  ASSUME TimesInv, NEW w \in Worker, NEW rec, Step(w, rec)
  PROVE  job'[w] = rec /\ \A v \in Worker : v # w => job'[v] = job[v]
BY DEF Step, TimesInv, JobsOK

LEMMA WorkerKnows ==
  ASSUME TimesInv, Linked, flight = Blank => flight' = Blank, NEW w \in Worker, NEW rec,
         Step(w, rec), KnowsFlight(rec)
  PROVE  \A v \in Worker : KnowsFlight(job[v])'
<1>1. job'[w] = rec /\ \A v \in Worker : v # w => job'[v] = job[v]
  BY StepIs
<1>2. \A v \in Worker : KnowsFlight(job'[v])
  BY <1>1 DEF Linked
<1> QED BY <1>2 DEF KnowsFlight

LEMMA OthersKnow ==
  ASSUME Linked, flight = Blank => flight' = Blank, UNCHANGED job
  PROVE  \A v \in Worker : KnowsFlight(job[v])'
BY DEF Linked, KnowsFlight

\* Nobody who owed is let off and no time moves.
LEMMA TimesStand ==
  ASSUME Linked, \A v \in Worker : KnowsFlight(job[v])', strayed' = {} => strayed = {},
         flight' # Blank => flight # Blank /\ flight'.time = flight.time,
         \A s \in Side : part'[s].at = part[s].at,
         \A v \in Worker : Owes(job[v]) => Owes(job'[v])
  PROVE  Linked'
<1> SUFFICES ASSUME flight' # Blank, strayed' = {}
             PROVE  Follows' \/ \E v \in Worker : Owes(job[v])'
  BY DEF Linked
<1>1. Follows \/ \E v \in Worker : Owes(job[v])
  BY DEF Linked
<1>2. CASE Follows
  <2>1. Schedule(part', flight') = Schedule(part, flight)
    BY ScheduleReads
  <2> QED BY <1>2, <2>1 DEF Follows
<1>3. CASE \E v \in Worker : Owes(job[v])
  BY <1>3 DEF Owes
<1> QED BY <1>1, <1>2, <1>3

\* One worker steps and what it owed it owes.
LEMMA OneStands ==
  ASSUME TimesInv, Linked, NEW w \in Worker, NEW rec, Step(w, rec),
         \A v \in Worker : KnowsFlight(job[v])', strayed' = {} => strayed = {},
         flight' # Blank => flight # Blank /\ flight'.time = flight.time,
         \A s \in Side : part'[s].at = part[s].at,
         Owes(job[w]) => Owes(rec)
  PROVE  Linked'
<1>1. job'[w] = rec /\ \A v \in Worker : v # w => job'[v] = job[v]
  BY StepIs
<1>2. \A v \in Worker : Owes(job[v]) => Owes(job'[v])
  BY <1>1
<1> QED BY <1>2, TimesStand

LEMMA OneOwes ==
  ASSUME TimesInv, NEW w \in Worker, NEW rec, Step(w, rec),
         \A v \in Worker : KnowsFlight(job[v])', Owes(rec)
  PROVE  Linked'
<1>1. Owes(job'[w])
  BY StepIs
<1> QED BY <1>1 DEF Linked, Owes

LEMMA Settled ==
  ASSUME \A v \in Worker : KnowsFlight(job[v])', strayed' = {} => Follows'
  PROVE  Linked'
BY DEF Linked

\* A worker that owes nothing takes on nothing, and the rows stay.
LEMMA QuietLinked ==
  ASSUME TimesInv, Linked, UNCHANGED <<part, flight, strayed>>, NEW w \in Worker,
         NEW rec, Step(w, rec), KnowsFlight(rec), Owes(job[w]) => Owes(rec)
  PROVE  Linked'
<1>1. \A v \in Worker : KnowsFlight(job[v])'
  BY WorkerKnows
<1> QED BY <1>1, OneStands

LEMMA IdleKnows == KnowsFlight(Idle) /\ ~Owes(Idle)
BY DEF KnowsFlight, Owes, Idle

\* Which workers owe nothing.
LEMMA OwesNothing ==
  ASSUME TimesInv, NEW w \in Worker
  PROVE  /\ Formed(job[w]) /\ job[w] \in JobType
         /\ Owes(job[w]) => job[w].pc \in {"reread", "flight", "sync", "read", "write"}
BY DEF TimesInv, JobsOK, Formed, Owes

LEMMA EditStepsLink ==
  ASSUME TimesInv, Linked, NEW w \in Editors,
         Locate(w) \/ pinZones(w) \/ applyFlightEdit(w) \/ \E in \in Edits : StartEdit(w, in)
  PROVE  Linked'
<1> DEFINE j == job[w]
<1>1. w \in Worker /\ Formed(j) /\ j \in JobType
  BY OwesNothing DEF Worker
<1>2. UNCHANGED <<part, flight, strayed>>
  BY DEF Locate, pinZones, applyFlightEdit, StartEdit, Rows
<1>3. j.pc \in {"idle", "locate", "pin", "route"} /\ ~Owes(j)
  <2>1. j.pc \in {"idle", "locate", "pin", "route"}
    BY DEF Locate, pinZones, applyFlightEdit, StartEdit
  <2> QED BY <2>1, <1>1, OwesNothing
<1>4. \E rec : Step(w, rec) /\ KnowsFlight(rec)
  <2>1. ASSUME NEW in \in Edits, StartEdit(w, in)
        PROVE  \E rec : Step(w, rec) /\ KnowsFlight(rec)
    <3> DEFINE rec == [Idle EXCEPT !.pc = "locate", !.in = in, !.timed = Timed(in),
                           !.pl = [s \in Side |-> Change0(in, s)]]
    <3>1. Step(w, rec) /\ rec.stage = "edit"
      BY <2>1 DEF StartEdit, Idle
    <3>2. KnowsFlight(rec)
      BY <3>1 DEF KnowsFlight
    <3> QED BY <3>1, <3>2
  <2>2. CASE Locate(w)
    <3>1. PICK found \in [{s \in Side : LooksUp(j.in, s)} -> Finds \cup {Keep}] :
            Step(w, [j EXCEPT !.pc = "pin",
                       !.pl = [s \in Side |-> IF s \in DOMAIN found
                                              THEN [@[s] EXCEPT !.place = found[s]] ELSE @[s]]])
      BY <2>2 DEF Locate
    <3> DEFINE rec == [j EXCEPT !.pc = "pin",
                         !.pl = [s \in Side |-> IF s \in DOMAIN found
                                                THEN [@[s] EXCEPT !.place = found[s]] ELSE @[s]]]
    <3>2. rec.pc = "pin"
      BY <1>1 DEF JobType
    <3>3. KnowsFlight(rec)
      BY <3>2 DEF KnowsFlight
    <3> QED BY <3>1, <3>3
  <2>3. CASE pinZones(w)
    <3> DEFINE n == [j EXCEPT !.pl = [s \in Side |-> Rezoned(j.in, @, s)]]
    <3>1. Step(w, Writes(n)) /\ j.pc = "pin"
      BY <2>3 DEF pinZones
    <3>2. n.stage = "edit" /\ \E pc \in {"read", "write"} : Writes(n) = [n EXCEPT !.pc = pc]
      <4>1. n.stage = "edit"
        BY <1>1, <3>1 DEF JobType, Formed
      <4> HIDE DEF n
      <4> QED BY <4>1 DEF Writes
    <3>3. DOMAIN n = DOMAIN j /\ "stage" \in DOMAIN j
      BY <1>1 DEF JobType
    <3> HIDE DEF n
    <3>4. Writes(n).stage = "edit"
      BY <3>2, <3>3
    <3>5. KnowsFlight(Writes(n))
      BY <3>4 DEF KnowsFlight
    <3> QED BY <3>1, <3>5
  <2>4. CASE applyFlightEdit(w)
    <3> DEFINE to(up, resolved) == [j EXCEPT !.pc = "update", !.route = [to |-> up, resolved |-> resolved]]
    <3>1. Step(w, Idle) \/ \E up, resolved : Step(w, to(up, resolved))
      <4> HIDE DEF to
      <4>1. \/ Ends(w)
            \/ \E rf \in Answers : Step(w, to(RouteUpdateFromResolved(rf), TRUE))
            \/ Step(w, to(KeepRoute, FALSE))
            \/ Step(w, to(manualRouteUpdate(flight, j.seen, j.in), Keep))
        BY <2>4 DEF applyFlightEdit, to
      <4> QED BY <4>1 DEF Ends
    <3>2. CASE Step(w, Idle)
      BY <3>2, IdleKnows
    <3>3. ASSUME NEW up, NEW resolved, Step(w, to(up, resolved))
          PROVE  \E rec : Step(w, rec) /\ KnowsFlight(rec)
      <4>1. to(up, resolved).pc = "update"
        BY <1>1 DEF JobType
      <4>2. KnowsFlight(to(up, resolved))
        BY <4>1 DEF KnowsFlight
      <4> QED BY <3>3, <4>2
    <3> QED BY <3>1, <3>2, <3>3
  <2> QED BY <2>1, <2>2, <2>3, <2>4
<1> QED BY <1>1, <1>2, <1>3, <1>4, QuietLinked

\* A request that goes on to its route, or ends, knows what it must.
LEMMA ProceedsKnows ==
  ASSUME TimesInv, Linked, flight = Blank => flight' = Blank, NEW w \in Worker, Proceeds(w)
  PROVE  \A v \in Worker : KnowsFlight(job[v])'
<1> DEFINE route == [job[w] EXCEPT !.pc = "route", !.stage = "edit"]
<1>1. Step(w, Idle) \/ Step(w, route)
  BY DEF Proceeds, Ends
<1>2. route.pc = "route"
  BY OwesNothing DEF JobType
<1>3. KnowsFlight(route)
  BY <1>2 DEF KnowsFlight
<1> QED BY <1>1, <1>3, IdleKnows, WorkerKnows

LEMMA ReadFlightLinks ==
  ASSUME TimesInv, Linked, flight = Blank => flight' = Blank, NEW w \in Editors, ReadFlight(w)
  PROVE  Linked'
<1> DEFINE j == job[w]
           pl == anchorFloatingFlightPart(flight, j)
           sync == [j EXCEPT !.pc = "sync", !.fd = flight]
           n == [j EXCEPT !.stage = "anchor", !.fd = flight, !.pl = pl]
<1>1. w \in Worker /\ j \in JobType /\ UNCHANGED <<part, flight>>
  BY OwesNothing DEF Worker, ReadFlight
<1>2. \/ Proceeds(w) /\ "tracked" \in strayed'
      \/ UNCHANGED strayed /\ Step(w, sync)
      \/ UNCHANGED strayed /\ Step(w, Writes(n))
  BY DEF ReadFlight
<1>3. /\ sync.pc = "sync" /\ sync.timed = j.timed /\ sync.stage = j.stage
      /\ n.stage = "anchor" /\ DOMAIN n = DOMAIN j /\ "stage" \in DOMAIN j
  BY <1>1 DEF JobType
<1>4. Writes(n).stage = "anchor"
  <2> HIDE DEF n
  <2>1. \E pc \in {"read", "write"} : Writes(n) = [n EXCEPT !.pc = pc]
    BY DEF Writes
  <2> QED BY <1>3, <2>1
<1>5. CASE Proceeds(w) /\ "tracked" \in strayed'
  BY <1>1, <1>5, ProceedsKnows, Settled
<1>6. CASE UNCHANGED strayed /\ Step(w, sync)
  <2>1. KnowsFlight(sync) /\ (Owes(j) => Owes(sync))
    <3> HIDE DEF sync, j
    <3> QED BY <1>3 DEF KnowsFlight, Owes
  <2> QED BY <1>1, <1>6, <2>1, QuietLinked
<1>7. CASE UNCHANGED strayed /\ Step(w, Writes(n))
  <2>1. KnowsFlight(Writes(n)) /\ Owes(Writes(n))
    <3> HIDE DEF n
    <3> QED BY <1>4 DEF KnowsFlight, Owes
  <2> QED BY <1>1, <1>7, <2>1, QuietLinked
<1> QED BY <1>2, <1>5, <1>6, <1>7

\* Nothing is refused that anchors the ends of a flight.
LEMMA AnchorsMatch ==
  ASSUME NEW c \in ChangeType, AnchorsEnd(c), NEW e \in EndType, Matches(e)
  PROVE  /\ anchorFloating(c, e) = c
         /\ ResolveSource(c, e)
         /\ Matches(ApplyEnd(e, c))
<1>1. CASE c = Nothing
  <2>1. c.at = Keep /\ c.tz = Keep /\ c.src = Keep
    BY <1>1 DEF Nothing
  <2>2. ApplyEnd(e, c).tz = e.tz /\ ApplyEnd(e, c).src = e.src
    BY <2>1, ApplyReads DEF Or
  <2> QED BY <2>1, <2>2 DEF anchorFloating, ResolveSource, TouchesZone, Matches
<1>2. CASE c # Nothing
  <2>1. c.at \in Int /\ c.tz \in Zone /\ c.src = "confirmed"
    BY <1>2 DEF AnchorsEnd
  <2>2. c.at # Keep /\ c.tz # Keep /\ c.src # Keep /\ c.tz # Blank
    BY <2>1, TimesAssumption DEF Source, Zoneless
  <2>3. ApplyEnd(e, c).tz = c.tz /\ ApplyEnd(e, c).src = "confirmed"
    BY <2>1, <2>2, ApplyReads DEF Or
  <2> QED BY <2>2, <2>3 DEF anchorFloating, ResolveSource, Matches, Zoneless
<1> QED BY <1>1, <1>2

LEMMA ReadPartLinks ==
  ASSUME TimesInv, Linked, NEW w \in Worker, ReadPart(w)
  PROVE  Linked'
<1> DEFINE j == job[w]
           pl == [s \in Side |-> anchorFloating(j.pl[s], part[s])]
           rec == [j EXCEPT !.pc = "write", !.pl = pl]
<1>1. j.pc = "read" /\ UNCHANGED <<part, flight, strayed>>
  BY DEF ReadPart, Rows
<1>2. Formed(j) /\ j \in JobType /\ PartOK
  BY OwesNothing DEF TimesInv
<1>3. rec.stage = j.stage /\ rec.fd = j.fd
  BY <1>2 DEF JobType
<1>4. CASE Step(w, rec)
  <2>1. KnowsFlight(j)
    BY DEF Linked
  <2>2. KnowsFlight(rec) /\ (Owes(j) => Owes(rec))
    <3> HIDE DEF rec, j
    <3> QED BY <2>1, <1>1, <1>3 DEF KnowsFlight, Owes
  <2> QED BY <1>1, <1>4, <2>2, QuietLinked
<1>5. CASE ~Step(w, rec)
  <2>1. Ends(w) /\ ~(\A s \in Side : ResolveSource(pl[s], part[s]))
    BY <1>5 DEF ReadPart
  <2>2. j.stage # "anchor"
    <3> SUFFICES ASSUME j.stage = "anchor"
                 PROVE  FALSE
      OBVIOUS
    <3>1. \A s \in Side : AnchorsEnd(j.pl[s]) /\ j.pl[s] \in ChangeType /\ part[s] \in EndType /\ Matches(part[s])
      BY <1>1, <1>2 DEF Formed, Holds, AnchorsFlight, JobType, PartOK, RowType
    <3>2. \A s \in Side : pl[s] = j.pl[s] /\ ResolveSource(j.pl[s], part[s])
      BY <3>1, AnchorsMatch
    <3> QED BY <2>1, <3>2
  <2>3. ~Owes(j)
    BY <1>1, <2>2 DEF Owes
  <2> QED BY <1>1, <2>1, <2>3, IdleKnows, QuietLinked DEF Ends
<1> QED BY <1>4, <1>5

LEMMA WritePartLinks ==
  ASSUME TimesInv, Linked, flight = Blank => flight' = Blank, NEW w \in Worker, WritePart(w)
  PROVE  Linked'
<1> DEFINE j == job[w]
           new == Apply(part, j.pl)
           rec == [j EXCEPT !.pc = "reread", !.seen = Blank]
<1>1. j.pc = "write" /\ Formed(j) /\ j \in JobType /\ PartOK /\ KnowsFlight(j) /\ UNCHANGED flight
  BY OwesNothing DEF TimesInv, WritePart, Rows, Linked
<1>2. /\ j.pl \in [Side -> ChangeType] /\ part \in RowType
      /\ \A s \in Side : new[s] = ApplyEnd(part[s], j.pl[s])
  BY <1>1, ApplyRow DEF JobType, PartOK
<1>3. CASE ~(\A s \in Side : Matches(new[s]))
  <2>1. Ends(w) /\ UNCHANGED <<part, flight, strayed>>
    BY <1>3 DEF WritePart, Rows
  <2>2. j.stage # "anchor"
    <3> SUFFICES ASSUME j.stage = "anchor"
                 PROVE  FALSE
      OBVIOUS
    <3>1. \A s \in Side : AnchorsEnd(j.pl[s]) /\ j.pl[s] \in ChangeType /\ part[s] \in EndType /\ Matches(part[s])
      BY <1>1 DEF Formed, Holds, AnchorsFlight, JobType, PartOK, RowType
    <3>2. \A s \in Side : Matches(ApplyEnd(part[s], j.pl[s]))
      BY <3>1, AnchorsMatch
    <3> QED BY <1>2, <1>3, <3>2
  <2>3. ~Owes(j)
    BY <1>1, <2>2 DEF Owes
  <2> QED BY <2>1, <2>3, IdleKnows, QuietLinked DEF Ends
<1>4. CASE \A s \in Side : Matches(new[s])
  <2> DEFINE away == j.timed = {}
             moved == flight # Blank /\ MovesTime(new)
             tracked == flight.resolved \/ (j.fd # Blank /\ j.fd.resolved)
             next == IF ReadsBack(j) THEN rec ELSE Idle
  <2>1. part' = new /\ Step(w, next)
    BY <1>4 DEF WritePart
  <2>2. strayed' = IF moved /\ away THEN strayed \cup {"moved without a time"}
                   ELSE IF moved /\ tracked THEN strayed \cup {"tracked"} ELSE strayed
    BY <1>4 DEF WritePart
  <2>3. rec.pc = "reread" /\ rec.stage = j.stage /\ rec.timed = j.timed
    BY <1>1 DEF JobType
  <2>4. KnowsFlight(rec) /\ (j.timed # {} \/ j.stage = "anchor" => Owes(rec)) /\ (Owes(j) => Owes(rec))
    <3> HIDE DEF rec, j
    <3> QED BY <1>1, <2>3 DEF KnowsFlight, Owes
  <2>5. ~moved => flight = Blank \/ \A s \in Side : part'[s].at = part[s].at
    BY <2>1 DEF MovesTime
  <2>6. \A v \in Worker : KnowsFlight(job[v])'
    <3> HIDE DEF rec
    <3> QED BY <2>1, <2>4, IdleKnows, WorkerKnows
  <2>7. CASE Owes(j) \/ (moved /\ ~away /\ ~tracked)
    <3>1. ReadsBack(j)
      <4>1. CASE j.stage = "anchor"
        BY <4>1 DEF ReadsBack
      <4>2. CASE j.stage = "geocode"
        <5>1. moved /\ ~away /\ ~tracked
          BY <1>1, <2>7, <4>2 DEF Owes
        <5>2. j.fd # Blank
          BY <1>1, <4>2, <5>1 DEF KnowsFlight
        <5> QED BY <4>2, <5>1, <5>2 DEF ReadsBack
      <4>3. CASE j.stage = "edit"
        <5>1. moved /\ ~away /\ ~tracked
          BY <1>1, <2>7, <4>3 DEF Owes
        <5> QED BY <4>3, <5>1 DEF ReadsBack
      <4> QED BY <1>1, <4>1, <4>2, <4>3 DEF JobType
    <3>2. Owes(rec)
      <4>1. Owes(j) => j.stage = "anchor"
        BY <1>1 DEF Owes
      <4> HIDE DEF rec
      <4> QED BY <2>4, <2>7, <4>1
    <3> HIDE DEF rec, j
    <3> QED BY <2>1, <2>6, <3>1, <3>2, OneOwes
  <2>8. CASE ~Owes(j) /\ moved /\ (away \/ tracked)
    <3>1. strayed' # {}
      BY <2>2, <2>8
    <3> QED BY <3>1, <2>6, Settled
  <2>9. CASE ~Owes(j) /\ ~moved
    <3>1. strayed' = strayed
      BY <2>2, <2>9
    <3>2. CASE flight = Blank
      BY <3>2, <1>1, <2>6 DEF Linked
    <3>3. CASE \A s \in Side : part'[s].at = part[s].at
      <4> HIDE DEF next, new, j
      <4>1. Step(w, next) /\ (Owes(job[w]) => Owes(next))
        BY <2>1, <2>9 DEF j
      <4>2. UNCHANGED flight
        BY <1>1
      <4> QED BY <3>1, <3>3, <4>1, <4>2, <2>6, OneStands
    <3> QED BY <2>5, <2>9, <3>2, <3>3
  <2> QED BY <2>7, <2>8, <2>9
<1> QED BY <1>3, <1>4

LEMMA ReadBackLinks ==
  ASSUME TimesInv, Linked, NEW w \in Worker, ReadBack(w)
  PROVE  Linked'
<1> DEFINE j == job[w]
           pc == IF j.stage # "edit" THEN "sync" ELSE IF j.timed # {} THEN "flight" ELSE "route"
           rec == [j EXCEPT !.seen = part, !.pc = pc]
<1>1. UNCHANGED <<part, flight, strayed>> /\ Step(w, rec) /\ j \in JobType
  BY OwesNothing DEF ReadBack, Rows
<1>2. rec.pc = pc /\ rec.stage = j.stage /\ rec.timed = j.timed
  <2> HIDE DEF pc
  <2> QED BY <1>1 DEF JobType
<1>3. pc \in {"sync", "flight", "route"} /\ (j.timed # {} => pc \in {"sync", "flight"})
  OBVIOUS
<1>4. KnowsFlight(rec) /\ (Owes(j) => Owes(rec))
  <2> HIDE DEF rec, pc, j
  <2> QED BY <1>2, <1>3 DEF KnowsFlight, Owes
<1> QED BY <1>1, <1>4, QuietLinked

LEMMA SyncLinks ==
  ASSUME TimesInv, Linked, flight = Blank => flight' = Blank, NEW w \in Worker, SyncFlightSchedule(w)
  PROVE  Linked'
<1> DEFINE j == job[w]
           new == Schedule(j.seen, j.fd)
<1>1. j.pc = "sync" /\ Formed(j) /\ j \in JobType /\ PartOK /\ UNCHANGED part
  BY OwesNothing DEF TimesInv, SyncFlightSchedule
<1>2. j.fd \in FlightType /\ flight # Blank /\ flight \in FlightType
  <2>1. j.fd \in FlightType
    BY <1>1 DEF Formed
  <2>2. flight # Blank
    BY <2>1, TimesAssumption DEF TimesInv, JobsOK
  <2> QED BY <1>1, <2>1, <2>2 DEF PartOK
<1>3. \A v \in Worker : KnowsFlight(job[v])'
  BY ProceedsKnows DEF SyncFlightSchedule
<1>4. ASSUME strayed' = {}
      PROVE  Follows'
  <2>1. ~flight.resolved /\ j.fd.time = flight.time /\ j.seen = part
    BY <1>4 DEF SyncFlightSchedule
  <2>2. flight' = IF Moves(new, j.fd.time) /\ ~flight.resolved THEN [flight EXCEPT !.time = new] ELSE flight
    BY DEF SyncFlightSchedule
  <2>3. [flight EXCEPT !.time = new].time = new
    BY <1>2 DEF FlightType
  <2>4. flight'.time = new
    BY <2>1, <2>2, <2>3 DEF Moves
  <2>5. Schedule(part, flight') = new
    BY <1>1, <1>2, <2>1, <2>4, ScheduleSettles DEF PartOK
  <2> QED BY <1>1, <2>4, <2>5 DEF Follows
<1> QED BY <1>3, <1>4, Settled

LEMMA FailsLinks ==
  ASSUME TimesInv, Linked, NEW w \in Worker, Fails(w)
  PROVE  Linked'
<1>1. UNCHANGED <<part, flight>> /\ Step(w, Idle)
  BY DEF Fails, Ends
<1>2. \A v \in Worker : KnowsFlight(job[v])'
  BY <1>1, IdleKnows, WorkerKnows
<1>3. CASE Owes(job[w])
  <2>1. strayed' # {}
    BY <1>3 DEF Fails, Owes
  <2> QED BY <1>2, <2>1, Settled
<1>4. CASE ~Owes(job[w])
  <2>1. strayed' = strayed
    BY <1>4 DEF Fails, Owes
  <2> QED BY <1>1, <1>2, <1>4, <2>1, OneStands
<1> QED BY <1>3, <1>4

LEMMA GeocodeLinks ==
  ASSUME TimesInv, Linked, StartGeocode \/ GeocodeEnds
  PROVE  Linked'
<1> DEFINE w == Geocoder
           j == job[w]
<1>1. w \in Worker /\ UNCHANGED <<part, flight, strayed>> /\ Formed(j) /\ j \in JobType
  BY OwesNothing DEF Worker, StartGeocode, GeocodeEnds, Rows
<1>2. ~Owes(j)
  BY <1>1, OwesNothing DEF StartGeocode, GeocodeEnds, Formed, Owes
<1>3. CASE StartGeocode
  <2> DEFINE rec == [Idle EXCEPT !.pc = "lookup", !.stage = "geocode", !.seen = part]
  <2>1. Step(w, rec) /\ rec.pc = "lookup"
    BY <1>3 DEF StartGeocode, Idle
  <2>2. KnowsFlight(rec)
    BY <2>1 DEF KnowsFlight
  <2> QED BY <1>1, <1>2, <2>1, <2>2, QuietLinked
<1>4. CASE GeocodeEnds
  <2>1. Step(w, Idle) \/ \E pl, timed : Step(w, Writes([j EXCEPT !.pl = pl, !.fd = flight, !.timed = timed]))
    BY <1>4 DEF GeocodeEnds, Ends
  <2>2. ASSUME NEW pl, NEW timed, Step(w, Writes([j EXCEPT !.pl = pl, !.fd = flight, !.timed = timed]))
        PROVE  Linked'
    <3> DEFINE n == [j EXCEPT !.pl = pl, !.fd = flight, !.timed = timed]
    <3>1. n.fd = flight /\ DOMAIN n = DOMAIN j /\ "fd" \in DOMAIN j
      BY <1>1 DEF JobType
    <3> HIDE DEF n
    <3>2. Writes(n).fd = flight
      <4>1. \E pc \in {"read", "write"} : Writes(n) = [n EXCEPT !.pc = pc]
        BY DEF Writes
      <4> QED BY <3>1, <4>1
    <3>3. KnowsFlight(Writes(n))
      BY <3>2 DEF KnowsFlight
    <3> QED BY <1>1, <1>2, <2>2, <3>3, QuietLinked DEF n
  <2> QED BY <1>1, <1>2, <2>1, <2>2, IdleKnows, QuietLinked
<1> QED BY <1>3, <1>4

LEMMA UpdateLinks ==
  ASSUME TimesInv, Linked, flight = Blank => flight' = Blank, NEW w \in Editors, UpdateFlightPartRoute(w)
  PROVE  Linked'
<1> DEFINE j == job[w]
           up == j.route.to
           c0(s) == [Nothing EXCEPT !.at = up[s].at, !.tz = up[s].tz, !.src = up[s].src, !.place = up[s].place]
           pl == [s \in Side |-> anchorFloating(c0(s), part[s])]
           new == Apply(part, pl)
           times == [s \in Side |-> Or(up[s].time, flight.time[s])]
           carries(s) == up[s].at = Keep /\ up[s].time = Keep /\ pl[s].at # Keep
           follows(s) ==
             IF carries(s) /\ times[s] = part[s].at THEN pl[s].at
             ELSE IF s = "end" /\ carries("start") /\ part["end"].at = Blank /\ times["end"] = part["start"].at
               THEN pl["start"].at ELSE times[s]
<1>1. w \in Worker /\ j.pc = "update" /\ Formed(j) /\ PartOK /\ Step(w, Idle)
  BY DEF UpdateFlightPartRoute, TimesInv, JobsOK, Worker, Ends
<1>2. j.route \in RouteType /\ (\A s \in Side : TurnOK(up[s])) /\ part \in RowType
  BY <1>1 DEF Formed, PartOK
<1>3. \A s \in Side : up[s] \in TurnType /\ part[s] \in EndType
  BY <1>2 DEF RouteType, RowType
<1>4. flight \in FlightType /\ flight # Blank
  BY <1>1 DEF TimesInv, JobsOK, PartOK
<1>5. (\A v \in Worker : KnowsFlight(job[v])') /\ ~Owes(j)
  <2>1. ~Owes(j)
    BY <1>1 DEF Formed, Owes
  <2> QED BY <1>1, <2>1, IdleKnows, WorkerKnows
<1>6. CASE ~(\A s \in Side : ResolveSource(pl[s], part[s]))
  <2>1. UNCHANGED <<part, flight, strayed>>
    BY <1>6 DEF UpdateFlightPartRoute, Rows
  <2> QED BY <1>1, <1>5, <2>1, IdleKnows, QuietLinked
<1>7. CASE \A s \in Side : ResolveSource(pl[s], part[s])
  <2>1. /\ part' = new
        /\ flight' = [code |-> [s \in Side |-> Or(up[s].code, flight.code[s])],
                      time |-> [s \in Side |-> follows(s)],
                      resolved |-> Or(j.route.resolved, flight.resolved)]
        /\ strayed' = IF \E s, v \in Side : pl[s].at # Keep /\ up[v].time = Keep
                      THEN strayed \cup {"half a route"} ELSE strayed
    BY <1>7 DEF UpdateFlightPartRoute
  <2>2. \A s \in Side : c0(s) \in ChangeType /\ c0(s).at = up[s].at
    <3> SUFFICES ASSUME NEW s \in Side
                 PROVE  c0(s) \in ChangeType /\ c0(s).at = up[s].at
      OBVIOUS
    <3> DEFINE turn == up[s]
               c == c0(s)
    <3>1. c = [Nothing EXCEPT !.at = turn.at, !.tz = turn.tz, !.src = turn.src, !.place = turn.place]
      OBVIOUS
    <3>2. turn \in TurnType
      BY <1>3
    <3> HIDE DEF c, turn
    <3>3. /\ turn.at \in Int \cup {Keep} /\ turn.tz \in Zone \cup {Blank, Keep}
          /\ turn.src \in Source \cup {Keep} /\ turn.place \in Place \cup {Blank, Keep}
      BY <3>2 DEF TurnType
    <3>4. c \in ChangeType /\ c.at = turn.at
      BY <3>1, <3>3, NothingTyped DEF Nothing, ChangeType
    <3> QED BY <3>4 DEF c, turn
  <2>3. \A s \in Side : /\ pl[s] = anchorFloating(c0(s), part[s])
                        /\ pl[s] \in ChangeType
                        /\ up[s].at # Keep => pl[s].at = up[s].at
    <3> HIDE DEF c0
    <3>1. \A s \in Side : pl[s] = anchorFloating(c0(s), part[s])
      OBVIOUS
    <3>2. \A s \in Side : anchorFloating(c0(s), part[s]) \in ChangeType
      BY <2>2, <1>3, anchorFloatingTyped
    <3>3. \A s \in Side : up[s].at # Keep => anchorFloating(c0(s), part[s]) = c0(s)
      BY <2>2 DEF anchorFloating
    <3> QED BY <3>1, <3>2, <3>3, <2>2
  <2> HIDE DEF c0
  <2>4. \A s \in Side : new[s] = ApplyEnd(part[s], pl[s])
    <3>1. pl \in [Side -> ChangeType]
      BY <2>3
    <3> HIDE DEF pl
    <3> QED BY <3>1, <1>2, ApplyRow
  <2>5. \A s \in Side : new[s].at = Or(pl[s].at, part[s].at)
    BY <2>4, ApplyReads
  <2>6. \A s \in Side : up[s].time # Keep => up[s].at = up[s].time
    BY <1>2 DEF TurnOK
  <2>7. flight'.time = [s \in Side |-> follows(s)]
    BY <2>1
  <2>8. CASE \E s, v \in Side : pl[s].at # Keep /\ up[v].time = Keep
    <3>1. strayed' # {}
      BY <2>1, <2>8
    <3> QED BY <1>5, <3>1, Settled
  <2>9. CASE \A s \in Side : up[s].time # Keep
    <3>1. \A s \in Side : follows(s) = up[s].time
      BY <2>9 DEF Or, Side
    <3>2. \A s \in Side : pl[s].at = up[s].time
      BY <2>3, <2>6, <2>9
    <3>3. \A s \in Side : new[s].at = up[s].time
      BY <2>5, <2>9, <3>2 DEF Or
    <3>4. \A s \in Side : flight'.time[s] = up[s].time /\ part'[s].at = up[s].time
      BY <2>1, <2>7, <3>1, <3>3
    <3>5. \A s \in Side : up[s].time \in Int
      BY <1>3, <2>9 DEF TurnType
    <3>6. flight'.time = Schedule(part', flight')
      <4> DEFINE a == up["start"].time
                 b == up["end"].time
      <4>1. flight'.time["start"] = a /\ part'["start"].at = a /\ flight'.time["end"] = b /\ part'["end"].at = b
        BY <3>4 DEF Side
      <4>2. a + b - a = b
        BY <3>5 DEF Side
      <4>3. \A s \in Side : Schedule(part', flight')[s] = IF s = "start" THEN a ELSE b
        <5> HIDE DEF a, b
        <5> QED BY <4>1, <4>2 DEF Schedule
      <4>4. \A s \in Side : flight'.time[s] = Schedule(part', flight')[s]
        BY <4>1, <4>3 DEF Side
      <4> HIDE DEF follows, up
      <4> QED BY <2>7, <4>4 DEF Schedule
    <3> QED BY <1>5, <3>6, Settled DEF Follows
  <2>10. CASE (\A s \in Side : pl[s].at = Keep) /\ ~(\A s \in Side : up[s].time # Keep)
    <3>1. \A s \in Side : up[s].time = Keep
      BY <2>3, <2>6, <2>10
    <3>2. \A s \in Side : follows(s) = flight.time[s]
      BY <2>10, <3>1 DEF Or, Side
    <3>3. flight.time = [s \in Side |-> flight.time[s]]
      BY <1>4 DEF FlightType
    <3>4. flight'.time = flight.time
      <4> HIDE DEF follows
      <4> QED BY <2>7, <3>2, <3>3
    <3>5. \A s \in Side : part'[s].at = part[s].at
      BY <2>1, <2>5, <2>10 DEF Or
    <3>6. strayed' = strayed
      BY <2>1, <2>10
    <3> QED BY <1>1, <1>4, <1>5, <3>4, <3>5, <3>6, OneStands
  <2> QED BY <2>8, <2>9, <2>10
<1> QED BY <1>6, <1>7

LEMMA OutsidersLink ==
  ASSUME TimesInv, Linked, flight = Blank => flight' = Blank,
         \/ PlanFixes \/ ApplyZoneFixes \/ MarkFlightPartResolved
         \/ \E rf \in Answers : RefreshFlightPartSchedule(rf) \/ BackfillFlightPart(rf)
  PROVE  Linked'
<1>1. UNCHANGED job
  BY DEF PlanFixes, ApplyZoneFixes, MarkFlightPartResolved, RefreshFlightPartSchedule, BackfillFlightPart
<1>2. /\ \A v \in Worker : KnowsFlight(job[v])'
      /\ \A v \in Worker : Owes(job[v]) => Owes(job'[v])
  BY <1>1, OthersKnow
<1>3. CASE PlanFixes
  BY <1>2, <1>3, TimesStand DEF PlanFixes
<1>4. CASE ApplyZoneFixes
  <2>1. PICK new : /\ part' = new
                   /\ strayed' = IF flight # Blank /\ MovesTime(new) THEN strayed \cup {"backfill"} ELSE strayed
    BY <1>4 DEF ApplyZoneFixes
  <2>2. UNCHANGED flight
    BY <1>4 DEF ApplyZoneFixes
  <2>3. CASE flight = Blank
    BY <1>2, <2>2, <2>3 DEF Linked
  <2>4. CASE MovesTime(new) /\ flight # Blank
    <3>1. strayed' # {}
      BY <2>1, <2>4
    <3> QED BY <1>2, <3>1, Settled
  <2>5. CASE ~MovesTime(new)
    <3>1. \A s \in Side : part'[s].at = part[s].at
      BY <2>1, <2>5 DEF MovesTime
    <3>2. strayed' = strayed
      BY <2>1, <2>5
    <3> QED BY <1>2, <2>2, <3>1, <3>2, TimesStand
  <2> QED BY <2>3, <2>4, <2>5
<1>5. CASE MarkFlightPartResolved
  <2>1. flight # Blank /\ flight' = [flight EXCEPT !.resolved = TRUE] /\ UNCHANGED <<part, strayed>>
    BY <1>5 DEF MarkFlightPartResolved, Poll
  <2>2. flight'.time = flight.time
    BY <2>1 DEF TimesInv, PartOK, FlightType
  <2> QED BY <1>2, <2>1, <2>2, TimesStand
<1>6. ASSUME NEW rf \in Answers, BackfillFlightPart(rf)
      PROVE  Linked'
  <2> DEFINE filled(s) == [part[s] EXCEPT !.place = IF @ = Blank THEN AirportCoords(rf.code[s], rf.place[s]) ELSE @]
             codes == [s \in Side |-> IF flight.code[s] = Blank THEN rf.code[s] ELSE flight.code[s]]
  <2>1. /\ flight # Blank /\ part' = [s \in Side |-> filled(s)]
        /\ flight' = [flight EXCEPT !.code = [s \in Side |-> IF @[s] = Blank THEN rf.code[s] ELSE @[s]]]
        /\ UNCHANGED strayed
    BY <1>6 DEF BackfillFlightPart, Poll
  <2>2. flight \in FlightType /\ \A s \in Side : part[s] \in EndType
    BY <2>1 DEF TimesInv, PartOK, RowType
  <2>3. flight'.time = flight.time
    BY <2>1, <2>2 DEF FlightType
  <2>4. \A s \in Side : filled(s).at = part[s].at
    BY <2>2 DEF EndType
  <2>5. \A s \in Side : part'[s].at = part[s].at
    <3> HIDE DEF filled
    <3> QED BY <2>1, <2>4
  <2> QED BY <1>2, <2>1, <2>3, <2>5, TimesStand
<1>7. ASSUME NEW rf \in Answers, RefreshFlightPartSchedule(rf)
      PROVE  Linked'
  <2> DEFINE fresh(s) == [part[s] EXCEPT !.at = rf.time[s], !.src = IF part[s].tz = Blank THEN "unknown" ELSE @]
  <2>1. /\ flight # Blank /\ part' = [s \in Side |-> fresh(s)] /\ flight' = [flight EXCEPT !.time = rf.time]
        /\ rf.time["end"] > rf.time["start"] /\ \A s \in Side : rf.time[s] # Keep
    BY <1>7 DEF RefreshFlightPartSchedule, Poll
  <2>2. flight \in FlightType /\ \A s \in Side : part[s] \in EndType
    BY <2>1 DEF TimesInv, PartOK, RowType
  <2>3. rf.time \in [Side -> Int \cup {Keep}]
    BY TimesAssumption DEF AnswerType
  <2>4. flight'.time = rf.time
    BY <2>1, <2>2 DEF FlightType
  <2>5. \A s \in Side : fresh(s).at = rf.time[s]
    BY <2>2 DEF EndType
  <2>6. \A s \in Side : part'[s].at = rf.time[s]
    <3> HIDE DEF fresh
    <3> QED BY <2>1, <2>5
  <2>7. \A s \in Side : rf.time[s] \in Int /\ rf.time[s] # Blank
    BY <2>1, <2>3, TimesAssumption
  <2>8. part'["start"].at = rf.time["start"] /\ part'["end"].at = rf.time["end"]
    BY <2>6 DEF Side
  <2>9. rf.time["start"] \in Int /\ rf.time["end"] \in Int /\ rf.time["end"] # Blank
    BY <2>7 DEF Side
  <2>10. rf.time["end"] >= rf.time["start"]
    <3> DEFINE a == rf.time["start"]
               b == rf.time["end"]
    <3>1. a \in Int /\ b \in Int /\ b > a
      BY <2>1, <2>9
    <3> HIDE DEF a, b
    <3>2. b >= a
      BY <3>1
    <3> QED BY <3>2 DEF a, b
  <2>11. \A s \in Side : Schedule(part', flight')[s] = rf.time[s]
    BY <2>8, <2>9, <2>10 DEF Schedule, Side
  <2>12. rf.time = [s \in Side |-> rf.time[s]]
    BY <2>3
  <2>13. Schedule(part', flight') = rf.time
    BY <2>11, <2>12 DEF Schedule
  <2> QED BY <1>2, <2>4, <2>13, Settled DEF Follows
<1> QED BY <1>3, <1>4, <1>5, <1>6, <1>7

LEMMA LinkedInitially ==
  ASSUME TimesInit
  PROVE  Linked
<1>1. PICK p \in Parts : part = p.part /\ flight = p.flight
  BY DEF TimesInit
<1>2. flight # Blank => Follows
  BY <1>1, PartsAssumption DEF Follows
<1>3. \A w \in Worker : job[w].pc = "idle"
  BY DEF TimesInit, Idle
<1> QED BY <1>2, <1>3 DEF Linked, KnowsFlight

LEMMA LinkedKept ==
  ASSUME TimesInv, Linked, [TimesNext]_timesVars
  PROVE  Linked'
<1>1. CASE UNCHANGED timesVars
  BY <1>1 DEF timesVars, Linked, KnowsFlight, Owes, Follows, Schedule
<1>2. CASE TimesNext
  <2>1. flight = Blank => flight' = Blank
    BY <1>2, FlightStaysUnknown
  <2>2. ASSUME NEW w \in Editors,
               Locate(w) \/ pinZones(w) \/ applyFlightEdit(w) \/ \E in \in Edits : StartEdit(w, in)
        PROVE  Linked'
    BY <2>2, EditStepsLink
  <2>3. ASSUME NEW w \in Editors, ReadFlight(w) PROVE Linked'
    BY <2>1, <2>3, ReadFlightLinks
  <2>4. ASSUME NEW w \in Editors, UpdateFlightPartRoute(w) PROVE Linked'
    BY <2>1, <2>4, UpdateLinks
  <2>5. ASSUME NEW w \in Worker, ReadPart(w) \/ WritePart(w) \/ ReadBack(w) \/ SyncFlightSchedule(w) \/ Fails(w)
        PROVE  Linked'
    BY <2>1, <2>5, ReadPartLinks, WritePartLinks, ReadBackLinks, SyncLinks, FailsLinks
  <2>6. CASE StartGeocode \/ GeocodeEnds
    BY <2>6, GeocodeLinks
  <2>7. CASE \/ PlanFixes \/ ApplyZoneFixes \/ MarkFlightPartResolved
             \/ \E rf \in Answers : RefreshFlightPartSchedule(rf) \/ BackfillFlightPart(rf)
    BY <2>1, <2>7, OutsidersLink
  <2> QED BY <1>2, <2>2, <2>3, <2>4, <2>5, <2>6, <2>7 DEF TimesNext
<1> QED BY <1>1, <1>2

\* Unless one of the paths that are known to separate them was taken since they
\* were last made one, an unresolved flight's schedule is, once nobody is at
\* work, exactly what its part's times ask for (syncFlightSchedule,
\* UpdateFlightPartRoute, RefreshFlightPartSchedule).
THEOREM SchedulesStrayKnowingly == TimesSpec => []ScheduleStraysKnowingly
<1>1. TimesInit => Linked
  BY LinkedInitially
<1>2. TimesInv /\ Linked /\ [TimesNext]_timesVars => Linked'
  BY LinkedKept
<1>3. TimesInv /\ Linked => ScheduleStraysKnowingly
  <2> SUFFICES ASSUME TimesInv, Linked, AtRest, flight # Blank, strayed = {}
               PROVE  Follows
    BY DEF ScheduleStraysKnowingly, Follows
  <2>1. \A w \in Worker : ~Owes(job[w])
    <3> SUFFICES ASSUME NEW w \in Worker
                 PROVE  ~Owes(job[w])
      OBVIOUS
    <3>1. job[w].pc = "idle"
      BY DEF AtRest
    <3> QED BY <3>1, OwesNothing
  <2> QED BY <2>1 DEF Linked
<1> QED BY <1>1, <1>2, <1>3, TimesInvAlways, PTL DEF TimesSpec
=============================================================================
