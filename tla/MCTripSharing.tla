--------------------------- MODULE MCTripSharing ---------------------------
(* Requests for two questions: what grants on trips and plans add up to, and *)
(* what members, invitations and sign-ins do to a trip.                      *)
EXTENDS TripSharing

CONSTANTS own, pal, new, t1, t2, p1, p2

Ask(op, me) ==
  [op |-> op, me |-> me, trip |-> t1, plan |-> p1, other |-> p2, user |-> me,
   role |-> "viewer", mode |-> "everyone", named |-> {}, flag |-> TRUE]

OnPlans(op) == {[Ask(op, own) EXCEPT !.plan = p] : p \in Plan}
OnPassengers(op) == {[r EXCEPT !.user = pal] : r \in OnPlans(op)}
Others == [p \in Plan |-> CHOOSE q \in Plan : q # p]

GrantRequests ==
  {Ask("createTrip", own), Ask("deleteTrip", own),
   [Ask("setTripShareAllFriends", own) EXCEPT !.role = "none"],
   Ask("setTripShareAllFriends", own),
   Ask("removeTripPassenger", pal),
   [Ask("createTrip", own) EXCEPT !.trip = t2],
   [Ask("movePlan", own) EXCEPT !.trip = t2], Ask("movePlan", own),
   [Ask("inviteFriend", own) EXCEPT !.user = pal],
   [Ask("acceptFriend", pal) EXCEPT !.user = own],
   [Ask("removeFriend", pal) EXCEPT !.user = own]}
  \cup {[Ask("addTripPassenger", own) EXCEPT !.user = pal, !.trip = t] : t \in Trip}
  \cup OnPlans("createPlan") \cup OnPlans("deletePlan")
  \cup OnPassengers("addPlanPassenger") \cup OnPassengers("removePlanPassenger")
  \cup {[r EXCEPT !.other = Others[r.plan]] : r \in OnPlans("linkPlans") \cup OnPlans("splitPlanPart")}
  \cup {[r EXCEPT !.mode = m, !.named = {pal}] : r \in OnPlans("setPlanVisibility"), m \in Mode}
  \cup {[r EXCEPT !.flag = b] : r \in OnPlans("setPlanShareAllFriends"), b \in BOOLEAN}

\* own and pal both manage the trip; new is invited to it before signing up.
MemberRequests ==
  {Ask("createTrip", own),
   Ask("deleteTrip", own),
   [Ask("createTrip", own) EXCEPT !.trip = t2],
   [Ask("addTripMember", own) EXCEPT !.user = pal, !.role = "owner"],
   [Ask("removeTripMember", own) EXCEPT !.user = pal],
   [Ask("removeTripMember", pal) EXCEPT !.user = own],
   [Ask("removeTripMember", pal) EXCEPT !.user = new],
   Ask("createPlan", own),
   [Ask("setAutoShare", own) EXCEPT !.user = pal, !.role = "passenger"],
   [Ask("setAutoShare", own) EXCEPT !.user = pal, !.role = "editor"],
   [Ask("removeAutoShare", own) EXCEPT !.user = pal],
   [Ask("inviteFriend", pal) EXCEPT !.user = new],
   [Ask("cancelOutgoingInvite", own) EXCEPT !.user = new],
   [Ask("removeFriend", new) EXCEPT !.user = own],
   [Ask("acceptFriend", new) EXCEPT !.user = own],
   [Ask("shareTripByEmail", own) EXCEPT !.user = new],
   [Ask("shareTripByEmail", pal) EXCEPT !.user = new, !.role = "editor"],
   [Ask("sharePlanByEmail", own) EXCEPT !.user = new]}

\* Two owners removing each other, or a removal overlapping a share by e-mail.
Overlaps == {s \in SUBSET {r \in MemberRequests : r.op \in {"removeTripMember", "shareTripByEmail"}} :
               \E a, b \in MemberRequests : s = {a, b}}

\* In both runs nobody is given a lesser role than one they may hold by then.
ASSUME MembersAssumption == NoDemotion
=============================================================================
