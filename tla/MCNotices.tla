----------------------------- MODULE MCNotices -----------------------------
(* Instances of Notices for TLC. *)
EXTENDS Notices, TLC
CONSTANTS ann, bob, leg

TwoPasses == <<"reminder", "departure">>
Leads == "checkin" :> 2 @@ "departure" :> 1
Asked == {0, 1, 9}

Wanting == [trip |-> None, plan |-> None, inApp |-> TRUE, email |-> TRUE,
            kinds |-> {"departure"}, rides |-> FALSE, optin |-> FALSE,
            address |-> TRUE, push |-> Kinds]
Riding == [Wanting EXCEPT !.rides = TRUE]
MailOnly == [Riding EXCEPT !.inApp = FALSE]
Reminded == [Riding EXCEPT !.kinds = {}, !.trip = DefaultLead]
Silent == [Wanting EXCEPT !.optin = TRUE, !.inApp = FALSE, !.address = FALSE,
                          !.plan = [enabled |-> TRUE, lead |-> DefaultLead]]

Wishes == {ann :> Riding @@ bob :> Reminded, ann :> MailOnly @@ bob :> Silent}
Starts == [Parts -> {2}]
============================================================================
