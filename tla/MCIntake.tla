------------------------------ MODULE MCIntake ------------------------------
(* Instances of Intake for TLC. *)
EXTENDS Intake, TLC
CONSTANTS order, babble, bomb, confirm, import1, import2, flight, hotel, rebooking, event, oldFlight

MailKinds == order :> "booking" @@ babble :> "garbled" @@ bomb :> "panics"
Contents ==
  order :> <<flight, hotel>> @@ babble :> << >> @@ bomb :> << >>
    @@ confirm :> <<rebooking>> @@ import1 :> <<event>> @@ import2 :> <<event>>
Superseded == [b \in Bookings |-> IF b = rebooking THEN oldFlight ELSE None]
FailuresOfASort == [s \in Sorts |-> IF s = "fault" THEN 2 ELSE 1]
Overlaps == {{a} : a \in Agents} \cup {Imports}
=============================================================================
