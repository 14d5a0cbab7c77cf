--------------------------- MODULE MCFlightStatus ---------------------------
(* A part timetabled from 3 to 5, one with no timetabled arrival, and the   *)
(* same two with a floating departure; the provider reports from LiveAt.    *)
EXTENDS FlightStatus

Timetable(in, fl) ==
  [scheduledOut |-> 3, scheduledIn |-> in, estimatedOut |-> NoTime,
   estimatedIn |-> NoTime, actualOut |-> NoTime, actualIn |-> NoTime, floating |-> fl]

Anchored == {Timetable(in, FALSE) : in \in {3, 5}}
AnyTimetable == Anchored \cup {Timetable(in, TRUE) : in \in {3, 5}}
LiveAt == {NoTime, 2, 7, 99}
MovesTo == {<<6, 8>>}
=============================================================================
