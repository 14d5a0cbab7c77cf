--------------------------- MODULE MCFlightAlerts ---------------------------
(* A part timetabled from 4 to 6 and a provider that may name either of two *)
(* gates, three terminals, one belt, publish or withdraw a delay, or call   *)
(* the flight off.  One end suffices: the ends share nothing but the alert. *)
EXTENDS FlightAlerts

CONSTANTS origin, g1, g2, t1, t2, t3, b1, ann, bob

Blank ==
  [gate |-> [e \in Ends |-> None], term |-> [e \in Ends |-> None], belt |-> None,
   estimatedOut |-> NoTime, estimatedIn |-> NoTime, actualOut |-> NoTime, actualIn |-> NoTime,
   scheduledOut |-> NoTime, scheduledIn |-> NoTime, verdict |-> None]

Gate(g) == [Blank EXCEPT !.gate = [e \in Ends |-> g]]
Term(t) == [Blank EXCEPT !.term = [e \in Ends |-> t]]
Delay(d) == [Blank EXCEPT !.estimatedOut = 4 + d]

ToldReports == {[Term(t1) EXCEPT !.gate = [e \in Ends |-> g1], !.estimatedOut = 5],
                Delay(2), Term(t2),
                [Delay(3) EXCEPT !.gate = [e \in Ends |-> g2]],
                [Term(t1) EXCEPT !.verdict = "Cancelled"]}
AllReports == {[Term(t1) EXCEPT !.belt = b1], [Term(t2) EXCEPT !.gate = [e \in Ends |-> g1]],
               [Term(t2) EXCEPT !.estimatedOut = 2, !.actualOut = 4],
               [Delay(2) EXCEPT !.gate = [e \in Ends |-> g2], !.verdict = "Diverted"],
               [Term(t3) EXCEPT !.scheduledOut = 5, !.scheduledIn = 7]}

Thresholds == [r \in Recipients |-> IF r = ann THEN 1 ELSE 3]

Timetables ==
  {[scheduledOut |-> 4, scheduledIn |-> 6, estimatedOut |-> NoTime, estimatedIn |-> NoTime,
    actualOut |-> NoTime, actualIn |-> NoTime, floating |-> FALSE]}
=============================================================================
