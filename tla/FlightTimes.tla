----------------------------- MODULE FlightTimes -----------------------------
(***************************************************************************)
(* The one rule for a flight's times.  internal/timing/effective.go states *)
(* it in Go; internal/store/tracker.go states it again in SQL, where the   *)
(* stored status and the poller's work lists are derived from it.  This    *)
(* module translates both, so that they can be compared.                   *)
(*                                                                         *)
(* An instant is a natural number of clock units; NoTime is Go's nil and   *)
(* SQL's NULL.  Delays and caps are in the same units.                     *)
(***************************************************************************)
EXTENDS Integers

CONSTANTS
  ArrivalSlipCap,    \* how far past scheduled_in a revision may hold a part open (12 h)
  DepartureSlipCap,  \* how far past scheduled_out an estimate may move the baseline (12 h)
  NoArrivalCap,      \* how long a part with no known arrival stays live (24 h)
  ActiveLead,        \* ActiveFlightParts opens this long before scheduled_out (30 min)
  MetadataLead,      \* FlightPartsNeedingMetadata opens this long before it (12 h)
  PostArrivalWindow, \* FlightPartsRecentlyArrived closes this long after arrival (45 min)
  QuietLead          \* terminalQuietPeriod before the revised departure (30 min)

ASSUME WindowsAssumption ==
  /\ {ArrivalSlipCap, DepartureSlipCap, NoArrivalCap, ActiveLead,
      MetadataLead, PostArrivalWindow, QuietLead} \subseteq Nat
  /\ ActiveLead <= MetadataLead

NoTime == -1
Instant == Nat
MaybeInstant == Instant \cup {NoTime}

\* store.Flight's time columns; floating is start_tz_source = 'floating'.
FlightTimesType ==
  [scheduledOut : Instant, scheduledIn : Instant,
   estimatedOut : MaybeInstant, estimatedIn : MaybeInstant,
   actualOut : MaybeInstant, actualIn : MaybeInstant, floating : BOOLEAN]

Terminal == {"Cancelled", "Diverted"}      \* the statuses nothing derives
Status == {"Scheduled", "Enroute", "Arrived"} \cup Terminal

Least(a, b) == IF a <= b THEN a ELSE b
First(a, b) == IF a # NoTime THEN a ELSE b  \* COALESCE

-----------------------------------------------------------------------------
(* timing.Effective *)

Timetabled(f) == f.scheduledIn > f.scheduledOut

\* Times.Revised: an off-block estimate against a timetable that is an instant.
Revised(f) == f.estimatedOut # NoTime /\ ~f.floating

DepartureDelay(f) == IF Revised(f) THEN f.estimatedOut - f.scheduledOut ELSE 0

EffectiveDeparture(f) == First(f.actualOut, First(f.estimatedOut, f.scheduledOut))

\* An arrival estimate at or before the departure is discarded.
UsableEstimatedIn(f) ==
  IF f.estimatedIn # NoTime /\ f.estimatedIn > EffectiveDeparture(f)
  THEN f.estimatedIn ELSE NoTime

TimetableArrival(f) ==
  IF Timetabled(f) THEN f.scheduledIn + DepartureDelay(f) ELSE NoTime

EffectiveArrival(f) ==
  First(f.actualIn, First(UsableEstimatedIn(f), TimetableArrival(f)))

\* beltIsCurrent: the effective arrival is within the window on either side.
BeltIsCurrent(f, now, window) ==
  /\ EffectiveArrival(f) # NoTime
  /\ now - EffectiveArrival(f) \in (-window)..window

\* inQuietPeriod: measured from the off-block time, never from wheels-off.
InQuietPeriod(f, now) == now >= f.scheduledOut + DepartureDelay(f) - QuietLead

-----------------------------------------------------------------------------
(* flightArrivalSQL and the statements built on it *)

\* A slip: an arrival estimate stored before the departure moved past it is kept.
SqlArrivalUnchecked(f) ==
  First(f.actualIn, First(f.estimatedIn,
    IF ~Timetabled(f) THEN NoTime
    ELSE IF f.estimatedOut # NoTime THEN f.scheduledIn + (f.estimatedOut - f.scheduledOut)
    ELSE f.scheduledIn))

\* The CASE of flightArrivalSQL, which knows nothing of floating timetables.
SqlArrival(f) ==
  CASE f.actualIn # NoTime -> f.actualIn
    [] f.actualIn = NoTime /\ f.estimatedIn # NoTime
         /\ f.estimatedIn > EffectiveDeparture(f) -> f.estimatedIn
    [] OTHER -> IF ~Timetabled(f) THEN NoTime
                ELSE IF f.estimatedOut # NoTime
                     THEN f.scheduledIn + (f.estimatedOut - f.scheduledOut)
                     ELSE f.scheduledIn

\* The baseline RefreshFlightPartStatus counts noArrivalCap from.
NoArrivalBaseline(f) ==
  IF f.actualOut # NoTime THEN f.actualOut
  ELSE IF f.estimatedOut # NoTime
       THEN Least(f.estimatedOut, f.scheduledOut + DepartureSlipCap)
       ELSE f.scheduledOut

\* A slip: no arrivalSlipCap.
ArrivedAfterUncapped(f) ==
  IF SqlArrival(f) # NoTime THEN SqlArrival(f) ELSE NoArrivalBaseline(f) + NoArrivalCap

\* The instant after which RefreshFlightPartStatus calls the part Arrived.
ArrivedAfter(f) ==
  IF SqlArrival(f) # NoTime
  THEN Least(SqlArrival(f), f.scheduledIn + ArrivalSlipCap)
  ELSE NoArrivalBaseline(f) + NoArrivalCap

\* RefreshFlightPartStatus's CASE: the new flight_status from the old one.
DerivedStatus(status, f, now) ==
  IF status \in Terminal THEN status
  ELSE IF now > ArrivedAfter(f) THEN "Arrived"
  ELSE IF now >= EffectiveDeparture(f) THEN "Enroute"
  ELSE "Scheduled"

-----------------------------------------------------------------------------
(* The poller's work lists, for a part that has not been dismissed *)

Live(status) == status \in {"Scheduled", "Enroute"}

InActive(status, f, now) == Live(status) /\ now >= f.scheduledOut - ActiveLead

InMetadata(status, f, now) ==
  /\ Live(status)
  /\ now >= f.scheduledOut - MetadataLead
  /\ now < f.scheduledOut - ActiveLead

\* The window is measured from COALESCE(actual_in, estimated_in, scheduled_in).
LandedAt(f) == First(f.actualIn, First(f.estimatedIn, f.scheduledIn))

InRecentlyArrived(status, f, now) ==
  /\ status = "Arrived"
  /\ now > LandedAt(f)
  /\ now <= LandedAt(f) + PostArrivalWindow

\* sweepProvisional: unconfirmed and not yet the metadata pass's business.
InProvisional(status, resolved, f, now) ==
  Live(status) /\ ~resolved /\ now < f.scheduledOut - MetadataLead
=============================================================================
