---------------------------- MODULE FlightStatus ----------------------------
(***************************************************************************)
(* One flight part under the poller's tick: three list queries with polls  *)
(* between them, all with the now of the tick's beginning, while the clock *)
(* runs on, the provider revises the part's times and a handler may move   *)
(* its schedule (internal/poller/poller.go, internal/store/tracker.go).    *)
(* What a poll has to say about the part is FlightAlerts.                  *)
(***************************************************************************)
EXTENDS FlightTimes

CONSTANTS
  Timetables,    \* the timetables a part may be created with
  LiveInstants,  \* the instants the provider may report, and NoTime
  Schedules,     \* the <<out, in>> a provider or a traveller may move it to
  Interval,      \* Poller.Interval, between polls from the departure on
  RampInterval,  \* metadataRefreshIntervalFor, before it
  LandedInterval,\* postArrivalPollInterval
  TickSpan,      \* the bound on how long a tick takes
  LastInstant    \* the bound on the clock

ASSUME StatusAssumption ==
  /\ Timetables \subseteq FlightTimesType
  /\ LiveInstants \subseteq MaybeInstant
  /\ Schedules \subseteq Instant \X Instant
  /\ {Interval, RampInterval, LandedInterval} \subseteq Nat \ {0}
  /\ {TickSpan, LastInstant} \subseteq Nat

VARIABLES
  times,     \* the time columns of flight_details
  status,    \* flight_details.flight_status
  confirmed, \* flight_details.resolved
  polledAt,  \* flight_details.last_polled_at
  clock,     \* the clock
  pass,      \* the pass the tick has got to
  tickAt,    \* the tick's own now
  open,      \* whether the pass is polling the part
  marked,    \* history: a poll of this tick has stored last_polled_at
  owed,      \* history: this tick has the part to list and has not yet
  surprises  \* how many more reports, moves and failures: bounds the run

flight == <<times, status, confirmed, polledAt>>
tick == <<pass, tickAt, open, marked, owed>>
statusVars == <<flight, clock, tick, surprises>>

Passes == {"active", "metadata", "landed"}

Listing(p) ==
  CASE p = "active" -> InActive(status, times, tickAt)
    [] p = "metadata" -> InMetadata(status, times, tickAt)
    [] p = "landed" -> InRecentlyArrived(status, times, tickAt)

minPollAge(p) ==
  IF p = "landed" THEN LandedInterval
  ELSE IF status = "Enroute" \/ tickAt >= times.scheduledOut THEN Interval ELSE RampInterval

\* A slip: the arrival pass has no cadence of its own.
DueAgainOnLanding(p) ==
  p = "landed" \/ polledAt = NoTime \/ tickAt - polledAt >= minPollAge(p)

Due(p) == polledAt = NoTime \/ tickAt - polledAt >= minPollAge(p)

StatusInit ==
  /\ times \in Timetables
  /\ status = "Scheduled" /\ confirmed = FALSE /\ polledAt = NoTime
  /\ clock = 0
  /\ pass = "rest" /\ tickAt = 0
  /\ open = FALSE /\ marked = FALSE /\ owed = FALSE
  /\ surprises = 2

Tick ==
  /\ clock < LastInstant
  /\ pass # "rest" => clock < tickAt + TickSpan
  /\ clock' = clock + 1
  /\ UNCHANGED <<flight, tick, surprises>>

BeginTick ==
  /\ pass = "rest"
  /\ pass' = "active" /\ tickAt' = clock /\ marked' = FALSE
  /\ owed' = (Live(status) /\ clock >= times.scheduledOut - MetadataLead)
  /\ UNCHANGED <<flight, clock, open, surprises>>

NextPass == pass' = CASE pass = "active" -> "metadata" [] pass = "metadata" -> "landed"
                      [] pass = "landed" -> "rest"

\* The pass lists the part and its last poll is old enough.
TakeUp ==
  /\ pass \in Passes /\ ~open
  /\ Listing(pass) /\ Due(pass)
  /\ open' = TRUE /\ owed' = FALSE
  /\ UNCHANGED <<flight, clock, pass, tickAt, marked, surprises>>

\* It does not, or refreshMetadata finds the resolver asked too recently.
PassOver ==
  /\ pass \in Passes /\ ~open
  /\ Listing(pass) /\ Due(pass) => pass = "metadata"
  /\ NextPass
  /\ owed' = (owed /\ ~Listing(pass))
  /\ UNCHANGED <<flight, clock, tickAt, open, marked, surprises>>

Surprise == surprises > 0 /\ surprises' = surprises - 1

Moved(t, s) == [t EXCEPT !.scheduledOut = s[1], !.scheduledIn = s[2], !.floating = FALSE]

\* A resolve stores the live times it got: estimates outright, actuals unless
\* the report has none.
Revise(estOut, estIn, actOut, actIn) ==
  /\ open
  /\ Surprise
  /\ actOut <= clock /\ actIn <= clock
  /\ times' = [times EXCEPT !.estimatedIn = estIn, !.actualIn = First(actIn, @),
                            !.estimatedOut = estOut, !.actualOut = First(actOut, @)]
  /\ UNCHANGED <<status, confirmed, polledAt, clock, tick>>

\* The airline's schedule replaces an unconfirmed one, once.
AdoptSchedule(s) ==
  /\ open
  /\ ~confirmed /\ confirmed' = TRUE
  /\ times' = IF s[2] > s[1] THEN Moved(times, s) ELSE times
  /\ UNCHANGED <<status, polledAt, clock, tick, surprises>>

\* RefreshFlightPartStatus, which ends every poll of the part and marks it.
Refresh ==
  /\ open
  /\ status' = DerivedStatus(status, times, clock)
  /\ polledAt' = clock
  /\ open' = FALSE /\ marked' = TRUE /\ NextPass
  /\ UNCHANGED <<times, confirmed, clock, tickAt, owed, surprises>>

\* That write fails, or a panic ends the poll before it.
RefreshLost ==
  /\ open
  /\ Surprise
  /\ open' = FALSE /\ NextPass
  /\ UNCHANGED <<flight, clock, tickAt, marked, owed>>

\* A list query fails: tick returns, and leaves the rest to the next one.
ListFails ==
  /\ pass \in Passes /\ ~open
  /\ Surprise
  /\ pass' = "rest" /\ owed' = FALSE
  /\ UNCHANGED <<flight, clock, tickAt, open, marked>>

\* A handler moves the schedule between any two steps of the tick.
MoveSchedule(s) ==
  /\ Surprise
  /\ times' = Moved(times, s)
  /\ owed' = FALSE
  /\ UNCHANGED <<status, confirmed, polledAt, clock, pass, tickAt, open, marked>>

TickStep == BeginTick \/ TakeUp \/ PassOver \/ Refresh

StatusNext ==
  \/ Tick \/ TickStep \/ RefreshLost \/ ListFails
  \/ \E estOut, estIn, actOut, actIn \in LiveInstants : Revise(estOut, estIn, actOut, actIn)
  \/ \E s \in Schedules : AdoptSchedule(s) \/ MoveSchedule(s)

StatusSpec == StatusInit /\ [][StatusNext]_statusVars

\* The ticker fires for ever, each pass ends, and time passes whatever the
\* poller does, which is strong fairness where its steps are taken as instant.
FairStatusSpec == StatusSpec /\ SF_statusVars(Tick) /\ WF_statusVars(TickStep)

-----------------------------------------------------------------------------
(***************************************************************************)
(* The SQL that derives the status and the Go that measures the belt and   *)
(* the traveller's times name the same arrival, for every flight whose     *)
(* timetable is an instant (tracker.go flightArrivalSQL, effective.go).    *)
(***************************************************************************)
ArrivalAgrees == ~times.floating => SqlArrival(times) = EffectiveArrival(times)

(***************************************************************************)
(* A tick polls a part once.  Its three lists are read at different        *)
(* moments and a poll may land the part or move its schedule into a later  *)
(* pass's list, so what prevents a second poll is the mark the first one   *)
(* left, unless that was lost.  And none that is due a look falls between  *)
(* the lists, unless one could not be read or a handler moved the part     *)
(* meanwhile (tick).                                                       *)
(***************************************************************************)
OncePerTick == (open => ~marked) /\ (pass = "rest" => ~owed)

(***************************************************************************)
(* No revision, however stale, keeps a part in the tracking set for ever:  *)
(* arrivalSlipCap, departureSlipCap and noArrivalCap see to it.            *)
(***************************************************************************)
EventuallyLeavesPollSet == <>[](~Live(status))
=============================================================================
