---------------------------- MODULE FlightAlerts ----------------------------
(***************************************************************************)
(* The poller and one flight part: every poll snapshots the part's row,    *)
(* asks the resolver about it, stores what it said a statement at a time,  *)
(* re-derives the status, and compares the row with the snapshot to decide *)
(* whether anyone is told (internal/poller/poller.go, alerts.go, sweep.go, *)
(* over internal/store/tracker.go and alerts.go).                          *)
(*                                                                         *)
(* The poller is a single goroutine and every read, write and in-memory    *)
(* entry is keyed by the part, so one part shows all there is to show.     *)
(* The row and the dedupe signature survive a crash; the pending terminal  *)
(* changes do not.  Handlers write the row between any two statements.     *)
(***************************************************************************)
EXTENDS FlightTimes

CONSTANTS
  None,          \* the empty string, the NULL, the nothing
  Ends,          \* the ends of a flight: origin and dest
  Gates, Terminals, Belts,
  Reports,       \* what the provider may answer
  InitialTimes,  \* the times a part may be created with
  Recipients,    \* the owner, passengers and opted-in viewers of the plan
  MinDelay,      \* each recipient's alert_prefs.min_delay_min
  BeltWindow,    \* beltWindow (3 h)
  MaxNow,        \* the bound on the clock
  MaxLeft,       \* the bound on disturbances
  Disturb        \* the disturbances a run allows

GateOrNone == Gates \cup {None}
TerminalOrNone == Terminals \cup {None}
BeltOrNone == Belts \cup {None}

ReportType ==
  [gate : [Ends -> GateOrNone], term : [Ends -> TerminalOrNone], belt : BeltOrNone,
   estimatedOut : MaybeInstant, estimatedIn : MaybeInstant,
   actualOut : MaybeInstant, actualIn : MaybeInstant,
   scheduledOut : MaybeInstant, scheduledIn : MaybeInstant,
   verdict : Terminal \cup {None}]

Disturbances ==
  {"crash", "panic", "write", "read", "deliver", "resolve", "sweep", "edit", "dismiss"}

ASSUME AlertsAssumption ==
  /\ None \notin Gates \cup Terminals \cup Belts \cup Terminal
  /\ Reports \subseteq ReportType
  /\ InitialTimes \subseteq FlightTimesType
  /\ MinDelay \in [Recipients -> Nat]
  /\ {BeltWindow, MaxNow, MaxLeft} \subseteq Nat
  /\ Disturb \subseteq Disturbances

RowType ==
  [status : Status, times : FlightTimesType, gate : [Ends -> GateOrNone],
   term : [Ends -> TerminalOrNone], belt : BeltOrNone,
   resolved : BOOLEAN, dismissed : BOOLEAN]

NoDelay == -1
SigType ==
  [status : Terminal \cup {"live", "never"}, delay : Nat \cup {NoDelay},
   gate : [Ends -> GateOrNone], term : [Ends -> TerminalOrNone], belt : BeltOrNone]

\* last_alert_sig is NULL until the first alert.
NoSig == [status |-> "never", delay |-> NoDelay, gate |-> [e \in Ends |-> None],
          term |-> [e \in Ends |-> None], belt |-> None]

PendingType == [from : TerminalOrNone, to : TerminalOrNone]
NoPending == [from |-> None, to |-> None]

Kinds == {"cancelled", "diverted", "gate", "gate_assigned", "belt", "terminal", "delayed"}

VARIABLES
  row,      \* the part's columns of flight_details and plan_parts
  sig,      \* flight_details.last_alert_sig
  now,      \* the clock
  pending,  \* terminalTracker.pending, one entry per end
  pc,       \* where the poll of this part has got to
  poll,     \* the poll's locals: the mode, the tick's now, prev, the answer, reported
  alert,    \* the alert being dispatched
  todo,     \* the recipients dispatchAlert has still to reach
  told,     \* what each recipient was last told, as a signature
  seen,     \* history: the terminal each end had at the last fresh comparison
  published,\* history: the last delay a comparison saw published
  passedBy, \* history: whom a stored verdict passed by, its poll cut short
  left      \* how many more disturbances may happen

part == <<row, sig, now>>
history == <<told, seen, published, passedBy>>
vars == <<row, sig, now, pending, pc, poll, alert, todo, told, seen, published, passedBy, left>>

NoPoll == [mode |-> "none", at |-> 0, prev |-> None, report |-> None, fresh |-> FALSE]
NoAlert == [kind |-> "none", sig |-> NoSig, delay |-> 0]

Modes == {"refresh", "metadata", "landed", "sweep"}
Steps == {"resolve", "gate", "belt", "times", "verdict", "terminal", "confirm",
          "status", "alert", "dispatch"}

-----------------------------------------------------------------------------
(* The pure part of alerts.go *)

gateChanged(prev, cur) == cur # None /\ cur # prev
gateMoved(prev, cur) == prev # None /\ gateChanged(prev, cur)
gateAssigned(prev, cur) == prev = None /\ cur # None
terminalChanged(prev, cur) == prev # None /\ gateChanged(prev, cur)

\* A slip: the first sighting is compared with the terminal it replaced.
settleAtOnce(pend, prev, cur, reported, quiet, moved) ==
  IF quiet /\ ~moved THEN [pend |-> NoPending, prev |-> cur, sig |-> cur]
  ELSE [pend |-> NoPending, prev |-> prev, sig |-> cur]

\* settle: what becomes of one end's pending change, the terminal changeKind
\* compares with (prev) and the one the signature carries (sig).
settle(pend, prev, cur, reported, quiet, moved) ==
  LET ok == pend # NoPending
      accept == [pend |-> NoPending, prev |-> cur, sig |-> cur]
      keep == [pend |-> pend, prev |-> cur, sig |-> IF ok THEN pend.from ELSE cur]
      announce(from) == [pend |-> NoPending, prev |-> from, sig |-> cur]
      await(from) == [pend |-> [from |-> from, to |-> cur], prev |-> cur, sig |-> from]
      stable == IF ok THEN pend.from ELSE prev
  IN IF quiet /\ ~moved THEN accept
     ELSE IF ~reported THEN keep
     ELSE IF quiet THEN IF terminalChanged(stable, cur) THEN announce(stable) ELSE accept
     ELSE IF ok THEN IF cur = pend.to THEN announce(pend.from)
                     ELSE IF cur = pend.from THEN accept
                     ELSE IF cur = None THEN keep ELSE await(pend.from)
     ELSE IF terminalChanged(prev, cur) THEN await(prev)
     ELSE [pend |-> NoPending, prev |-> prev, sig |-> cur]

snapshot(r) ==
  [status |-> r.status,
   delay |-> IF ~Revised(r.times) THEN NoDelay
             ELSE IF DepartureDelay(r.times) > 0 THEN DepartureDelay(r.times) ELSE 0,
   departed |-> r.times.actualOut # NoTime \/ r.status \in {"Enroute", "Arrived"},
   gate |-> r.gate, term |-> r.term, belt |-> r.belt]

Minutes(delay) == IF delay = NoDelay THEN 0 ELSE delay

\* A slip: a first gate is no news.
changeKindWithoutAssignment(prev, cur) ==
  IF cur.status = "Cancelled" /\ prev.status # "Cancelled" THEN "cancelled"
  ELSE IF cur.status = "Diverted" /\ prev.status # "Diverted" THEN "diverted"
  ELSE IF \E e \in Ends : gateMoved(prev.gate[e], cur.gate[e]) THEN "gate"
  ELSE IF gateChanged(prev.belt, cur.belt) THEN "belt"
  ELSE IF \E e \in Ends : terminalChanged(prev.term[e], cur.term[e]) THEN "terminal"
  ELSE IF /\ cur.delay # NoDelay /\ ~cur.departed
          /\ Minutes(cur.delay) > Minutes(prev.delay) THEN "delayed"
  ELSE "none"

\* changeKind: the first of these that holds names the change.
changeKind(prev, cur) ==
  IF cur.status = "Cancelled" /\ prev.status # "Cancelled" THEN "cancelled"
  ELSE IF cur.status = "Diverted" /\ prev.status # "Diverted" THEN "diverted"
  ELSE IF \E e \in Ends : gateMoved(prev.gate[e], cur.gate[e]) THEN "gate"
  ELSE IF \E e \in Ends : gateAssigned(prev.gate[e], cur.gate[e]) THEN "gate_assigned"
  ELSE IF gateChanged(prev.belt, cur.belt) THEN "belt"
  ELSE IF \E e \in Ends : terminalChanged(prev.term[e], cur.term[e]) THEN "terminal"
  ELSE IF /\ cur.delay # NoDelay /\ ~cur.departed
          /\ Minutes(cur.delay) > Minutes(prev.delay) THEN "delayed"
  ELSE "none"

\* A slip: a withdrawn estimate forgets the delay it told.
signatureForgettingDelay(st, last) ==
  [status |-> IF st.status \in Terminal THEN st.status ELSE "live",
   delay |-> IF st.status \in Terminal THEN NoDelay ELSE st.delay,
   gate |-> st.gate, term |-> st.term, belt |-> st.belt]

\* signatureCarryingDelay over alertSignature.
signature(st, last) ==
  [status |-> IF st.status \in Terminal THEN st.status ELSE "live",
   delay |-> IF st.status \in Terminal THEN NoDelay
             ELSE IF st.delay = NoDelay THEN last.delay ELSE st.delay,
   gate |-> st.gate, term |-> st.term, belt |-> st.belt]

\* A slip: a delay is left to the recipients' thresholds.
AlreadyToldButDelays(kind, st, last) ==
  last # NoSig /\ kind # "delayed" /\ signature(st, last) = last

\* maybeAlert's two dedupes against the stamped signature.
AlreadyTold(kind, st, last) ==
  /\ last # NoSig
  /\ \/ signature(st, last) = last
     \/ kind = "delayed" /\ last.delay # NoDelay /\ Minutes(st.delay) <= last.delay

-----------------------------------------------------------------------------
Init ==
  /\ row \in [status : {"Scheduled"}, times : InitialTimes,
              gate : {[e \in Ends |-> None]}, term : {[e \in Ends |-> None]},
              belt : {None}, resolved : BOOLEAN, dismissed : {FALSE}]
  /\ sig = NoSig
  /\ now = 0
  /\ pending = [e \in Ends |-> NoPending]
  /\ pc = "idle" /\ poll = NoPoll /\ alert = NoAlert /\ todo = {}
  /\ told = [r \in Recipients |-> NoSig]
  /\ seen = [e \in Ends |-> None]
  /\ published = 0
  /\ passedBy = {}
  /\ left = MaxLeft

\* The clock runs between polls and while the resolver is being waited for.
Advance ==
  /\ pc \in {"idle", "resolve"}
  /\ now < MaxNow
  /\ now' = now + 1
  /\ UNCHANGED <<row, sig, pending, pc, poll, alert, todo, history, left>>

Listed(mode) ==
  /\ ~row.dismissed
  /\ CASE mode = "refresh" -> InActive(row.status, row.times, now)
       [] mode = "metadata" -> InMetadata(row.status, row.times, now)
       [] mode = "landed" -> InRecentlyArrived(row.status, row.times, now)
       [] mode = "sweep" -> /\ "sweep" \in Disturb
                            /\ InProvisional(row.status, row.resolved, row.times, now)

\* The list query reads the row; a tracking poll may find its resolve throttled.
StartPoll(mode) ==
  /\ pc = "idle"
  /\ Listed(mode)
  /\ poll' = [NoPoll EXCEPT !.mode = mode, !.at = now, !.prev = row]
  /\ \/ pc' = "resolve"
     \/ mode = "refresh" /\ pc' = "status"
  /\ UNCHANGED <<part, pending, alert, todo, history, left>>

\* A slip: only a part seen to arrive is forgotten.
PruneOnArrival ==
  /\ pc = "idle"
  /\ row.status = "Arrived"
  /\ pending # [e \in Ends |-> NoPending]
  /\ pending' = [e \in Ends |-> NoPending]
  /\ UNCHANGED <<part, pc, poll, alert, todo, history, left>>

\* A tick whose three queries succeed and name the part nowhere forgets it.
Prune ==
  /\ pc = "idle"
  /\ \A mode \in Modes \ {"sweep"} : ~Listed(mode)
  /\ pending # [e \in Ends |-> NoPending]
  /\ pending' = [e \in Ends |-> NoPending]
  /\ UNCHANGED <<part, pc, poll, alert, todo, history, left>>

EndPoll == pc' = "idle" /\ poll' = NoPoll /\ alert' = NoAlert /\ todo' = {}

\* What the history remembers of a poll that ends without its comparison: no
\* later one will find the verdict it may have stored, nor tell it.
Unheard == {r \in Recipients : row.status \in Terminal /\ told[r].status # row.status}
CutShort == passedBy' = passedBy \cup Unheard

\* resolveAndUpdate returned an error: a tracking poll goes on regardless, the
\* metadata polls re-derive the status and stop, the sweep just stops.
Abandon ==
  /\ IF poll.mode = "sweep" THEN EndPoll
     ELSE pc' = "status" /\ UNCHANGED <<poll, alert, todo>>
  /\ IF poll.mode = "refresh" THEN UNCHANGED passedBy ELSE CutShort

Goto(step) == pc' = step /\ UNCHANGED <<poll, alert, todo>>

Disturbed(kind) == kind \in Disturb /\ left > 0 /\ left' = left - 1

Resolve(report) ==
  /\ pc = "resolve"
  /\ report.actualOut <= now /\ report.actualIn <= now
  /\ poll' = [poll EXCEPT !.report = report]
  /\ pc' = "gate"
  /\ UNCHANGED <<part, pending, alert, todo, history, left>>

ResolveFails ==
  /\ pc = "resolve"
  /\ Disturbed("resolve")
  /\ Abandon
  /\ UNCHANGED <<part, pending, told, seen, published>>

Overwrite(old, new) == [e \in Ends |-> IF new[e] # None THEN new[e] ELSE old[e]]

WriteGate ==
  /\ pc = "gate"
  /\ row' = [row EXCEPT !.gate = Overwrite(@, poll.report.gate)]
  /\ Goto("belt")
  /\ UNCHANGED <<sig, now, pending, history, left>>

\* beltIsCurrent is asked of the snapshot, at the tick's own now.
WriteBelt ==
  /\ pc = "belt"
  /\ row' = [row EXCEPT !.belt =
       IF BeltIsCurrent(poll.prev.times, poll.at, BeltWindow) /\ poll.report.belt # None
       THEN poll.report.belt ELSE @]
  /\ Goto("times")
  /\ UNCHANGED <<sig, now, pending, history, left>>

ArrivalStored(t, r) == [t EXCEPT !.estimatedIn = r.estimatedIn, !.actualIn = First(r.actualIn, @)]
DepartureStored(t, r) ==
  [t EXCEPT !.estimatedOut = r.estimatedOut, !.actualOut = First(r.actualOut, @)]

\* Two best-effort statements: either may be lost and the poll goes on.
WriteTimes ==
  /\ pc = "times"
  /\ \/ /\ row' = [row EXCEPT !.times = DepartureStored(ArrivalStored(@, poll.report), poll.report)]
        /\ UNCHANGED left
     \/ /\ Disturbed("write")
        /\ row' \in {[row EXCEPT !.times = ArrivalStored(@, poll.report)],
                     [row EXCEPT !.times = DepartureStored(@, poll.report)], row}
  /\ Goto("verdict")
  /\ UNCHANGED <<sig, now, pending, history>>

\* SetFlightPartTerminalStatus, itself best-effort.
WriteVerdict ==
  /\ pc = "verdict"
  /\ \/ /\ row' = IF /\ poll.report.verdict # None
                     /\ row.status \notin Terminal /\ row.times.actualIn = NoTime
                  THEN [row EXCEPT !.status = poll.report.verdict] ELSE row
        /\ UNCHANGED left
     \/ Disturbed("write") /\ row' = row
  /\ Goto("terminal")
  /\ UNCHANGED <<sig, now, pending, history>>

WriteTerminal ==
  /\ pc = "terminal"
  /\ row' = [row EXCEPT !.term = Overwrite(@, poll.report.term)]
  /\ Goto("confirm")
  /\ UNCHANGED <<sig, now, pending, history, left>>

\* The writes whose failure returns an error from resolveAndUpdate.
WriteFails ==
  /\ pc \in {"gate", "belt", "terminal"}
  /\ pc = "belt" => BeltIsCurrent(poll.prev.times, poll.at, BeltWindow)
  /\ Disturbed("write")
  /\ Abandon
  /\ UNCHANGED <<part, pending, told, seen, published>>

\* RefreshFlightPartSchedule on an unconfirmed part: a floating end is no longer.
Rescheduled(r, report) ==
  IF ~r.resolved /\ report.scheduledOut # NoTime /\ report.scheduledIn > report.scheduledOut
  THEN [r EXCEPT !.times = [@ EXCEPT !.scheduledOut = report.scheduledOut,
                                     !.scheduledIn = report.scheduledIn, !.floating = FALSE]]
  ELSE r

\* MarkFlightPartResolved, if the part was unconfirmed when the poll began.
Marked(r) == [r EXCEPT !.resolved = @ \/ ~poll.prev.resolved]

\* The schedule, the resolved flag, and the re-read that returns the part.
Confirm ==
  /\ pc = "confirm"
  /\ \/ row' = Marked(Rescheduled(row, poll.report)) /\ UNCHANGED left
     \/ /\ Disturbed("write")
        /\ row' \in {Rescheduled(row, poll.report), Marked(row), row}
  /\ IF poll.mode = "sweep" THEN EndPoll /\ CutShort
     ELSE /\ pc' = "status"
          /\ poll' = [poll EXCEPT !.fresh = TRUE]
          /\ UNCHANGED <<alert, todo, passedBy>>
  /\ UNCHANGED <<sig, now, pending, told, seen, published>>

RereadFails ==
  /\ pc = "confirm"
  /\ Disturbed("read")
  /\ row' = Marked(Rescheduled(row, poll.report))
  /\ Abandon
  /\ UNCHANGED <<sig, now, pending, told, seen, published>>

\* A slip: so does a tracking poll.
RefreshStatusThenStop ==
  /\ pc = "status"
  /\ \/ /\ row' = [row EXCEPT !.status = DerivedStatus(@, row.times, now)]
        /\ UNCHANGED left
     \/ Disturbed("write") /\ row' = row
  /\ IF poll.fresh THEN Goto("alert") ELSE EndPoll
  /\ UNCHANGED <<sig, now, pending, history>>

\* A metadata poll whose resolve failed stops here; the others compare.
RefreshStatus ==
  /\ pc = "status"
  /\ \/ /\ row' = [row EXCEPT !.status = DerivedStatus(@, row.times, now)]
        /\ UNCHANGED left
     \/ Disturbed("write") /\ row' = row
  /\ IF poll.mode = "refresh" \/ poll.fresh THEN Goto("alert") ELSE EndPoll
  /\ UNCHANGED <<sig, now, pending, history>>

-----------------------------------------------------------------------------
(* maybeAlert *)

Settled ==
  LET quiet == snapshot(row).departed \/ InQuietPeriod(row.times, now)
  IN [e \in Ends |-> settle(pending[e], poll.prev.term[e], row.term[e], poll.fresh, quiet,
                            gateChanged(poll.prev.gate[e], row.gate[e]))]

PrevState == [snapshot(poll.prev) EXCEPT !.term = [e \in Ends |-> Settled[e].prev]]

\* A slip: the signature takes the terminals as they stand.
SigStateAsRead == snapshot(row)

SigState == [snapshot(row) EXCEPT !.term = [e \in Ends |-> Settled[e].sig]]
Kind == changeKind(PrevState, snapshot(row))

\* evaluateAlert's only side effect, and what the history remembers of it.
Compare ==
  /\ pc = "alert"
  /\ pending' = [e \in Ends |-> Settled[e].pend]
  /\ seen' = [e \in Ends |-> IF poll.fresh /\ row.term[e] # None THEN row.term[e] ELSE seen[e]]
  /\ published' = IF snapshot(row).delay # NoDelay THEN snapshot(row).delay ELSE published
  /\ UNCHANGED <<part, told>>

NothingToTell ==
  /\ Compare
  /\ Kind = "none" \/ AlreadyTold(Kind, SigState, sig)
  /\ EndPoll
  /\ UNCHANGED <<passedBy, left>>

\* maybeAlert's own read of the part failed, and nothing is compared.
RowUnread ==
  /\ pc = "alert"
  /\ Disturbed("read")
  /\ EndPoll /\ CutShort
  /\ UNCHANGED <<part, pending, told, seen, published>>

\* One of the reads between the comparison and the dispatch failed.
AlertReadFails ==
  /\ Compare
  /\ Kind # "none"
  /\ Disturbed("read")
  /\ EndPoll /\ CutShort

Announce ==
  /\ Compare
  /\ Kind # "none" /\ ~AlreadyTold(Kind, SigState, sig)
  /\ alert' = [kind |-> Kind, sig |-> signature(SigState, sig), delay |-> Minutes(SigState.delay)]
  /\ todo' = {r \in Recipients : Kind = "delayed" => Minutes(SigState.delay) >= MinDelay[r]}
  /\ pc' = "dispatch"
  /\ UNCHANGED <<poll, passedBy, left>>

\* dispatchAlert's loop, one recipient at a time.
Deliver(r) ==
  /\ pc = "dispatch"
  /\ r \in todo
  /\ todo' = todo \ {r}
  /\ told' = [told EXCEPT ![r] = alert.sig]
  /\ UNCHANGED <<part, pending, pc, poll, alert, seen, published, passedBy, left>>

\* No channel reaches one of them; the loop goes on and the stamp is made.
DeliveryFails(r) ==
  /\ pc = "dispatch"
  /\ r \in todo
  /\ Disturbed("deliver")
  /\ todo' = todo \ {r}
  /\ passedBy' = passedBy \cup (Unheard \cap {r})
  /\ UNCHANGED <<part, pending, pc, poll, alert, told, seen, published>>

\* SetFlightPartAlertSig, after every delivery has been attempted.
Stamp ==
  /\ pc = "dispatch" /\ todo = {}
  /\ \/ sig' = alert.sig /\ UNCHANGED left
     \/ Disturbed("write") /\ sig' = sig
  /\ EndPoll
  /\ UNCHANGED <<row, now, pending, history>>

-----------------------------------------------------------------------------
(* What else may happen *)

\* The process dies and restarts: the tracker is empty, the database is not.
Crash ==
  /\ Disturbed("crash")
  /\ pending' = [e \in Ends |-> NoPending]
  /\ EndPoll /\ CutShort
  /\ UNCHANGED <<part, told, seen, published>>

\* guard recovers a panic: the poll is over, the tracker is not.
Panic ==
  /\ pc # "idle"
  /\ Disturbed("panic")
  /\ EndPoll /\ CutShort
  /\ UNCHANGED <<part, pending, told, seen, published>>

\* The instants of a route update: each end's given time, anchored if the
\* provider named the departure's zone.
Rerouted(t, report, zoned) ==
  [t EXCEPT !.scheduledOut = First(report.scheduledOut, @),
            !.scheduledIn = First(report.scheduledIn, @), !.floating = @ /\ ~zoned]

\* reresolveFlightPart: the traveller types another flight number and the row
\* takes that flight's route and schedule; the status and live times stay.
EditIdent(report) ==
  /\ Disturbed("edit")
  /\ \/ \E zoned \in BOOLEAN :
          row' = [row EXCEPT !.gate = Overwrite(@, report.gate),
                             !.term = Overwrite(@, report.term),
                             !.times = Rerouted(@, report, zoned), !.resolved = TRUE]
     \/ row' = [row EXCEPT !.resolved = FALSE]
  /\ UNCHANGED <<sig, now, pending, pc, poll, alert, todo, history>>

DismissPlanPart ==
  /\ Disturbed("dismiss")
  /\ row' = [row EXCEPT !.dismissed = TRUE]
  /\ UNCHANGED <<sig, now, pending, pc, poll, alert, todo, history>>

PollStep ==
  \/ \E mode \in Modes : StartPoll(mode)
  \/ Prune
  \/ \E report \in Reports : Resolve(report)
  \/ WriteGate \/ WriteBelt \/ WriteTimes \/ WriteVerdict \/ WriteTerminal \/ Confirm
  \/ RefreshStatus
  \/ NothingToTell \/ Announce \/ (\E r \in Recipients : Deliver(r)) \/ Stamp

Trouble ==
  \/ ResolveFails \/ WriteFails \/ RereadFails \/ RowUnread \/ AlertReadFails
  \/ (\E r \in Recipients : DeliveryFails(r))
  \/ Crash \/ Panic
  \/ (\E report \in Reports : EditIdent(report)) \/ DismissPlanPart

Next == Advance \/ PollStep \/ Trouble

Spec == Init /\ [][Next]_vars

\* The tickers never stop and each step of a poll returns; time passes whatever
\* the poller does, which is strong fairness where a step is taken as instant.
FairSpec == Spec /\ SF_vars(Advance) /\ WF_vars(PollStep)
-----------------------------------------------------------------------------
TypeOK ==
  /\ row \in RowType
  /\ sig \in SigType
  /\ now \in 0..MaxNow
  /\ pending \in [Ends -> PendingType]
  /\ pc \in Steps \cup {"idle"}
  /\ poll \in [mode : Modes \cup {"none"}, at : 0..MaxNow, prev : RowType \cup {None},
               report : ReportType \cup {None}, fresh : BOOLEAN]
  /\ alert \in [kind : Kinds \cup {"none"}, sig : SigType, delay : Nat]
  /\ todo \subseteq Recipients
  /\ told \in [Recipients -> SigType]
  /\ seen \in [Ends -> TerminalOrNone]
  /\ published \in Nat
  /\ passedBy \subseteq Recipients
  /\ left \in 0..MaxLeft

\* Where a poll stands: it has a snapshot, and an answer while it stores one.
PollInv ==
  /\ pc # "idle" => poll.mode \in Modes /\ poll.prev \in RowType
  /\ pc \in {"gate", "belt", "times", "verdict", "terminal", "confirm"}
       => poll.report \in ReportType

(***************************************************************************)
(* A pending terminal change is a real one, and what it waits for is       *)
(* exactly what the last fresh report left in the row, whatever was lost,  *)
(* interrupted or edited since (settle, terminalTracker).                  *)
(***************************************************************************)
PendingSound ==
  \A e \in Ends : pending[e] # NoPending =>
    /\ terminalChanged(pending[e].from, pending[e].to)
    /\ seen[e] = pending[e].to

(***************************************************************************)
(* An unconfirmed terminal never gets into the signature being announced:  *)
(* it would swallow its own confirmation later (evaluateAlert).            *)
(***************************************************************************)
UnconfirmedNotAnnounced ==
  pc = "dispatch" => \A e \in Ends :
    pending[e] # NoPending => alert.sig.term[e] = pending[e].from

(***************************************************************************)
(* A terminal alert is never raised on one sighting: the comparison that   *)
(* announces it found the terminal the previous fresh comparison found,    *)
(* with any number of throttled, failed or interrupted polls between.      *)
(***************************************************************************)
TerminalSeenTwice ==
  [][pc = "alert" /\ pc' = "dispatch" /\ alert'.kind = "terminal"
       => \E e \in Ends : row.term[e] # None /\ row.term[e] = seen[e]]_vars

(***************************************************************************)
(* Nobody is about to be told what he was told last: the dedupe works      *)
(* across polls and across recipients with different thresholds.  Only one *)
(* who was left out of a delay alert since may hear of a terminal twice:   *)
(* the part's one signature has moved on, the terminal has moved away in   *)
(* the quiet period and come back outside it (maybeAlert).                 *)
(***************************************************************************)
NotToldTwice ==
  pc = "dispatch" => \A r \in todo :
    told[r] = alert.sig => alert.kind = "terminal" /\ told[r] # sig

(***************************************************************************)
(* An estimate withdrawn and restored is not a second delay: a delay alert *)
(* names a longer delay than the one published before it, whatever alerts  *)
(* were stamped while there was none (signatureCarryingDelay).             *)
(***************************************************************************)
DelayAlertIsNews ==
  [][pc = "alert" /\ pc' = "dispatch" /\ alert'.kind = "delayed"
       => alert'.delay > published]_vars

(***************************************************************************)
(* When a comparison finds nothing to tell, there is nothing: everyone has *)
(* been told of every gate the row holds, however the gate arrived there,  *)
(* whichever other change led the alert that named it (maybeAlert).        *)
(***************************************************************************)
NothingSwallowed ==
  [][pc = "alert" /\ pc' = "idle" =>
       \A e \in Ends, r \in Recipients : row.gate[e] \in {None, told[r].gate[e]}]_vars

(***************************************************************************)
(* A flight called off is told to everyone, thresholds or not, or its      *)
(* verdict has passed them by: nothing looks at the part again.  That      *)
(* happens only where the poll that stored it was the provisional sweep's, *)
(* was cut off, lost a statement after the verdict outside the tracking    *)
(* window, could not read what it needed, or reached them by no channel;   *)
(* a tracking poll tells it though a later statement failed (maybeAlert).  *)
(***************************************************************************)
VerdictTold ==
  row.status \in Terminal /\ pc = "idle" =>
    \A r \in Recipients : told[r].status = row.status \/ r \in passedBy

(***************************************************************************)
(* Every pending change is settled or forgotten: none is held for the life *)
(* of the process (prune).                                                 *)
(***************************************************************************)
PendingEnds == \A e \in Ends : pending[e] # NoPending ~> pending[e] = NoPending
=============================================================================
