------------------------ MODULE FlightAlerts_proofs ------------------------
(***************************************************************************)
(* Proofs about FlightAlerts, for every set of ends, gates, terminals,     *)
(* reports, recipients and disturbances, and every length of run.          *)
(***************************************************************************)
EXTENDS FlightAlerts, FlightStatus, TLAPS

\* A pending change names two known, different terminals.
IsChange(p) == terminalChanged(p.from, p.to)

(***************************************************************************)
(* The lemmas about settle (alerts.go): what it does to a pending change   *)
(* that is sound, and when it shows changeKind a moved terminal.           *)
(***************************************************************************)

SettleResult == [pend : PendingType, prev : TerminalOrNone, sig : TerminalOrNone]

\* settle returns a pending change, or none, and two terminals.
LEMMA SettleType ==
  ASSUME NEW p \in PendingType, NEW prev \in TerminalOrNone, NEW cur \in TerminalOrNone,
         NEW reported \in BOOLEAN, NEW quiet \in BOOLEAN, NEW moved \in BOOLEAN
  PROVE  settle(p, prev, cur, reported, quiet, moved) \in SettleResult
  BY SMT, AlertsAssumption
     DEF SettleResult, settle, PendingType, NoPending, IsChange, terminalChanged, gateChanged, TerminalOrNone

\* Whatever settle leaves pending is a real change, and the signature it asks
\* for then carries the terminal the change moves from.
LEMMA SettleSound ==
  ASSUME NEW p \in PendingType, NEW prev \in TerminalOrNone, NEW cur \in TerminalOrNone,
         NEW reported \in BOOLEAN, NEW quiet \in BOOLEAN, NEW moved \in BOOLEAN,
         p # NoPending => IsChange(p),
         settle(p, prev, cur, reported, quiet, moved).pend # NoPending
  PROVE  /\ IsChange(settle(p, prev, cur, reported, quiet, moved).pend)
         /\ settle(p, prev, cur, reported, quiet, moved).sig
              = settle(p, prev, cur, reported, quiet, moved).pend.from
  BY SMT, AlertsAssumption
     DEF settle, PendingType, NoPending, IsChange, terminalChanged, gateChanged, TerminalOrNone

\* What a pending change waits for is the terminal of the last fresh poll.
LEMMA SettleWaitsForLastSeen ==
  ASSUME NEW p \in PendingType, NEW prev \in TerminalOrNone, NEW cur \in TerminalOrNone,
         NEW reported \in BOOLEAN, NEW quiet \in BOOLEAN, NEW moved \in BOOLEAN,
         NEW last \in TerminalOrNone,
         p # NoPending => IsChange(p) /\ last = p.to
  PROVE  LET s == settle(p, prev, cur, reported, quiet, moved)
         IN s.pend # NoPending
              => s.pend.to = IF reported /\ cur # None THEN cur ELSE last
  BY SMT, AlertsAssumption
     DEF settle, PendingType, NoPending, IsChange, terminalChanged, gateChanged, TerminalOrNone

\* A moved terminal reaches changeKind only when a pending change is confirmed,
\* or when the gate at that end moved with it.
LEMMA SettleAnnouncesConfirmed ==
  ASSUME NEW p \in PendingType, NEW prev \in TerminalOrNone, NEW cur \in TerminalOrNone,
         NEW reported \in BOOLEAN, NEW quiet \in BOOLEAN, NEW moved \in BOOLEAN,
         terminalChanged(settle(p, prev, cur, reported, quiet, moved).prev, cur)
  PROVE  moved \/ (p # NoPending /\ cur = p.to)
  BY SMT, AlertsAssumption
     DEF settle, PendingType, NoPending, IsChange, terminalChanged, gateChanged, TerminalOrNone

(***************************************************************************)
(* The types of what the steps store.                                      *)
(***************************************************************************)

LEMMA StatusType ==
  ASSUME NEW s \in Status, NEW f, NEW n
  PROVE  DerivedStatus(s, f, n) \in Status
  BY DEF DerivedStatus, Status, Terminal

LEMMA TimesStored ==
  ASSUME NEW t \in FlightTimesType, NEW r \in ReportType
  PROVE  ArrivalStored(t, r) \in FlightTimesType /\ DepartureStored(t, r) \in FlightTimesType
  BY DEF ArrivalStored, DepartureStored, First, FlightTimesType, ReportType, MaybeInstant, Instant

LEMMA OverwriteType ==
  ASSUME NEW S, NEW old \in [Ends -> S], NEW new \in [Ends -> S]
  PROVE  Overwrite(old, new) \in [Ends -> S]
  BY DEF Overwrite

LEMMA RescheduledType ==
  ASSUME NEW r \in RowType, NEW report \in ReportType
  PROVE  Rescheduled(r, report) \in RowType
<1>1. CASE ~r.resolved /\ report.scheduledOut # NoTime
           /\ report.scheduledIn > report.scheduledOut
  <2> DEFINE t == [r.times EXCEPT !.scheduledOut = report.scheduledOut,
                                  !.scheduledIn = report.scheduledIn, !.floating = FALSE]
  <2>1. report.scheduledOut \in Nat /\ report.scheduledIn \in Nat
    BY <1>1 DEF ReportType, MaybeInstant, Instant, NoTime
  <2>2. r.times \in FlightTimesType
    BY DEF RowType
  <2>3. t \in FlightTimesType
    BY <2>1, <2>2 DEF FlightTimesType, Instant
  <2>4. Rescheduled(r, report) = [r EXCEPT !.times = t]
    BY <1>1 DEF Rescheduled
  <2> HIDE DEF t
  <2>5. QED  BY <2>3, <2>4 DEF RowType
<1>2. CASE ~(~r.resolved /\ report.scheduledOut # NoTime
             /\ report.scheduledIn > report.scheduledOut)
  BY <1>2 DEF Rescheduled
<1>3. QED  BY <1>1, <1>2

\* The state alerts are decided on, as snapshot builds it.
StateType ==
  [status : Status, delay : Nat \cup {NoDelay}, departed : BOOLEAN,
   gate : [Ends -> GateOrNone], term : [Ends -> TerminalOrNone], belt : BeltOrNone]

LEMMA SnapshotType ==
  ASSUME NEW r \in RowType
  PROVE  snapshot(r) \in StateType
<1>1. r.times \in FlightTimesType
  BY DEF RowType
<1>2. DepartureDelay(r.times) \in Int
  BY <1>1 DEF DepartureDelay, Revised, FlightTimesType, MaybeInstant, Instant, NoTime
<1>3. QED  BY <1>2 DEF snapshot, StateType, RowType, NoDelay

LEMMA SignatureType ==
  ASSUME NEW st \in StateType, NEW last \in SigType
  PROVE  signature(st, last) \in SigType
  BY DEF signature, StateType, SigType, Status, Terminal

LEMMA MinutesType ==
  ASSUME NEW d \in Nat \cup {NoDelay}
  PROVE  Minutes(d) \in Nat
  BY DEF Minutes, NoDelay

-----------------------------------------------------------------------------
(***************************************************************************)
(* The inductive invariant.  PendingSound alone is not inductive: a        *)
(* comparison needs the snapshot (PollInv), and what an alert under way    *)
(* carries (UnconfirmedNotAnnounced) is only known from the settle that    *)
(* raised it, steps before it is stamped.                                  *)
(***************************************************************************)
IInv == TypeOK /\ PollInv /\ PendingSound /\ UnconfirmedNotAnnounced

PollType == [mode : Modes \cup {"none"}, at : 0..MaxNow, prev : RowType \cup {None},
             report : ReportType \cup {None}, fresh : BOOLEAN]

LEMMA ConstantTypes ==
  /\ NoSig \in SigType /\ NoPending \in PendingType /\ NoPoll \in PollType
  /\ NoAlert \in [kind : Kinds \cup {"none"}, sig : SigType, delay : Nat]
  /\ MaxNow \in Nat /\ MaxLeft \in Nat
  BY AlertsAssumption
     DEF NoSig, SigType, NoPending, PendingType, NoPoll, PollType, NoAlert, NoDelay,
         TerminalOrNone, GateOrNone, BeltOrNone

\* Initially everything is empty.
LEMMA InitInv == Init => IInv
<1> SUFFICES ASSUME Init PROVE IInv
  OBVIOUS
<1>1. row \in RowType
  <2>1. row.times \in FlightTimesType
    BY AlertsAssumption DEF Init
  <2>2. QED  BY <2>1, AlertsAssumption DEF Init, RowType, Status, GateOrNone, TerminalOrNone, BeltOrNone
<1>2. TypeOK
  BY <1>1, ConstantTypes DEF Init, TypeOK, PollType, TerminalOrNone
<1>3. QED
  BY <1>2 DEF Init, IInv, PollInv, PendingSound, UnconfirmedNotAnnounced

\* A poll that ends leaves nothing under way.
LEMMA EndOfPoll ==
  ASSUME EndPoll
  PROVE  /\ pc' = "idle" /\ poll' \in PollType /\ todo' = {}
         /\ alert' \in [kind : Kinds \cup {"none"}, sig : SigType, delay : Nat]
         /\ PollInv' /\ UnconfirmedNotAnnounced'
  BY ConstantTypes DEF EndPoll, PollInv, UnconfirmedNotAnnounced

\* A disturbance uses up one of those that are left.
LEMMA DisturbedType ==
  ASSUME TypeOK, NEW kind, Disturbed(kind)
  PROVE  left' \in 0..MaxLeft
  BY ConstantTypes DEF TypeOK, Disturbed

\* Whom a verdict passed by are recipients.
LEMMA CutType ==
  ASSUME TypeOK, CutShort \/ UNCHANGED passedBy
  PROVE  passedBy' \subseteq Recipients
  BY DEF CutShort, Unheard, TypeOK

\* A step of resolveAndUpdate that fails either ends the poll or goes on to
\* the status refresh with the poll's locals as they were.
LEMMA AbandonInv ==
  ASSUME IInv, Abandon, UNCHANGED pending, pc # "idle"
  PROVE  /\ pc' \in {"idle", "status"} /\ poll' \in PollType /\ todo' \subseteq Recipients
         /\ passedBy' \subseteq Recipients
         /\ alert' \in [kind : Kinds \cup {"none"}, sig : SigType, delay : Nat]
         /\ PollInv' /\ UnconfirmedNotAnnounced'
<1>0. passedBy' \subseteq Recipients
  BY CutType DEF Abandon, IInv
<1>1. CASE poll.mode = "sweep"
  BY <1>0, <1>1, EndOfPoll DEF Abandon
<1>2. CASE poll.mode # "sweep"
  BY <1>0, <1>2 DEF Abandon, IInv, TypeOK, PollType, PollInv, UnconfirmedNotAnnounced
<1>3. QED  BY <1>1, <1>2

\* The steps that only store something in the row, or only move the poll on:
\* they leave the tracker and the history alone.
LEMMA StoringStep ==
  ASSUME IInv, row' \in RowType, UNCHANGED <<sig, now, pending, history>>,
         left' \in 0..MaxLeft, pc' \in Steps \cup {"idle"}, poll' \in PollType,
         alert' \in [kind : Kinds \cup {"none"}, sig : SigType, delay : Nat],
         todo' \subseteq Recipients, PollInv', UnconfirmedNotAnnounced'
  PROVE  IInv'
  BY DEF IInv, TypeOK, PollType, PendingSound, history

\* The same where a poll is cut short.
LEMMA CutStep ==
  ASSUME IInv, row' \in RowType, UNCHANGED <<sig, now, pending, told, seen, published>>,
         passedBy' \subseteq Recipients,
         left' \in 0..MaxLeft, pc' \in Steps \cup {"idle"}, poll' \in PollType,
         alert' \in [kind : Kinds \cup {"none"}, sig : SigType, delay : Nat],
         todo' \subseteq Recipients, PollInv', UnconfirmedNotAnnounced'
  PROVE  IInv'
  BY DEF IInv, TypeOK, PollType, PendingSound

-----------------------------------------------------------------------------
(***************************************************************************)
(* The comparison.                                                         *)
(***************************************************************************)

\* What settle returned for an end, in any state the invariant allows.
LEMMA SettledEnd ==
  ASSUME IInv, pc = "alert", NEW e \in Ends
  PROVE  /\ Settled[e].pend \in PendingType
         /\ Settled[e].prev \in TerminalOrNone
         /\ Settled[e].sig \in TerminalOrNone
         /\ Settled[e].pend # NoPending =>
              /\ IsChange(Settled[e].pend)
              /\ Settled[e].sig = Settled[e].pend.from
              /\ Settled[e].pend.to
                   = IF poll.fresh /\ row.term[e] # None THEN row.term[e] ELSE seen[e]
         /\ terminalChanged(Settled[e].prev, row.term[e]) =>
              \/ gateChanged(poll.prev.gate[e], row.gate[e])
              \/ pending[e] # NoPending /\ row.term[e] = pending[e].to
<1> DEFINE quiet == snapshot(row).departed \/ InQuietPeriod(row.times, now)
           moved == gateChanged(poll.prev.gate[e], row.gate[e])
<1>1. Settled[e] = settle(pending[e], poll.prev.term[e], row.term[e], poll.fresh, quiet, moved)
  BY DEF Settled
<1>2. /\ pending[e] \in PendingType
      /\ poll.prev.term[e] \in TerminalOrNone
      /\ row.term[e] \in TerminalOrNone
      /\ poll.fresh \in BOOLEAN
      /\ seen[e] \in TerminalOrNone
  BY DEF IInv, TypeOK, PollInv, RowType
<1>3. quiet \in BOOLEAN /\ moved \in BOOLEAN
  BY DEF InQuietPeriod, gateChanged, snapshot
<1>4. pending[e] # NoPending => IsChange(pending[e]) /\ seen[e] = pending[e].to
  BY DEF IInv, PendingSound, IsChange
<1> HIDE DEF quiet, moved
<1>5. Settled[e] \in SettleResult
  BY <1>1, <1>2, <1>3, SettleType
<1>9. Settled[e].pend # NoPending
         => IsChange(Settled[e].pend) /\ Settled[e].sig = Settled[e].pend.from
  BY <1>1, <1>2, <1>3, <1>4, SettleSound
<1>6. Settled[e].pend # NoPending =>
        Settled[e].pend.to = IF poll.fresh /\ row.term[e] # None THEN row.term[e] ELSE seen[e]
  BY <1>1, <1>2, <1>3, <1>4, SettleWaitsForLastSeen
<1>7. terminalChanged(Settled[e].prev, row.term[e]) =>
        moved \/ (pending[e] # NoPending /\ row.term[e] = pending[e].to)
  BY <1>1, <1>2, <1>3, SettleAnnouncesConfirmed
<1>8. QED  BY <1>5, <1>9, <1>6, <1>7 DEF moved, SettleResult

\* The state whose signature is compared and stamped has the type of a state.
LEMMA SigStateType ==
  ASSUME IInv, pc = "alert"
  PROVE  SigState \in StateType /\ signature(SigState, sig) \in SigType
<1>1. snapshot(row) \in StateType
  BY SnapshotType DEF IInv, TypeOK
<1>2. [e \in Ends |-> Settled[e].sig] \in [Ends -> TerminalOrNone]
  BY SettledEnd
<1>3. SigState \in StateType
  BY <1>1, <1>2 DEF SigState, StateType
<1>4. QED  BY <1>3, SignatureType DEF IInv, TypeOK

\* The comparison keeps the tracker and the history sound.
LEMMA CompareInv ==
  ASSUME IInv, Compare
  PROVE  /\ pending' \in [Ends -> PendingType]
         /\ seen' \in [Ends -> TerminalOrNone]
         /\ published' \in Nat
         /\ PendingSound'
<1>1. pc = "alert"
  BY DEF Compare
<1>2. pending' = [e \in Ends |-> Settled[e].pend]
      /\ seen' = [e \in Ends |-> IF poll.fresh /\ row.term[e] # None THEN row.term[e] ELSE seen[e]]
  BY DEF Compare
<1>3. pending' \in [Ends -> PendingType]
  BY <1>1, <1>2, SettledEnd
<1>4. seen' \in [Ends -> TerminalOrNone]
  <2>1. ASSUME NEW e \in Ends PROVE row.term[e] \in TerminalOrNone /\ seen[e] \in TerminalOrNone
    BY DEF IInv, TypeOK, RowType
  <2>2. QED  BY <1>2, <2>1
<1>5. published' \in Nat
  <2>1. snapshot(row).delay \in Nat \cup {NoDelay}
    BY SnapshotType DEF IInv, TypeOK, StateType
  <2>2. QED  BY <2>1 DEF Compare, IInv, TypeOK, NoDelay
<1>6. PendingSound'
  <2> SUFFICES ASSUME NEW e \in Ends, pending'[e] # NoPending
               PROVE  terminalChanged(pending'[e].from, pending'[e].to) /\ seen'[e] = pending'[e].to
    BY DEF PendingSound
  <2>1. pending'[e] = Settled[e].pend
        /\ seen'[e] = IF poll.fresh /\ row.term[e] # None THEN row.term[e] ELSE seen[e]
    BY <1>2
  <2>2. QED  BY <1>1, <2>1, SettledEnd DEF IsChange
<1>7. QED  BY <1>3, <1>4, <1>5, <1>6

\* A comparison that ends the poll preserves the invariant.
LEMMA QuietCompare ==
  ASSUME IInv, Compare, EndPoll, left' \in 0..MaxLeft, passedBy' \subseteq Recipients
  PROVE  IInv'
<1>1. PollInv' /\ UnconfirmedNotAnnounced'
  BY EndOfPoll
<1>2. TypeOK'
  BY CompareInv, EndOfPoll DEF TypeOK, PollType, IInv, Compare, part
<1>3. QED  BY <1>1, <1>2, CompareInv DEF IInv

\* An announcement carries the last stable terminal of every pending end.
LEMMA AnnounceInv == IInv /\ Announce => IInv'
<1> SUFFICES ASSUME IInv, Announce PROVE IInv'
  OBVIOUS
<1>1. pc = "alert" /\ Compare /\ pc' = "dispatch" /\ UNCHANGED <<poll, left>>
  BY DEF Announce, Compare
<1>2. Kind \in Kinds \cup {"none"}
  BY DEF Kind, changeKind, Kinds
<1>3. Minutes(SigState.delay) \in Nat
  BY <1>1, SigStateType, MinutesType DEF StateType
<1>4. alert' \in [kind : Kinds \cup {"none"}, sig : SigType, delay : Nat]
  BY <1>1, <1>2, <1>3, SigStateType DEF Announce
<1>5. TypeOK'
  BY <1>1, <1>4, CompareInv DEF TypeOK, IInv, Announce, Compare, part, Steps
<1>6. PollInv'
  BY <1>1 DEF PollInv, IInv
<1>7. UnconfirmedNotAnnounced'
  <2> SUFFICES ASSUME NEW e \in Ends, pending'[e] # NoPending
               PROVE  alert'.sig.term[e] = pending'[e].from
    BY DEF UnconfirmedNotAnnounced
  <2>1. pending'[e] = Settled[e].pend
    BY DEF Announce, Compare
  <2>2. alert'.sig.term = SigState.term
    BY DEF Announce, signature
  <2>3. SigState.term[e] = Settled[e].sig
    <3>1. snapshot(row) \in StateType
      BY SnapshotType DEF IInv, TypeOK
    <3>2. QED  BY <3>1 DEF SigState, StateType
  <2>4. QED  BY <1>1, <2>1, <2>2, <2>3, SettledEnd
<1>8. QED  BY <1>1, <1>5, <1>6, <1>7, CompareInv DEF IInv

-----------------------------------------------------------------------------
(***************************************************************************)
(* Every other step.                                                       *)
(***************************************************************************)

\* A step that only moves the poll on from pc to the next statement.
LEMMA GotoInv ==
  ASSUME IInv, NEW step \in Steps \ {"dispatch"}, Goto(step), pc # "idle",
         step \in {"gate", "belt", "times", "verdict", "terminal", "confirm"}
           => poll.report \in ReportType
  PROVE  /\ pc' \in Steps \cup {"idle"} /\ poll' \in PollType /\ todo' \subseteq Recipients
         /\ alert' \in [kind : Kinds \cup {"none"}, sig : SigType, delay : Nat]
         /\ PollInv' /\ UnconfirmedNotAnnounced'
  BY DEF IInv, TypeOK, PollType, Goto, PollInv, UnconfirmedNotAnnounced

\* Starting a poll, being answered, and forgetting a part nobody lists.
LEMMA PollInvBegins ==
  /\ \A mode \in Modes : IInv /\ StartPoll(mode) => IInv'
  /\ \A report \in Reports : IInv /\ Resolve(report) => IInv'
  /\ IInv /\ Prune => IInv'
<1>1. ASSUME NEW mode \in Modes, IInv, StartPoll(mode) PROVE IInv'
  <2>1. poll' \in PollType /\ poll'.mode = mode /\ poll'.prev = row
    BY <1>1 DEF StartPoll, NoPoll, PollType, IInv, TypeOK
  <2>2. pc' \in {"resolve", "status"}
    BY <1>1 DEF StartPoll
  <2>3. PollInv' /\ UnconfirmedNotAnnounced'
    BY <1>1, <2>1, <2>2 DEF PollInv, UnconfirmedNotAnnounced, IInv, TypeOK
  <2>4. row' \in RowType /\ left' \in 0..MaxLeft /\ todo' \subseteq Recipients
        /\ alert' \in [kind : Kinds \cup {"none"}, sig : SigType, delay : Nat]
        /\ UNCHANGED <<sig, now, pending, history>>
    BY <1>1 DEF StartPoll, IInv, TypeOK, part
  <2>5. QED  BY <1>1, <2>1, <2>2, <2>3, <2>4, StoringStep DEF Steps
<1>2. ASSUME NEW report \in Reports, IInv, Resolve(report) PROVE IInv'
  <2>1. report \in ReportType
    BY AlertsAssumption
  <2>2. pc = "resolve" /\ pc' = "gate"
    BY <1>2 DEF Resolve
  <2>3. poll' \in PollType /\ poll'.mode = poll.mode /\ poll'.prev = poll.prev
        /\ poll'.report = report
    BY <1>2, <2>1 DEF Resolve, PollType, IInv, TypeOK
  <2>4. PollInv' /\ UnconfirmedNotAnnounced'
    BY <1>2, <2>1, <2>2, <2>3 DEF PollInv, UnconfirmedNotAnnounced, IInv
  <2>5. row' \in RowType /\ left' \in 0..MaxLeft /\ todo' \subseteq Recipients
        /\ alert' \in [kind : Kinds \cup {"none"}, sig : SigType, delay : Nat]
        /\ UNCHANGED <<sig, now, pending, history>>
    BY <1>2 DEF Resolve, IInv, TypeOK, part
  <2>6. QED  BY <1>2, <2>2, <2>3, <2>4, <2>5, StoringStep DEF Steps
<1>3. ASSUME IInv, Prune PROVE IInv'
  BY <1>3, ConstantTypes
     DEF Prune, IInv, TypeOK, PollInv, PendingSound, UnconfirmedNotAnnounced, part, history
<1>4. QED  BY <1>1, <1>2, <1>3

\* The statements of resolveAndUpdate that succeed, and the status refresh.
LEMMA WritesInv ==
  IInv /\ (WriteGate \/ WriteBelt \/ WriteTimes \/ WriteVerdict \/ WriteTerminal) => IInv'
<1> SUFFICES ASSUME IInv, WriteGate \/ WriteBelt \/ WriteTimes \/ WriteVerdict \/ WriteTerminal
             PROVE  IInv'
  OBVIOUS
<1>1. row \in RowType /\ poll.report \in ReportType /\ left \in 0..MaxLeft
  BY DEF IInv, TypeOK, PollInv, WriteGate, WriteBelt, WriteTimes, WriteVerdict, WriteTerminal
<1>2. left' \in 0..MaxLeft
  BY <1>1, DisturbedType
     DEF WriteGate, WriteBelt, WriteTimes, WriteVerdict, WriteTerminal, IInv
<1>3. CASE WriteGate
  <2>1. Overwrite(row.gate, poll.report.gate) \in [Ends -> GateOrNone]
    BY <1>1, OverwriteType DEF RowType, ReportType
  <2>2. row' \in RowType
    BY <1>1, <1>3, <2>1 DEF WriteGate, RowType
  <2>3. QED  BY <1>1, <1>2, <1>3, <2>2, GotoInv, StoringStep DEF WriteGate, Steps
<1>4. CASE WriteBelt
  <2>1. row' \in RowType
    BY <1>1, <1>4 DEF WriteBelt, RowType, ReportType
  <2>2. QED  BY <1>1, <1>2, <1>4, <2>1, GotoInv, StoringStep DEF WriteBelt, Steps
<1>5. CASE WriteTimes
  <2>1. row.times \in FlightTimesType
    BY <1>1 DEF RowType
  <2>2. /\ ArrivalStored(row.times, poll.report) \in FlightTimesType
        /\ DepartureStored(row.times, poll.report) \in FlightTimesType
        /\ DepartureStored(ArrivalStored(row.times, poll.report), poll.report) \in FlightTimesType
    BY <1>1, <2>1, TimesStored
  <2>3. row' \in RowType
    BY <1>1, <1>5, <2>2 DEF WriteTimes, RowType
  <2>4. QED  BY <1>1, <1>2, <1>5, <2>3, GotoInv, StoringStep DEF WriteTimes, Steps
<1>6. CASE WriteVerdict
  <2>1. row' \in RowType
    BY <1>1, <1>6 DEF WriteVerdict, RowType, ReportType, Status
  <2>2. QED  BY <1>1, <1>2, <1>6, <2>1, GotoInv, StoringStep DEF WriteVerdict, Steps
<1>7. CASE WriteTerminal
  <2>1. Overwrite(row.term, poll.report.term) \in [Ends -> TerminalOrNone]
    BY <1>1, OverwriteType DEF RowType, ReportType
  <2>2. row' \in RowType
    BY <1>1, <1>7, <2>1 DEF WriteTerminal, RowType
  <2>3. QED  BY <1>1, <1>2, <1>7, <2>2, GotoInv, StoringStep DEF WriteTerminal, Steps
<1>8. QED  BY <1>3, <1>4, <1>5, <1>6, <1>7

\* The end of resolveAndUpdate, and RefreshFlightPartStatus.
LEMMA ConfirmInv == IInv /\ (Confirm \/ RereadFails \/ RefreshStatus) => IInv'
<1> SUFFICES ASSUME IInv, Confirm \/ RereadFails \/ RefreshStatus PROVE IInv'
  OBVIOUS
<1>1. row \in RowType /\ left \in 0..MaxLeft /\ pc \in {"confirm", "status"}
  BY DEF IInv, TypeOK, Confirm, RereadFails, RefreshStatus
<1>2. left' \in 0..MaxLeft
  BY <1>1, DisturbedType DEF Confirm, RereadFails, RefreshStatus, IInv
<1>3. ASSUME pc = "confirm"
      PROVE  /\ Rescheduled(row, poll.report) \in RowType
             /\ Marked(Rescheduled(row, poll.report)) \in RowType
             /\ Marked(row) \in RowType
  <2>1. poll.report \in ReportType
    BY <1>3 DEF IInv, PollInv
  <2>2. Rescheduled(row, poll.report) \in RowType
    BY <1>1, <2>1, RescheduledType
  <2>3. \A r \in RowType : Marked(r) \in RowType
    BY DEF Marked, RowType
  <2>4. QED  BY <1>1, <2>2, <2>3
<1>4. CASE Confirm
  <2>1. row' \in RowType
    BY <1>1, <1>3, <1>4 DEF Confirm
  <2>2. CASE poll.mode = "sweep"
    BY <1>2, <1>4, <2>1, <2>2, EndOfPoll, CutType, CutStep DEF Confirm, IInv
  <2>3. CASE poll.mode # "sweep"
    <3>1. pc' = "status" /\ UNCHANGED <<alert, todo>> /\ poll' = [poll EXCEPT !.fresh = TRUE]
      BY <1>4, <2>3 DEF Confirm
    <3>2. poll' \in PollType /\ PollInv' /\ UnconfirmedNotAnnounced'
      BY <1>4, <3>1 DEF Confirm, IInv, TypeOK, PollType, PollInv, UnconfirmedNotAnnounced
    <3>3. todo' \subseteq Recipients
          /\ alert' \in [kind : Kinds \cup {"none"}, sig : SigType, delay : Nat]
      BY <3>1 DEF IInv, TypeOK
    <3>4. UNCHANGED history
      BY <1>4, <2>3 DEF Confirm, history
    <3>5. QED  BY <1>2, <1>4, <2>1, <3>1, <3>2, <3>3, <3>4, StoringStep DEF Confirm, Steps
  <2>4. QED  BY <2>2, <2>3
<1>5. CASE RereadFails
  BY <1>2, <1>3, <1>5, AbandonInv, CutStep DEF RereadFails, Steps
<1>6. CASE RefreshStatus
  <2>1. row' \in RowType
    BY <1>1, <1>6, StatusType DEF RefreshStatus, RowType
  <2>2. CASE poll.mode = "refresh" \/ poll.fresh
    BY <1>2, <1>6, <2>1, <2>2, GotoInv, StoringStep DEF RefreshStatus, Steps
  <2>3. CASE ~(poll.mode = "refresh" \/ poll.fresh)
    BY <1>2, <1>6, <2>1, <2>3, EndOfPoll, StoringStep DEF RefreshStatus
  <2>4. QED  BY <2>2, <2>3
<1>7. QED  BY <1>4, <1>5, <1>6

\* The comparison's other outcomes, and the dispatch.
LEMMA AlertInv ==
  /\ IInv /\ (NothingToTell \/ AlertReadFails \/ RowUnread) => IInv'
  /\ \A r \in Recipients : IInv /\ (Deliver(r) \/ DeliveryFails(r)) => IInv'
  /\ IInv /\ Stamp => IInv'
<1>1. ASSUME IInv, NothingToTell \/ AlertReadFails \/ RowUnread PROVE IInv'
  <2>1. left' \in 0..MaxLeft
    BY <1>1, DisturbedType DEF NothingToTell, AlertReadFails, RowUnread, IInv, TypeOK
  <2>2. passedBy' \subseteq Recipients
    BY <1>1, CutType DEF NothingToTell, AlertReadFails, RowUnread, IInv
  <2>3. CASE NothingToTell \/ AlertReadFails
    BY <1>1, <2>1, <2>2, <2>3, QuietCompare DEF NothingToTell, AlertReadFails
  <2>4. CASE RowUnread
    BY <1>1, <2>1, <2>2, <2>4, EndOfPoll, CutStep DEF RowUnread, IInv, TypeOK, part
  <2>5. QED  BY <1>1, <2>3, <2>4
<1>2. ASSUME NEW r \in Recipients, IInv, Deliver(r) \/ DeliveryFails(r) PROVE IInv'
  <2>1. told' \in [Recipients -> SigType] /\ todo' \subseteq Recipients
        /\ passedBy' \subseteq Recipients
    BY <1>2 DEF Deliver, DeliveryFails, Unheard, IInv, TypeOK
  <2>2. left' \in 0..MaxLeft
    BY <1>2, DisturbedType DEF Deliver, DeliveryFails, IInv, TypeOK
  <2>3. UNCHANGED <<row, sig, now, pending, pc, poll, alert, seen, published>>
    BY <1>2 DEF Deliver, DeliveryFails, part
  <2>4. QED
    BY <1>2, <2>1, <2>2, <2>3 DEF IInv, TypeOK, PollInv, PendingSound, UnconfirmedNotAnnounced
<1>3. ASSUME IInv, Stamp PROVE IInv'
  <2>1. left' \in 0..MaxLeft /\ sig' \in SigType
    BY <1>3, DisturbedType DEF Stamp, IInv, TypeOK
  <2>2. QED
    BY <1>3, <2>1, EndOfPoll DEF Stamp, IInv, TypeOK, PollType, PendingSound, history
<1>4. QED  BY <1>1, <1>2, <1>3

\* What may go wrong, and what the traveller may do meanwhile.
LEMMA TroubleInv == IInv /\ Trouble => IInv'
<1> SUFFICES ASSUME IInv, Trouble PROVE IInv'
  OBVIOUS
<1>1. CASE ResolveFails \/ WriteFails
  <2>1. left' \in 0..MaxLeft /\ row' \in RowType
        /\ UNCHANGED <<sig, now, pending, told, seen, published>>
    BY <1>1, DisturbedType DEF ResolveFails, WriteFails, IInv, TypeOK, part
  <2>2. QED  BY <1>1, <2>1, AbandonInv, CutStep DEF ResolveFails, WriteFails, Steps
<1>2. CASE RereadFails
  BY <1>2, ConfirmInv
<1>3. CASE AlertReadFails \/ RowUnread \/ \E r \in Recipients : DeliveryFails(r)
  BY <1>3, AlertInv
<1>4. CASE Crash
  <2>1. left' \in 0..MaxLeft
    BY <1>4, DisturbedType DEF Crash, IInv
  <2>2. pending' \in [Ends -> PendingType] /\ PendingSound'
    BY <1>4, ConstantTypes DEF Crash, PendingSound
  <2>3. passedBy' \subseteq Recipients
    BY <1>4, CutType DEF Crash, IInv
  <2>4. QED
    BY <1>4, <2>1, <2>2, <2>3, EndOfPoll DEF Crash, IInv, TypeOK, PollType, part
<1>5. CASE Panic
  <2>1. left' \in 0..MaxLeft /\ row' \in RowType
        /\ UNCHANGED <<sig, now, pending, told, seen, published>>
    BY <1>5, DisturbedType DEF Panic, IInv, TypeOK, part
  <2>2. passedBy' \subseteq Recipients
    BY <1>5, CutType DEF Panic, IInv
  <2>3. QED  BY <1>5, <2>1, <2>2, EndOfPoll, CutStep DEF Panic
<1>6. CASE (\E report \in Reports : EditIdent(report)) \/ DismissPlanPart
  <2>1. left' \in 0..MaxLeft
    BY <1>6, DisturbedType DEF EditIdent, DismissPlanPart, IInv
  <2>2. row' \in RowType
    <3>1. row \in RowType
      BY DEF IInv, TypeOK
    <3>2. CASE DismissPlanPart
      BY <3>1, <3>2 DEF DismissPlanPart, RowType
    <3>3. CASE \E report \in Reports : EditIdent(report)
      <4>1. PICK report \in Reports : EditIdent(report)
        BY <3>3
      <4>2. report \in ReportType
        BY AlertsAssumption
      <4>3. Overwrite(row.gate, report.gate) \in [Ends -> GateOrNone]
            /\ Overwrite(row.term, report.term) \in [Ends -> TerminalOrNone]
        BY <3>1, <4>2, OverwriteType DEF RowType, ReportType
      <4>4. row.times \in FlightTimesType
        BY <3>1 DEF RowType
      <4>5. \A zoned \in BOOLEAN : Rerouted(row.times, report, zoned) \in FlightTimesType
        BY <4>2, <4>4
           DEF Rerouted, First, FlightTimesType, ReportType, MaybeInstant, Instant
      <4>6. QED  BY <3>1, <4>1, <4>3, <4>5 DEF EditIdent, RowType
    <3>4. QED  BY <1>6, <3>2, <3>3
  <2>3. UNCHANGED <<sig, now, pending, pc, poll, alert, todo, history>>
    BY <1>6 DEF EditIdent, DismissPlanPart
  <2>4. QED
    BY <2>1, <2>2, <2>3
       DEF IInv, TypeOK, PollInv, PendingSound, UnconfirmedNotAnnounced, history
<1>7. QED  BY <1>1, <1>2, <1>3, <1>4, <1>5, <1>6 DEF Trouble

\* Every step preserves the invariant: one case per kind of step.
LEMMA StepInv == IInv /\ [Next]_vars => IInv'
<1> SUFFICES ASSUME IInv, [Next]_vars PROVE IInv'
  OBVIOUS
<1>1. CASE Advance
  BY <1>1, ConstantTypes
     DEF Advance, IInv, TypeOK, PollInv, PendingSound, UnconfirmedNotAnnounced, history
<1>2. CASE PollStep
  BY <1>2, PollInvBegins, WritesInv, ConfirmInv, AlertInv, AnnounceInv DEF PollStep
<1>3. CASE Trouble
  BY <1>3, TroubleInv
<1>4. CASE UNCHANGED vars
  BY <1>4 DEF vars, IInv, TypeOK, PollInv, PendingSound, UnconfirmedNotAnnounced
<1>5. QED  BY <1>1, <1>2, <1>3, <1>4 DEF Next

(***************************************************************************)
(* The inductive invariant holds in every reachable state.                 *)
(***************************************************************************)
THEOREM Invariance == Spec => []IInv
<1>1. QED  BY InitInv, StepInv, PTL DEF Spec

-----------------------------------------------------------------------------
(***************************************************************************)
(* Every variable keeps its type: in particular no step stores a negative  *)
(* delay in the signature or a time that is neither an instant nor NULL.   *)
(***************************************************************************)
THEOREM TypeCorrect == Spec => []TypeOK
<1>1. IInv => TypeOK
  BY DEF IInv
<1>2. QED  BY Invariance, <1>1, PTL

(***************************************************************************)
(* A pending change is a real one, and waits for the terminal the last     *)
(* fresh comparison saw (terminalTracker, settle).                         *)
(***************************************************************************)
THEOREM PendingIsSound == Spec => []PendingSound
<1>1. IInv => PendingSound
  BY DEF IInv
<1>2. QED  BY Invariance, <1>1, PTL

(***************************************************************************)
(* No alert under way carries an unconfirmed terminal in its signature     *)
(* (evaluateAlert).                                                        *)
(***************************************************************************)
THEOREM NoUnconfirmedAnnounced == Spec => []UnconfirmedNotAnnounced
<1>1. IInv => UnconfirmedNotAnnounced
  BY DEF IInv
<1>2. QED  BY Invariance, <1>1, PTL

(***************************************************************************)
(* A terminal alert names a terminal that two fresh comparisons in a row   *)
(* have found in the row, whatever was throttled, lost, interrupted or     *)
(* edited between them (settle, changeKind).                               *)
(***************************************************************************)
THEOREM TerminalAlertsConfirmed == Spec => TerminalSeenTwice
<1> DEFINE Confirmed == \E e \in Ends : row.term[e] # None /\ row.term[e] = seen[e]
           Raised == pc = "alert" /\ pc' = "dispatch" /\ alert'.kind = "terminal"
<1>1. IInv /\ [Next]_vars => [Raised => Confirmed]_vars
  <2> SUFFICES ASSUME IInv, Next, Raised PROVE Confirmed
    BY DEF vars
  <2>1. Announce
    BY DEF Next, Advance, PollStep, Trouble, StartPoll, Prune, Resolve, WriteGate, WriteBelt,
           WriteTimes, WriteVerdict, WriteTerminal, Confirm, RefreshStatus, NothingToTell,
           Deliver, Stamp, ResolveFails, WriteFails, RereadFails, RowUnread, AlertReadFails,
           DeliveryFails, Crash, Panic, EditIdent, DismissPlanPart, EndPoll, Goto
  <2>2. Kind = "terminal"
    BY <2>1 DEF Announce
  <2>3. \A e \in Ends : ~gateChanged(poll.prev.gate[e], row.gate[e])
    BY <2>2 DEF Kind, changeKind, PrevState, snapshot, gateMoved, gateAssigned, gateChanged
  <2>4. PICK e \in Ends : terminalChanged(PrevState.term[e], snapshot(row).term[e])
    BY <2>2 DEF Kind, changeKind
  <2>5. PrevState.term[e] = Settled[e].prev /\ snapshot(row).term[e] = row.term[e]
    BY DEF PrevState, snapshot
  <2>6. pending[e] # NoPending /\ row.term[e] = pending[e].to
    BY <2>3, <2>4, <2>5, SettledEnd
  <2>7. QED
    BY <2>4, <2>5, <2>6 DEF IInv, PendingSound, terminalChanged, gateChanged
<1>2. QED  BY Invariance, <1>1, PTL DEF Spec, TerminalSeenTwice

-----------------------------------------------------------------------------
(***************************************************************************)
(* FlightStatus: the rule for the times of a flight, stated twice, for     *)
(* every timetable, every set of instants a provider may report and every  *)
(* admissible choice of the windows and the caps.                          *)
(***************************************************************************)

\* The types of what the tick reads and keeps.
StatusTypes ==
  /\ times \in FlightTimesType /\ status \in Status /\ clock \in Nat
  /\ polledAt \in MaybeInstant /\ tickAt \in Nat
  /\ pass \in Passes \cup {"rest"}
  /\ open \in BOOLEAN /\ marked \in BOOLEAN /\ owed \in BOOLEAN

\* A poll that ended in this tick left a mark no older than the tick.
MarkInv ==
  /\ tickAt <= clock
  /\ marked => polledAt >= tickAt

\* What a tick still owes a part is on one of the lists it has yet to read.
OwedInv ==
  owed => /\ Live(status) /\ tickAt >= times.scheduledOut - MetadataLead
          /\ \/ pass = "active"
             \/ pass = "metadata" /\ tickAt < times.scheduledOut - ActiveLead

\* Within a pass, an open poll is the first of its tick and owes nothing.
TickInv == StatusTypes /\ MarkInv /\ OwedInv /\ (open => ~marked /\ ~owed /\ pass # "rest")

\* The SQL and the Go name one arrival for times whose timetable is an instant.
LEMMA OneArrival ==
  ASSUME NEW f \in FlightTimesType, ~f.floating
  PROVE  SqlArrival(f) = EffectiveArrival(f)
<1>1. f.estimatedOut \in Int /\ f.scheduledIn \in Int /\ f.scheduledOut \in Int
  BY DEF FlightTimesType, MaybeInstant, Instant, NoTime
<1>2. TimetableArrival(f) = IF ~Timetabled(f) THEN NoTime
                            ELSE IF f.estimatedOut # NoTime
                                 THEN f.scheduledIn + (f.estimatedOut - f.scheduledOut)
                                 ELSE f.scheduledIn
  BY <1>1 DEF TimetableArrival, DepartureDelay, Revised
<1>3. CASE f.actualIn # NoTime
  BY <1>3 DEF SqlArrival, EffectiveArrival, First
<1>4. CASE f.actualIn = NoTime /\ f.estimatedIn # NoTime
           /\ f.estimatedIn > EffectiveDeparture(f)
  BY <1>4 DEF SqlArrival, EffectiveArrival, UsableEstimatedIn, First
<1>5. CASE f.actualIn = NoTime
           /\ ~(f.estimatedIn # NoTime /\ f.estimatedIn > EffectiveDeparture(f))
  BY <1>2, <1>5 DEF SqlArrival, EffectiveArrival, UsableEstimatedIn, First
<1>6. QED  BY <1>3, <1>4, <1>5

\* The instants the caps leave a part in the tracking set until, whatever the
\* estimates say: only the timetable and an actual departure move them.
LatestArrival(f) == f.scheduledIn + ArrivalSlipCap
LatestUnarrived(f) == First(f.actualOut, f.scheduledOut + DepartureSlipCap) + NoArrivalCap

LEMMA CapsHold ==
  ASSUME NEW f \in FlightTimesType
  PROVE  /\ ArrivedAfter(f) \in Int
         /\ ArrivedAfter(f) <= LatestArrival(f) \/ ArrivedAfter(f) <= LatestUnarrived(f)
<1> USE WindowsAssumption
<1>1. /\ {f.estimatedOut, f.scheduledIn, f.scheduledOut, f.actualOut, f.actualIn, f.estimatedIn} \subseteq Int
      /\ {ArrivalSlipCap, DepartureSlipCap, NoArrivalCap} \subseteq Nat
  BY DEF FlightTimesType, MaybeInstant, Instant, NoTime
<1>2. CASE SqlArrival(f) # NoTime
  <2>1. SqlArrival(f) \in Int
    BY <1>1 DEF SqlArrival, NoTime
  <2>2. ArrivedAfter(f) = Least(SqlArrival(f), f.scheduledIn + ArrivalSlipCap)
    BY <1>2 DEF ArrivedAfter
  <2>3. QED  BY <1>1, <2>1, <2>2 DEF Least, LatestArrival
<1>3. CASE SqlArrival(f) = NoTime
  <2>1. ArrivedAfter(f) = NoArrivalBaseline(f) + NoArrivalCap
    BY <1>3 DEF ArrivedAfter
  <2>2. /\ NoArrivalBaseline(f) \in Int
        /\ NoArrivalBaseline(f) <= First(f.actualOut, f.scheduledOut + DepartureSlipCap)
    BY <1>1 DEF NoArrivalBaseline, First, Least
  <2>3. First(f.actualOut, f.scheduledOut + DepartureSlipCap) \in Int
    BY <1>1 DEF First
  <2>4. QED  BY <1>1, <2>1, <2>2, <2>3 DEF LatestUnarrived
<1>4. QED  BY <1>2, <1>3

LEMMA StatusInitInv == StatusInit => TickInv
<1> SUFFICES ASSUME StatusInit PROVE TickInv
  OBVIOUS
<1>1. StatusTypes
  BY StatusAssumption DEF StatusInit, StatusTypes, Status, MaybeInstant, Instant, NoTime
<1>2. QED  BY <1>1 DEF StatusInit, TickInv, MarkInv, OwedInv

LEMMA NextPassType ==
  ASSUME StatusTypes, pass \in Passes, NextPass
  PROVE  pass' \in Passes \cup {"rest"} /\ (pass = "active" => pass' = "metadata")
         /\ (pass = "metadata" => pass' = "landed") /\ (pass = "landed" => pass' = "rest")
  BY DEF NextPass, Passes

\* New times of the right type leave all but the debt to look at.
LEMMA TimesStep ==
  ASSUME TickInv, times' \in FlightTimesType, owed' = FALSE,
         UNCHANGED <<status, polledAt, clock, pass, tickAt, open, marked>>
  PROVE  TickInv'
  BY DEF TickInv, StatusTypes, MarkInv, OwedInv

LEMMA StatusStepInv == TickInv /\ [StatusNext]_statusVars => TickInv'
<1> SUFFICES ASSUME TickInv, [StatusNext]_statusVars PROVE TickInv'
  OBVIOUS
<1>a. StatusTypes /\ MarkInv /\ OwedInv /\ (open => ~marked /\ ~owed /\ pass # "rest")
  BY DEF TickInv
<1>b. /\ clock \in Int /\ tickAt \in Int /\ polledAt \in Int /\ times.scheduledOut \in Int
      /\ {ActiveLead, MetadataLead} \subseteq Nat /\ ActiveLead <= MetadataLead
      /\ LandedInterval > 0 /\ Interval > 0 /\ RampInterval > 0
      /\ {LandedInterval, Interval, RampInterval} \subseteq Int
  BY <1>a, WindowsAssumption, StatusAssumption
     DEF StatusTypes, FlightTimesType, MaybeInstant, Instant, NoTime
<1>1. CASE Tick
  BY <1>1, <1>a, <1>b DEF Tick, flight, tick, TickInv, StatusTypes, MarkInv, OwedInv
<1>2. CASE BeginTick
  <2>1. pass' = "active" /\ tickAt' = clock /\ ~marked' /\ ~open
    BY <1>2, <1>a DEF BeginTick
  <2>2. owed' => Live(status) /\ clock >= times.scheduledOut - MetadataLead
    BY <1>2 DEF BeginTick
  <2>3. owed' \in BOOLEAN /\ UNCHANGED <<times, status, polledAt, clock, open>>
    BY <1>2 DEF BeginTick, flight
  <2>4. StatusTypes'
    BY <1>2, <1>a, <2>1, <2>3 DEF BeginTick, StatusTypes, Passes
  <2>5. MarkInv'
    BY <1>b, <2>1, <2>3 DEF MarkInv
  <2>6. OwedInv'
    BY <2>1, <2>2, <2>3 DEF OwedInv
  <2>7. QED  BY <2>1, <2>3, <2>4, <2>5, <2>6 DEF TickInv
<1>3. CASE TakeUp
  <2>1. ~marked
    <3>1. polledAt = NoTime \/ tickAt - polledAt > 0
      <4>1. minPollAge(pass) > 0 /\ minPollAge(pass) \in Int
        BY <1>b DEF minPollAge
      <4>2. polledAt = NoTime \/ tickAt - polledAt >= minPollAge(pass)
        BY <1>3 DEF TakeUp, Due
      <4> HIDE DEF minPollAge
      <4>3. QED  BY <4>1, <4>2, <1>b
    <3>2. polledAt = NoTime => polledAt < tickAt
      BY <1>a, <1>b DEF StatusTypes, NoTime
    <3>3. QED  BY <3>1, <3>2, <1>a, <1>b DEF MarkInv
  <2>2. pass # "rest"
    BY <1>3 DEF TakeUp, Passes
  <2>3. QED  BY <1>3, <1>a, <2>1, <2>2
            DEF TakeUp, flight, TickInv, StatusTypes, MarkInv, OwedInv
<1>4. CASE PassOver
  <2>1. /\ pass' \in Passes \cup {"rest"} /\ (pass = "active" => pass' = "metadata")
        /\ (pass = "metadata" => pass' = "landed") /\ (pass = "landed" => pass' = "rest")
    BY <1>4, <1>a, NextPassType DEF PassOver
  <2>2. owed' => owed /\ ~Listing(pass)
    BY <1>4 DEF PassOver
  <2>3. owed' \in BOOLEAN
    BY <1>4 DEF PassOver
  <2>4. StatusTypes' /\ MarkInv'
    BY <1>4, <1>a, <2>1, <2>3 DEF PassOver, flight, StatusTypes, MarkInv
  <2>5. OwedInv'
    <3> SUFFICES ASSUME owed' PROVE OwedInv'
      BY DEF OwedInv
    <3>1. /\ Live(status) /\ tickAt >= times.scheduledOut - MetadataLead /\ ~Listing(pass)
          /\ \/ pass = "active"
             \/ pass = "metadata" /\ tickAt < times.scheduledOut - ActiveLead
      BY <2>2, <1>a DEF OwedInv
    <3>2. CASE pass = "active"
      BY <3>1, <3>2, <2>1, <1>4, <1>b DEF Listing, InActive, OwedInv, PassOver, flight
    <3>3. CASE pass = "metadata" /\ tickAt < times.scheduledOut - ActiveLead
      BY <3>1, <3>3, <1>b DEF Listing, InMetadata
    <3>4. QED  BY <3>1, <3>2, <3>3
  <2>6. QED  BY <1>4, <2>4, <2>5 DEF PassOver, TickInv
<1>5. CASE Refresh
  <2>1. pass \in Passes
    BY <1>5, <1>a DEF Refresh, StatusTypes
  <2>2. pass' \in Passes \cup {"rest"}
    BY <1>5, <1>a, <2>1, NextPassType DEF Refresh
  <2>3. status' \in Status
    BY <1>5, <1>a, StatusType DEF Refresh, StatusTypes
  <2>4. ~owed'
    BY <1>5, <1>a DEF Refresh
  <2>5. QED  BY <1>5, <1>a, <1>b, <2>2, <2>3, <2>4
            DEF Refresh, TickInv, StatusTypes, MarkInv, OwedInv, MaybeInstant, Instant
<1>6. CASE RefreshLost
  <2>1. pass \in Passes
    BY <1>6, <1>a DEF RefreshLost, StatusTypes
  <2>2. pass' \in Passes \cup {"rest"}
    BY <1>6, <1>a, <2>1, NextPassType DEF RefreshLost
  <2>3. QED  BY <1>6, <1>a, <2>2
            DEF RefreshLost, flight, TickInv, StatusTypes, MarkInv, OwedInv
<1>7. CASE ListFails
  BY <1>7, <1>a DEF ListFails, flight, TickInv, StatusTypes, MarkInv, OwedInv
<1>8. ASSUME NEW estOut \in LiveInstants, NEW estIn \in LiveInstants,
             NEW actOut \in LiveInstants, NEW actIn \in LiveInstants,
             Revise(estOut, estIn, actOut, actIn)
      PROVE  TickInv'
  <2>1. {estOut, estIn, actOut, actIn} \subseteq MaybeInstant
    BY StatusAssumption
  <2>2. times' \in FlightTimesType
    BY <1>8, <1>a, <2>1 DEF Revise, StatusTypes, FlightTimesType, First
  <2>3. owed' = FALSE /\ UNCHANGED <<status, polledAt, clock, pass, tickAt, open, marked>>
    BY <1>8, <1>a DEF Revise, tick, StatusTypes
  <2>4. QED  BY <2>2, <2>3, TimesStep
<1>9. ASSUME NEW s \in Schedules, AdoptSchedule(s) \/ MoveSchedule(s)
      PROVE  TickInv'
  <2>1. s[1] \in Instant /\ s[2] \in Instant
    BY StatusAssumption
  <2>2. Moved(times, s) \in FlightTimesType
    BY <1>a, <2>1 DEF Moved, StatusTypes, FlightTimesType
  <2>3. times' \in FlightTimesType
    BY <1>9, <1>a, <2>2 DEF AdoptSchedule, MoveSchedule, StatusTypes
  <2>4. owed' = FALSE /\ UNCHANGED <<status, polledAt, clock, pass, tickAt, open, marked>>
    BY <1>9, <1>a DEF AdoptSchedule, MoveSchedule, tick, StatusTypes
  <2>5. QED  BY <2>3, <2>4, TimesStep
<1>10. CASE UNCHANGED statusVars
  BY <1>10, <1>a DEF statusVars, flight, tick, TickInv, StatusTypes, MarkInv, OwedInv
<1>11. QED
  BY <1>1, <1>2, <1>3, <1>4, <1>5, <1>6, <1>7, <1>8, <1>9, <1>10 DEF StatusNext, TickStep

\* The inductive invariant of the tick.
LEMMA TickInvariance == StatusSpec => []TickInv
  BY StatusInitInv, StatusStepInv, PTL DEF StatusSpec

\* A part's times, status and clock keep their types.
THEOREM StatusTypeCorrect == StatusSpec => []StatusTypes
<1>1. TickInv => StatusTypes
  BY DEF TickInv
<1>2. QED  BY <1>1, TickInvariance, PTL

(***************************************************************************)
(* The stored status is derived from the same arrival as the belt and the  *)
(* traveller's times are measured from (flightArrivalSQL and               *)
(* timing.Effective), in every state of every part.                        *)
(***************************************************************************)
THEOREM ArrivalAlwaysAgrees == StatusSpec => []ArrivalAgrees
<1>1. StatusTypes => ArrivalAgrees
  BY OneArrival DEF StatusTypes, ArrivalAgrees
<1>2. QED  BY <1>1, StatusTypeCorrect, PTL

(***************************************************************************)
(* Whatever a poll does to the part between the lists of its tick, the     *)
(* tick polls it again only if the mark of the first poll was lost; and    *)
(* between the lists falls no part a tick should look at, unless one could *)
(* not be read or a handler moved it.  For any windows of which the        *)
(* metadata one is the wider and any intervals above zero.                 *)
(***************************************************************************)
THEOREM TicksPollOnce == StatusSpec => []OncePerTick
<1>1. TickInv => OncePerTick
  BY DEF TickInv, OwedInv, OncePerTick
<1>2. QED  BY <1>1, TickInvariance, PTL

(***************************************************************************)
(* What EventuallyLeavesPollSet rests on: a poll past both capped instants *)
(* takes the part out of the tracking set, whatever estimates the provider *)
(* has sent (RefreshFlightPartStatus and its three caps).                  *)
(***************************************************************************)
THEOREM CapsReleaseThePart ==
  StatusSpec => [][Refresh /\ clock > LatestArrival(times) /\ clock > LatestUnarrived(times)
                     => ~Live(status')]_statusVars
<1>1. StatusTypes /\ [StatusNext]_statusVars
        => [Refresh /\ clock > LatestArrival(times) /\ clock > LatestUnarrived(times)
              => ~Live(status')]_statusVars
  <2> SUFFICES ASSUME StatusTypes, Refresh,
                      clock > LatestArrival(times), clock > LatestUnarrived(times)
               PROVE  ~Live(status')
    OBVIOUS
  <2>1. times \in FlightTimesType /\ clock \in Int
    BY DEF StatusTypes
  <2>2. LatestArrival(times) \in Int /\ LatestUnarrived(times) \in Int
    BY <2>1, WindowsAssumption
       DEF LatestArrival, LatestUnarrived, First, FlightTimesType, MaybeInstant, Instant, NoTime
  <2>3. clock > ArrivedAfter(times)
    BY <2>1, <2>2, CapsHold
  <2>4. QED  BY <2>3 DEF Refresh, DerivedStatus, Live, Terminal
<1>2. QED  BY <1>1, StatusTypeCorrect, PTL DEF StatusSpec

-----------------------------------------------------------------------------
(***************************************************************************)
(* A verdict and those it is for, whatever goes wrong.                     *)
(***************************************************************************)

\* DerivedStatus neither enters nor leaves a terminal status.
LEMMA DerivedKeepsTerminal ==
  ASSUME NEW s, NEW f, NEW n
  PROVE  /\ DerivedStatus(s, f, n) \in Terminal <=> s \in Terminal
         /\ DerivedStatus(DerivedStatus(s, f, n), f, n) = DerivedStatus(s, f, n)
  BY DEF DerivedStatus, Terminal

\* What changeKind's answer says of the two rows it compared, when the one the
\* poll began with was neither cancelled nor diverted.
LEMMA KindMeans ==
  ASSUME IInv, pc = "alert", poll.prev.status \notin Terminal
  PROVE  /\ row.status \in Terminal <=> Kind \in {"cancelled", "diverted"}
         /\ Kind \in {"gate", "gate_assigned"} =>
              \E e \in Ends : gateChanged(poll.prev.gate[e], row.gate[e])
         /\ Kind \in {"belt", "terminal", "delayed", "none"} =>
              \A e \in Ends : ~gateChanged(poll.prev.gate[e], row.gate[e])
         /\ Kind = "belt" => gateChanged(poll.prev.belt, row.belt)
         /\ Kind \in {"terminal", "delayed", "none"} => ~gateChanged(poll.prev.belt, row.belt)
         /\ Kind = "delayed" =>
              /\ snapshot(row).delay # NoDelay /\ ~snapshot(row).departed
              /\ Minutes(snapshot(row).delay) > Minutes(snapshot(poll.prev).delay)
         /\ Kind = "none" => ~(/\ snapshot(row).delay # NoDelay /\ ~snapshot(row).departed
                               /\ Minutes(snapshot(row).delay) > Minutes(snapshot(poll.prev).delay))
<1>1. /\ PrevState.status = poll.prev.status /\ PrevState.gate = poll.prev.gate
      /\ PrevState.belt = poll.prev.belt /\ PrevState.delay = snapshot(poll.prev).delay
  BY DEF PrevState, snapshot
<1>2. /\ snapshot(row).status = row.status /\ snapshot(row).gate = row.gate
      /\ snapshot(row).belt = row.belt
  BY DEF snapshot
<1>3. row.status \in Terminal <=> row.status \in {"Cancelled", "Diverted"}
  BY DEF Terminal
<1>4. poll.prev.status \notin {"Cancelled", "Diverted"}
  BY DEF Terminal
<1> DEFINE moved == \E e \in Ends : gateMoved(PrevState.gate[e], row.gate[e])
           assigned == \E e \in Ends : gateAssigned(PrevState.gate[e], row.gate[e])
           belt == gateChanged(PrevState.belt, row.belt)
           term == \E e \in Ends : terminalChanged(PrevState.term[e], snapshot(row).term[e])
           delay == /\ snapshot(row).delay # NoDelay /\ ~snapshot(row).departed
                    /\ Minutes(snapshot(row).delay) > Minutes(PrevState.delay)
<1>5. Kind = IF row.status = "Cancelled" /\ poll.prev.status # "Cancelled" THEN "cancelled"
             ELSE IF row.status = "Diverted" /\ poll.prev.status # "Diverted" THEN "diverted"
             ELSE IF moved THEN "gate" ELSE IF assigned THEN "gate_assigned"
             ELSE IF belt THEN "belt" ELSE IF term THEN "terminal"
             ELSE IF delay THEN "delayed" ELSE "none"
  BY <1>1, <1>2 DEF Kind, changeKind
<1>6. moved \/ assigned <=> \E e \in Ends : gateChanged(poll.prev.gate[e], row.gate[e])
  BY <1>1 DEF gateMoved, gateAssigned, gateChanged
<1>7. belt <=> gateChanged(poll.prev.belt, row.belt)
  BY <1>1
<1>8. delay <=> /\ snapshot(row).delay # NoDelay /\ ~snapshot(row).departed
                /\ Minutes(snapshot(row).delay) > Minutes(snapshot(poll.prev).delay)
  BY <1>1
<1> HIDE DEF moved, assigned, belt, term, delay
<1>9. QED  BY <1>3, <1>4, <1>5, <1>6, <1>7, <1>8

\* What the signature of the state compared says.
LEMMA NewSignature ==
  ASSUME IInv, pc = "alert"
  PROVE  LET s == signature(SigState, sig)
         IN /\ s.gate = row.gate /\ s.belt = row.belt
            /\ s.status = IF row.status \in Terminal THEN row.status ELSE "live"
            /\ s.delay = IF row.status \in Terminal THEN NoDelay
                         ELSE IF snapshot(row).delay = NoDelay THEN sig.delay
                         ELSE snapshot(row).delay
            /\ SigState.delay = snapshot(row).delay
<1>1. /\ SigState.status = row.status /\ SigState.gate = row.gate /\ SigState.belt = row.belt
      /\ SigState.delay = snapshot(row).delay
  BY DEF SigState, snapshot
<1>2. QED  BY <1>1 DEF signature

\* r has heard of the verdict in the row, or it has passed him by.
Reached(r) == told[r].status = row.status \/ r \in passedBy

\* A poll never begins on a verdict, and the one that stores it either compares
\* the row with what it was before, or has reached everyone in the only other way.
VerdictInv ==
  /\ VerdictTold
  /\ pc # "idle" => poll.prev.status \notin Terminal /\ sig.status \notin Terminal
  /\ sig.status \in Terminal => row.status \in Terminal
  /\ pc = "status" /\ poll.mode # "refresh" /\ ~poll.fresh /\ row.status \in Terminal
       => \A r \in Recipients : Reached(r)
  /\ pc = "dispatch" /\ row.status \in Terminal
       => alert.sig.status = row.status /\ \A r \in Recipients \ todo : Reached(r)
  /\ pc = "dispatch" /\ row.status \notin Terminal => alert.sig.status \notin Terminal

LEMMA VerdictInitially == Init => VerdictInv
  BY DEF Init, VerdictInv, VerdictTold, NoSig, Terminal

\* To be cut short is to have reached everyone.
LEMMA CutReaches ==
  ASSUME CutShort, row'.status = row.status, told' = told, row.status \in Terminal
  PROVE  \A r \in Recipients : Reached(r)'
  BY DEF CutShort, Unheard, Reached

\* A poll that is cut short and over.
LEMMA VerdictCut ==
  ASSUME VerdictInv, CutShort, EndPoll, row'.status = row.status, UNCHANGED <<sig, told>>
  PROVE  VerdictInv'
<1>1. row'.status \in Terminal => \A r \in Recipients : Reached(r)'
  BY CutReaches
<1>2. VerdictTold'
  BY <1>1 DEF VerdictTold, Reached
<1>3. QED  BY <1>2 DEF VerdictInv, EndPoll

\* A step within a poll that goes on to anything but the status, or the end.
LEMMA VerdictGoesOn ==
  ASSUME VerdictInv, pc # "idle", pc' \notin {"idle", "status", "dispatch"},
         poll'.prev = poll.prev, UNCHANGED sig
  PROVE  VerdictInv'
  BY DEF VerdictInv, VerdictTold

\* A step that leaves the poll, the status and what was told alone.
LEMMA VerdictStands ==
  ASSUME VerdictInv, row'.status = row.status, UNCHANGED <<sig, pc, poll, alert, todo, told, passedBy>>
  PROVE  VerdictInv'
  BY DEF VerdictInv, VerdictTold, Reached

\* resolveAndUpdate gives up.
LEMMA VerdictAbandoned ==
  ASSUME VerdictInv, Abandon, pc # "idle", row'.status = row.status, UNCHANGED <<sig, told>>
  PROVE  VerdictInv'
<1>1. CASE poll.mode = "sweep"
  BY <1>1, VerdictCut DEF Abandon
<1>2. CASE poll.mode # "sweep"
  <2>1. pc' = "status" /\ UNCHANGED poll
    BY <1>2 DEF Abandon
  <2>2. CASE poll.mode = "refresh"
    BY <2>1, <2>2 DEF VerdictInv, VerdictTold
  <2>3. CASE poll.mode # "refresh"
    <3>1. row.status \in Terminal => \A r \in Recipients : Reached(r)'
      BY <2>3, CutReaches DEF Abandon
    <3>2. QED  BY <2>1, <3>1 DEF VerdictInv, VerdictTold
  <2>4. QED  BY <2>2, <2>3
<1>3. QED  BY <1>1, <1>2

\* The steps before the comparison.
LEMMA VerdictBefore ==
  ASSUME IInv, VerdictInv,
         \/ Advance \/ Prune \/ (\E mode \in Modes : StartPoll(mode))
         \/ (\E report \in Reports : Resolve(report)) \/ WriteGate \/ WriteBelt \/ WriteTimes
         \/ WriteVerdict \/ WriteTerminal \/ Confirm \/ RefreshStatus
  PROVE  VerdictInv'
<1>0. row \in RowType /\ poll \in PollType
  BY DEF IInv, TypeOK, PollType
<1>1. CASE Advance \/ Prune
  BY <1>1, VerdictStands DEF Advance, Prune, part, history
<1>2. ASSUME NEW mode \in Modes, StartPoll(mode) PROVE VerdictInv'
  <2>1. /\ pc = "idle" /\ UNCHANGED <<row, sig, told, passedBy>>
        /\ poll'.prev = row /\ poll'.mode = mode
        /\ pc' \in {"resolve", "status"}
    BY <1>2 DEF StartPoll, NoPoll, part, history
  <2>2. row.status \notin Terminal
    BY <1>2 DEF StartPoll, Listed, Modes, InActive, InMetadata, InRecentlyArrived, InProvisional,
                Live, Terminal
  <2>3. QED  BY <2>1, <2>2 DEF VerdictInv, VerdictTold
<1>3. CASE (\E report \in Reports : Resolve(report)) \/ WriteGate \/ WriteBelt \/ WriteTimes
           \/ WriteVerdict \/ WriteTerminal
  <2>1. /\ pc # "idle" /\ pc' \in {"gate", "belt", "times", "verdict", "terminal", "confirm"}
        /\ poll'.prev = poll.prev /\ UNCHANGED sig
    BY <1>0, <1>3 DEF Resolve, WriteGate, WriteBelt, WriteTimes, WriteVerdict, WriteTerminal,
                      Goto, part, PollType
  <2>2. QED  BY <2>1, VerdictGoesOn
<1>4. CASE Confirm
  <2>1. row'.status = row.status
    <3>1. Rescheduled(row, poll.report) \in RowType
          /\ Rescheduled(row, poll.report).status = row.status
      <4>1. poll.report \in ReportType
        BY <1>4 DEF Confirm, IInv, PollInv
      <4>2. QED  BY <1>0, <4>1, RescheduledType DEF Rescheduled, RowType
    <3>2. \A r \in RowType : Marked(r).status = r.status
      BY DEF Marked, RowType
    <3>3. QED  BY <1>0, <1>4, <3>1, <3>2 DEF Confirm
  <2>2. CASE poll.mode = "sweep"
    BY <1>4, <2>1, <2>2, VerdictCut DEF Confirm
  <2>3. CASE poll.mode # "sweep"
    <3>1. /\ pc # "idle" /\ pc' = "status" /\ poll'.prev = poll.prev /\ poll'.fresh
          /\ UNCHANGED sig
      BY <1>0, <1>4, <2>3 DEF Confirm, PollType
    <3>2. QED  BY <2>1, <3>1 DEF VerdictInv, VerdictTold
  <2>4. QED  BY <2>2, <2>3
<1>5. CASE RefreshStatus
  <2>1. /\ pc = "status" /\ UNCHANGED <<sig, told, passedBy>>
        /\ row' \in {row, [row EXCEPT !.status = DerivedStatus(row.status, row.times, now)]}
    BY <1>5 DEF RefreshStatus, history
  <2>2. /\ row'.status \in Terminal <=> row.status \in Terminal
        /\ row.status \in Terminal => row'.status = row.status
    BY <1>0, <2>1, DerivedKeepsTerminal DEF RowType, DerivedStatus
  <2>3. CASE poll.mode = "refresh" \/ poll.fresh
    BY <1>5, <2>1, <2>3, VerdictGoesOn DEF RefreshStatus, Goto
  <2>4. CASE ~(poll.mode = "refresh" \/ poll.fresh)
    <3>1. pc' = "idle"
      BY <1>5, <2>4 DEF RefreshStatus, EndPoll
    <3>2. VerdictTold'
      BY <2>1, <2>2, <2>4 DEF VerdictInv, VerdictTold, Reached
    <3>3. QED  BY <2>1, <2>2, <3>1, <3>2 DEF VerdictInv
  <2>5. QED  BY <2>3, <2>4
<1>6. QED  BY <1>1, <1>2, <1>3, <1>4, <1>5

\* The comparison that finds nothing to tell found no verdict; the one that
\* finds a verdict tells it to everyone.
LEMMA VerdictCompared ==
  ASSUME IInv, VerdictInv, NothingToTell \/ Announce
  PROVE  VerdictInv'
<1>1. /\ pc = "alert" /\ poll.prev.status \notin Terminal /\ sig.status \notin Terminal
      /\ UNCHANGED <<row, sig, told, passedBy>>
  BY DEF NothingToTell, Announce, Compare, part, VerdictInv
<1>2. /\ row.status \in Terminal <=> Kind \in {"cancelled", "diverted"}
      /\ signature(SigState, sig).status = IF row.status \in Terminal THEN row.status ELSE "live"
  BY <1>1, KindMeans, NewSignature
<1>3. CASE NothingToTell
  <2>1. row.status \notin Terminal
    BY <1>1, <1>2, <1>3 DEF NothingToTell, AlreadyTold
  <2>2. QED  BY <1>1, <1>3, <2>1 DEF NothingToTell, EndPoll, VerdictInv, VerdictTold
<1>4. CASE Announce
  <2>1. /\ pc' = "dispatch" /\ alert'.sig = signature(SigState, sig) /\ UNCHANGED poll
        /\ Kind # "delayed" => todo' = Recipients
    BY <1>4 DEF Announce
  <2>2. row.status \in Terminal => todo' = Recipients
    BY <1>2, <2>1
  <2>3. QED  BY <1>1, <1>2, <2>1, <2>2 DEF VerdictInv, VerdictTold, Terminal
<1>5. QED  BY <1>3, <1>4

\* The dispatch and the stamp.
LEMMA VerdictDispatched ==
  ASSUME IInv, VerdictInv, Stamp \/ \E r \in Recipients : Deliver(r) \/ DeliveryFails(r)
  PROVE  VerdictInv'
<1>1. /\ pc = "dispatch" /\ UNCHANGED row
      /\ poll.prev.status \notin Terminal /\ sig.status \notin Terminal
      /\ row.status \in Terminal =>
           alert.sig.status = row.status /\ \A r \in Recipients \ todo : Reached(r)
      /\ row.status \notin Terminal => alert.sig.status \notin Terminal
  BY DEF Stamp, Deliver, DeliveryFails, part, VerdictInv
<1>2. ASSUME NEW r \in Recipients, Deliver(r) \/ DeliveryFails(r) PROVE VerdictInv'
  <2>1. UNCHANGED <<sig, pc, poll, alert>> /\ todo' = todo \ {r}
    BY <1>2 DEF Deliver, DeliveryFails, part
  <2>2. told \in [Recipients -> SigType]
    BY DEF IInv, TypeOK
  <2>3. row.status \in Terminal => \A t \in Recipients \ todo' : Reached(t)'
    <3> SUFFICES ASSUME row.status \in Terminal, NEW t \in Recipients \ todo' PROVE Reached(t)'
      OBVIOUS
    <3>1. t = r \/ Reached(t)
      BY <1>1, <2>1
    <3>2. CASE Deliver(r)
      <4>1. told' = [told EXCEPT ![r] = alert.sig] /\ UNCHANGED passedBy
        BY <3>2 DEF Deliver
      <4>2. told'[t] = IF t = r THEN alert.sig ELSE told[t]
        BY <2>2, <4>1
      <4>3. QED  BY <1>1, <3>1, <4>1, <4>2 DEF Reached
    <3>3. CASE DeliveryFails(r)
      BY <1>1, <3>1, <3>3 DEF DeliveryFails, Unheard, Reached
    <3>4. QED  BY <1>2, <3>2, <3>3
  <2>4. QED  BY <1>1, <2>1, <2>3 DEF VerdictInv, VerdictTold
<1>3. CASE Stamp
  <2>1. todo = {} /\ sig' \in {sig, alert.sig} /\ pc' = "idle" /\ UNCHANGED <<told, passedBy>>
    BY <1>3 DEF Stamp, EndPoll, history
  <2>2. QED  BY <1>1, <2>1 DEF VerdictInv, VerdictTold, Reached
<1>4. QED  BY <1>2, <1>3

\* Whatever goes wrong.
LEMMA VerdictTroubled == ASSUME IInv, VerdictInv, Trouble PROVE VerdictInv'
<1>0. row \in RowType
  BY DEF IInv, TypeOK
<1>1. CASE ResolveFails \/ WriteFails \/ RereadFails
  <2>1. pc # "idle" /\ Abandon /\ UNCHANGED <<sig, told>>
    BY <1>1 DEF ResolveFails, WriteFails, RereadFails, part
  <2>2. row'.status = row.status
    <3>1. CASE RereadFails
      <4>1. poll.report \in ReportType /\ row' = Marked(Rescheduled(row, poll.report))
        BY <3>1 DEF RereadFails, IInv, PollInv
      <4>2. Rescheduled(row, poll.report) \in RowType
            /\ Rescheduled(row, poll.report).status = row.status
        BY <1>0, <4>1, RescheduledType DEF Rescheduled, RowType
      <4>3. QED  BY <4>1, <4>2 DEF Marked, RowType
    <3>2. CASE ResolveFails \/ WriteFails
      BY <3>2 DEF ResolveFails, WriteFails, part
    <3>3. QED  BY <1>1, <3>1, <3>2
  <2>3. QED  BY <2>1, <2>2, VerdictAbandoned
<1>2. CASE RowUnread \/ AlertReadFails \/ Crash \/ Panic
  BY <1>2, VerdictCut DEF RowUnread, AlertReadFails, Compare, Crash, Panic, part
<1>3. CASE \E r \in Recipients : DeliveryFails(r)
  BY <1>3, VerdictDispatched
<1>4. CASE (\E report \in Reports : EditIdent(report)) \/ DismissPlanPart
  <2>1. row'.status = row.status
    BY <1>0, <1>4 DEF EditIdent, DismissPlanPart, RowType
  <2>2. UNCHANGED <<sig, pc, poll, alert, todo, told, passedBy>>
    BY <1>4 DEF EditIdent, DismissPlanPart, history
  <2>3. QED  BY <2>1, <2>2, VerdictStands
<1>5. QED  BY <1>1, <1>2, <1>3, <1>4 DEF Trouble

LEMMA VerdictStep == IInv /\ VerdictInv /\ [Next]_vars => VerdictInv'
<1> SUFFICES ASSUME IInv, VerdictInv, [Next]_vars PROVE VerdictInv'
  OBVIOUS
<1>1. CASE UNCHANGED vars
  BY <1>1, VerdictStands DEF vars
<1>2. CASE Next
  BY <1>2, VerdictBefore, VerdictCompared, VerdictDispatched, VerdictTroubled
     DEF Next, PollStep
<1>3. QED  BY <1>1, <1>2

(***************************************************************************)
(* Whatever crashes, fails or is edited, a part at rest as cancelled or    *)
(* diverted is one whose every recipient has been told so, whatever his    *)
(* threshold, or one whose verdict passed him by in a way VerdictTold      *)
(* names (changeKind, dispatchAlert and resolveAndUpdate's early returns). *)
(***************************************************************************)
THEOREM VerdictsAreTold == Spec => []VerdictTold
<1>1. VerdictInv => VerdictTold
  BY DEF VerdictInv
<1>2. IInv /\ VerdictInv /\ [Next]_vars => VerdictInv'
  BY VerdictStep
<1>3. QED  BY <1>1, <1>2, Invariance, VerdictInitially, PTL DEF Spec

-----------------------------------------------------------------------------
(***************************************************************************)
(* What recipients are told.  A crash, a lost statement, a sweep or an     *)
(* edit leaves the row with what nobody was told, so these theorems are    *)
(* about a part whose polls run to their end.                              *)
(***************************************************************************)

\* Nothing goes wrong but an answer that does not come, or a part dismissed.
Untroubled == Disturb \subseteq {"resolve", "dismiss"}

\* The row as the last comparison, or the last poll that wrote nothing, left it.
Before == IF pc = "idle" THEN row ELSE poll.prev

\* A poll that has stored nothing yet, or whose resolve failed.
Untouched == pc \in {"resolve", "gate"} \/ (pc \in {"status", "alert"} /\ ~poll.fresh)

(***************************************************************************)
(* How the row a poll is writing relates to the row it began with.  The    *)
(* other invariants compare the row with what was told before the poll, so *)
(* they need to know which of its columns the poll can have changed.       *)
(***************************************************************************)
PollKeeps ==
  pc # "idle" =>
    /\ poll.prev.status \notin Terminal /\ poll.mode # "sweep"
    /\ pc \notin {"status", "alert", "dispatch"} => ~poll.fresh
    /\ poll.fresh \/ poll.prev.resolved => row.resolved
    /\ pc = "alert" => row.status = DerivedStatus(row.status, row.times, now)
    /\ \A e \in Ends : row.gate[e] = None => poll.prev.gate[e] = None
    /\ row.belt = None => poll.prev.belt = None
    /\ Untouched =>
         /\ row.status \notin Terminal
         /\ row.times = poll.prev.times /\ row.resolved = poll.prev.resolved
         /\ row.gate = poll.prev.gate /\ row.belt = poll.prev.belt

\* What a signature says of gates and belts is what a row holds.
Heard(s, r) == s.gate = r.gate /\ s.belt = r.belt

\* A signature r was told before being left out of longer delays below his threshold.
LeftOut(s, last, r) ==
  /\ last.delay # NoDelay /\ last.delay < MinDelay[r]
  /\ s.delay = NoDelay \/ s.delay < last.delay

(***************************************************************************)
(* What everyone has been told, between alerts and during one.             *)
(***************************************************************************)
ToldBetween ==
  pc # "dispatch" =>
    /\ Heard(sig, Before) /\ \A r \in Recipients : Heard(told[r], Before)
    /\ \A r \in Recipients : told[r] = sig \/ LeftOut(told[r], sig, r)
    /\ Before.status \notin Terminal =>
         sig.status \notin Terminal /\ \A r \in Recipients : told[r].status \notin Terminal

ToldDuring ==
  pc = "dispatch" =>
    /\ Heard(alert.sig, row)
    /\ row.status \in Terminal => alert.sig.status = row.status /\ alert.kind # "delayed"
    /\ row.status \notin Terminal => alert.sig.status \notin Terminal
    /\ \A r \in Recipients \ todo :
         \/ told[r] = alert.sig
         \/ /\ alert.kind = "delayed" /\ Heard(told[r], row) /\ told[r].status \notin Terminal
            /\ LeftOut(told[r], alert.sig, r)

ToldInv == PollKeeps /\ ToldBetween /\ ToldDuring /\ NotToldTwice

\* The steps that are left when nothing goes wrong.
LEMMA CalmSteps ==
  ASSUME Untroubled
  PROVE  /\ \A kind \in Disturbances \ {"resolve", "dismiss"} : ~Disturbed(kind)
         /\ Next =>
              \/ Advance \/ Prune \/ ResolveFails \/ DismissPlanPart \/ PollStep
  BY DEF Untroubled, Disturbed, Next, Trouble, WriteFails, RereadFails, RowUnread,
         AlertReadFails, DeliveryFails, Crash, Panic, EditIdent, Disturbances

\* A step outside an alert that changes nothing the others compare with.
LEMMA NobodyHears ==
  ASSUME ToldInv, pc # "dispatch", pc' # "dispatch",
         UNCHANGED <<sig, told>>,
         Before'.gate = Before.gate, Before'.belt = Before.belt,
         Before'.status \notin Terminal => Before.status \notin Terminal
  PROVE  ToldBetween' /\ ToldDuring' /\ NotToldTwice'
  BY DEF ToldInv, ToldBetween, ToldDuring, NotToldTwice, Heard, LeftOut

\* The same, in the middle of a poll.
LEMMA PollGoesOn ==
  ASSUME ToldInv, pc \notin {"idle", "dispatch"}, pc' \notin {"idle", "dispatch"},
         UNCHANGED <<sig, told>>, poll'.prev = poll.prev, PollKeeps'
  PROVE  ToldInv'
<1>1. Before' = Before
  BY DEF Before
<1>2. QED  BY <1>1, NobodyHears DEF ToldInv

LEMMA ToldInitially == Init => ToldInv
<1> SUFFICES ASSUME Init PROVE ToldInv
  OBVIOUS
<1>1. row.status = "Scheduled" /\ row.gate = [e \in Ends |-> None] /\ row.belt = None
  BY DEF Init
<1>2. QED
  BY <1>1 DEF Init, ToldInv, PollKeeps, ToldBetween, ToldDuring, NotToldTwice,
              Before, Heard, NoSig, Terminal

\* Overwrite never erases.
LEMMA OverwriteKeeps ==
  ASSUME NEW old, NEW new, NEW e \in Ends, Overwrite(old, new)[e] = None
  PROVE  old[e] = None
  BY DEF Overwrite

\* The clock, a poll that begins, an answer, and a failed resolve.
LEMMA ToldBegins ==
  ASSUME Untroubled, IInv, ToldInv,
         \/ Advance \/ Prune \/ ResolveFails \/ DismissPlanPart
         \/ (\E mode \in Modes : StartPoll(mode)) \/ (\E report \in Reports : Resolve(report))
  PROVE  ToldInv'
<1>0. "sweep" \notin Disturb
  BY DEF Untroubled
<1>1. CASE Advance
  <2>1. UNCHANGED <<row, sig, pc, poll, told, alert, todo>> /\ pc \in {"idle", "resolve"}
    BY <1>1 DEF Advance, history
  <2>2. Before' = Before
    BY <2>1 DEF Before
  <2>3. PollKeeps'
    BY <2>1 DEF ToldInv, PollKeeps, Untouched
  <2>4. QED  BY <2>1, <2>2, <2>3, NobodyHears DEF ToldInv
<1>2. CASE Prune
  <2>1. UNCHANGED <<row, sig, pc, poll, told, alert, todo, now>> /\ pc = "idle"
    BY <1>2 DEF Prune, history, part
  <2>2. QED  BY <2>1 DEF ToldInv, PollKeeps, ToldBetween, ToldDuring, NotToldTwice, Before
<1>3. CASE ResolveFails
  <2>1. pc = "resolve" /\ UNCHANGED <<row, sig, now, told>>
    BY <1>3 DEF ResolveFails, part, history
  <2>2. pc' = "status" /\ UNCHANGED <<poll, alert, todo>>
    BY <1>3, <2>1 DEF ResolveFails, Abandon, ToldInv, PollKeeps
  <2>3. PollKeeps'
    BY <2>1, <2>2 DEF ToldInv, PollKeeps, Untouched
  <2>4. QED  BY <2>1, <2>2, <2>3, PollGoesOn
<1>4. CASE DismissPlanPart
  <2>1. UNCHANGED <<sig, now, pc, poll, alert, todo, told>>
    BY <1>4 DEF DismissPlanPart, history
  <2>2. row' = [row EXCEPT !.dismissed = TRUE] /\ row \in RowType
    BY <1>4 DEF DismissPlanPart, IInv, TypeOK
  <2>3. /\ row'.status = row.status /\ row'.gate = row.gate /\ row'.belt = row.belt
        /\ row'.times = row.times /\ row'.resolved = row.resolved
    BY <2>2 DEF RowType
  <2>4. PollKeeps'
    BY <2>1, <2>3 DEF ToldInv, PollKeeps, Untouched
  <2>5. Before'.gate = Before.gate /\ Before'.belt = Before.belt /\ Before'.status = Before.status
    BY <2>1, <2>3 DEF Before
  <2>7. CASE pc # "dispatch"
    BY <2>1, <2>4, <2>5, <2>7, NobodyHears DEF ToldInv
  <2>8. CASE pc = "dispatch"
    BY <2>1, <2>3, <2>4, <2>8 DEF ToldInv, ToldBetween, ToldDuring, NotToldTwice, Heard
  <2>9. QED  BY <2>7, <2>8
<1>5. ASSUME NEW mode \in Modes, StartPoll(mode) PROVE ToldInv'
  <2>1. pc = "idle" /\ pc' \in {"resolve", "status"} /\ UNCHANGED <<row, sig, now, told>>
    BY <1>5 DEF StartPoll, part, history
  <2>2. poll'.prev = row /\ poll'.mode = mode /\ poll'.fresh = FALSE
    BY <1>5 DEF StartPoll, NoPoll
  <2>3. mode # "sweep" /\ row.status \notin Terminal
    BY <1>0, <1>5 DEF StartPoll, Listed, Modes, InActive, InMetadata, InRecentlyArrived, Live, Terminal
  <2>4. PollKeeps'
    BY <2>1, <2>2, <2>3 DEF PollKeeps, Untouched
  <2>5. Before' = Before
    BY <2>1, <2>2 DEF Before
  <2>6. QED  BY <2>1, <2>4, <2>5, NobodyHears DEF ToldInv
<1>6. ASSUME NEW report \in Reports, Resolve(report) PROVE ToldInv'
  <2>1. pc = "resolve" /\ pc' = "gate" /\ UNCHANGED <<row, sig, now, told>>
    BY <1>6 DEF Resolve, part, history
  <2>2. poll'.prev = poll.prev /\ poll'.mode = poll.mode /\ poll'.fresh = poll.fresh
    BY <1>6 DEF Resolve, IInv, TypeOK
  <2>3. PollKeeps'
    BY <2>1, <2>2 DEF ToldInv, PollKeeps, Untouched
  <2>4. QED  BY <2>1, <2>2, <2>3, PollGoesOn
<1>7. QED  BY <1>1, <1>2, <1>3, <1>4, <1>5, <1>6

\* The statements of a poll, until the comparison: the row changes, and the
\* others still compare with the row the poll began with.
LEMMA ToldWrites ==
  ASSUME Untroubled, IInv, ToldInv,
         WriteGate \/ WriteBelt \/ WriteTimes \/ WriteVerdict \/ WriteTerminal \/ Confirm
  PROVE  ToldInv'
<1>1. /\ pc \in {"gate", "belt", "times", "verdict", "terminal", "confirm"}
      /\ UNCHANGED <<sig, now, told>>
  BY DEF WriteGate, WriteBelt, WriteTimes, WriteVerdict, WriteTerminal, Confirm, history
<1>2. /\ row \in RowType /\ poll.report \in ReportType /\ poll \in PollType
      /\ poll.mode # "sweep" /\ ~poll.fresh
  BY <1>1 DEF IInv, TypeOK, PollInv, PollType, ToldInv, PollKeeps
<1>3. CASE WriteGate
  <2>1. row' = [row EXCEPT !.gate = Overwrite(row.gate, poll.report.gate)]
        /\ pc' = "belt" /\ UNCHANGED poll
    BY <1>3 DEF WriteGate, Goto
  <2>2. /\ row'.gate = Overwrite(row.gate, poll.report.gate)
        /\ row'.belt = row.belt /\ row'.resolved = row.resolved
    BY <1>2, <2>1 DEF RowType
  <2>3. PollKeeps'
    BY <1>1, <2>1, <2>2, OverwriteKeeps DEF ToldInv, PollKeeps, Untouched
  <2>4. QED  BY <1>1, <2>1, <2>3, PollGoesOn
<1>4. CASE WriteBelt
  <2>1. /\ row' = [row EXCEPT !.belt =
             IF BeltIsCurrent(poll.prev.times, poll.at, BeltWindow) /\ poll.report.belt # None
             THEN poll.report.belt ELSE row.belt]
        /\ pc' = "times" /\ UNCHANGED poll
    BY <1>4 DEF WriteBelt, Goto
  <2>2. /\ row'.gate = row.gate /\ row'.resolved = row.resolved
        /\ row'.belt = None => row.belt = None
    BY <1>2, <2>1 DEF RowType
  <2>3. PollKeeps'
    BY <1>1, <2>1, <2>2 DEF ToldInv, PollKeeps, Untouched
  <2>4. QED  BY <1>1, <2>1, <2>3, PollGoesOn
<1>5. CASE WriteTimes \/ WriteVerdict \/ WriteTerminal
  <2>1. pc' \in {"verdict", "terminal", "confirm"} /\ UNCHANGED poll
    BY <1>5 DEF WriteTimes, WriteVerdict, WriteTerminal, Goto
  <2>2. row'.gate = row.gate /\ row'.belt = row.belt /\ row'.resolved = row.resolved
    <3>1. \/ row' = [row EXCEPT !.times = DepartureStored(ArrivalStored(row.times, poll.report), poll.report)]
          \/ row' \in {row, [row EXCEPT !.status = poll.report.verdict]}
          \/ row' = [row EXCEPT !.term = Overwrite(row.term, poll.report.term)]
      BY <1>5, CalmSteps DEF WriteTimes, WriteVerdict, WriteTerminal, Disturbances
    <3>2. QED  BY <1>2, <3>1 DEF RowType
  <2>3. PollKeeps'
    BY <1>1, <2>1, <2>2 DEF ToldInv, PollKeeps, Untouched
  <2>4. QED  BY <1>1, <2>1, <2>3, PollGoesOn
<1>6. CASE Confirm
  <2>1. /\ row' = Marked(Rescheduled(row, poll.report))
        /\ pc' = "status" /\ poll' = [poll EXCEPT !.fresh = TRUE]
    BY <1>2, <1>6, CalmSteps DEF Confirm, Disturbances
  <2>2. /\ Rescheduled(row, poll.report).gate = row.gate
        /\ Rescheduled(row, poll.report).belt = row.belt
        /\ Rescheduled(row, poll.report).resolved = row.resolved
    BY <1>2 DEF Rescheduled, RowType
  <2>3. Rescheduled(row, poll.report) \in RowType
    BY <1>2, RescheduledType
  <2>4. row'.gate = row.gate /\ row'.belt = row.belt /\ row'.resolved
    <3>1. poll.prev.resolved => row.resolved
      BY <1>1 DEF ToldInv, PollKeeps
    <3>2. QED  BY <2>1, <2>2, <2>3, <3>1 DEF Marked, RowType
  <2>5. poll'.prev = poll.prev /\ poll'.mode = poll.mode /\ poll'.fresh
    BY <1>2, <2>1 DEF PollType
  <2>6. PollKeeps'
    BY <1>1, <2>1, <2>4, <2>5 DEF ToldInv, PollKeeps, Untouched
  <2>7. QED  BY <1>1, <2>1, <2>5, <2>6, PollGoesOn
<1>7. QED  BY <1>3, <1>4, <1>5, <1>6

\* The status is derived anew; a poll whose resolve failed may stop there.
LEMMA ToldRefresh ==
  ASSUME Untroubled, IInv, ToldInv, RefreshStatus
  PROVE  ToldInv'
<1>1. pc = "status" /\ row' = [row EXCEPT !.status = DerivedStatus(row.status, row.times, now)]
      /\ UNCHANGED <<sig, now, told>>
  BY CalmSteps DEF RefreshStatus, Disturbances, history
<1>2. row \in RowType
  BY DEF IInv, TypeOK
<1>3. /\ row'.status = DerivedStatus(row.status, row.times, now)
      /\ row'.times = row.times /\ row'.resolved = row.resolved
      /\ row'.gate = row.gate /\ row'.belt = row.belt
  BY <1>1, <1>2 DEF RowType
<1>4. row'.status \in Terminal <=> row.status \in Terminal
  BY <1>3, DerivedKeepsTerminal
<1>5. CASE poll.mode = "refresh" \/ poll.fresh
  <2>1. pc' = "alert" /\ UNCHANGED poll
    BY <1>5 DEF RefreshStatus, Goto
  <2>2. row'.status = DerivedStatus(row'.status, row'.times, now')
    BY <1>1, <1>3, DerivedKeepsTerminal
  <2>3. PollKeeps'
    BY <1>1, <1>3, <1>4, <2>1, <2>2 DEF ToldInv, PollKeeps, Untouched
  <2>4. QED  BY <1>1, <2>1, <2>3, PollGoesOn
<1>6. CASE ~(poll.mode = "refresh" \/ poll.fresh)
  <2>1. pc' = "idle"
    BY <1>6 DEF RefreshStatus, EndPoll
  <2>2. row.status \notin Terminal /\ row.gate = poll.prev.gate /\ row.belt = poll.prev.belt
        /\ poll.prev.status \notin Terminal
    BY <1>1, <1>6 DEF ToldInv, PollKeeps, Untouched
  <2>3. /\ Before'.gate = Before.gate /\ Before'.belt = Before.belt
        /\ Before'.status \notin Terminal /\ Before.status \notin Terminal
    BY <1>1, <1>3, <1>4, <2>1, <2>2 DEF Before
  <2>4. PollKeeps'
    BY <2>1 DEF PollKeeps
  <2>5. QED  BY <1>1, <2>1, <2>3, <2>4, NobodyHears DEF ToldInv
<1>7. QED  BY <1>5, <1>6

\* A row with no gate changed, and no belt, has the gates and belt of the other.
LEMMA SameGates ==
  ASSUME IInv, PollKeeps, pc = "alert",
         \A e \in Ends : ~gateChanged(poll.prev.gate[e], row.gate[e]),
         ~gateChanged(poll.prev.belt, row.belt)
  PROVE  row.gate = poll.prev.gate /\ row.belt = poll.prev.belt
<1>1. row.gate \in [Ends -> GateOrNone] /\ poll.prev.gate \in [Ends -> GateOrNone]
  BY DEF IInv, TypeOK, PollInv, RowType
<1>2. \A e \in Ends : row.gate[e] = poll.prev.gate[e]
  BY DEF PollKeeps, gateChanged
<1>3. row.belt = poll.prev.belt
  BY DEF PollKeeps, gateChanged
<1>4. QED  BY <1>1, <1>2, <1>3

\* A comparison that finds nothing to tell: everyone has heard of the row.
LEMMA NothingMissed ==
  ASSUME IInv, ToldInv, NothingToTell
  PROVE  row.status \notin Terminal /\ row.gate = poll.prev.gate /\ row.belt = poll.prev.belt
<1>1. /\ pc = "alert" /\ poll.prev.status \notin Terminal
      /\ Heard(sig, poll.prev) /\ sig.status \notin Terminal
  BY DEF NothingToTell, Compare, ToldInv, PollKeeps, ToldBetween, Before
<1>2. row.gate \in [Ends -> GateOrNone]
  BY DEF IInv, TypeOK, RowType
<1>3. CASE Kind \in {"none", "delayed"}
  BY <1>1, <1>3, KindMeans, SameGates DEF ToldInv
<1>4. CASE Kind \notin {"none", "delayed"}
  <2>1. signature(SigState, sig) = sig
    BY <1>4 DEF NothingToTell, AlreadyTold
  <2>2. QED  BY <1>1, <2>1, NewSignature DEF Heard
<1>5. QED  BY <1>3, <1>4

LEMMA ToldNothing ==
  ASSUME IInv, ToldInv, NothingToTell
  PROVE  ToldInv'
<1>1. pc = "alert" /\ pc' = "idle" /\ UNCHANGED <<row, sig, told>>
  BY DEF NothingToTell, Compare, EndPoll, part
<1>2. row.status \notin Terminal /\ row.gate = poll.prev.gate /\ row.belt = poll.prev.belt
      /\ poll.prev.status \notin Terminal
  BY <1>1, NothingMissed DEF ToldInv, PollKeeps
<1>3. /\ Before'.gate = Before.gate /\ Before'.belt = Before.belt
      /\ Before'.status \notin Terminal /\ Before.status \notin Terminal
  BY <1>1, <1>2 DEF Before
<1>4. PollKeeps'
  BY <1>1 DEF PollKeeps
<1>5. QED  BY <1>1, <1>3, <1>4, NobodyHears DEF ToldInv

\* The comparison finds something to tell, and whom.
LEMMA ToldAnnounce ==
  ASSUME IInv, ToldInv, Announce
  PROVE  ToldInv'
<1> DEFINE new == signature(SigState, sig)
           prev == poll.prev
<1>1. /\ pc = "alert" /\ pc' = "dispatch" /\ UNCHANGED <<row, sig, told, poll>>
      /\ alert' = [kind |-> Kind, sig |-> new, delay |-> Minutes(SigState.delay)]
      /\ todo' = {r \in Recipients : Kind = "delayed" => Minutes(SigState.delay) >= MinDelay[r]}
      /\ Kind # "none" /\ ~AlreadyTold(Kind, SigState, sig)
  BY DEF Announce, Compare, part
<1>2. alert'.kind = Kind /\ alert'.sig = new
  BY <1>1
<1>3. /\ prev.status \notin Terminal /\ sig.status \notin Terminal
      /\ \A r \in Recipients : told[r].status \notin Terminal /\ Heard(told[r], prev)
      /\ \A r \in Recipients : told[r] = sig \/ LeftOut(told[r], sig, r)
  BY <1>1 DEF ToldInv, PollKeeps, ToldBetween, Before
<1>4. /\ new.gate = row.gate /\ new.belt = row.belt
      /\ new.status = IF row.status \in Terminal THEN row.status ELSE "live"
      /\ new.delay = IF row.status \in Terminal THEN NoDelay
                     ELSE IF snapshot(row).delay = NoDelay THEN sig.delay
                     ELSE snapshot(row).delay
      /\ SigState.delay = snapshot(row).delay
  BY <1>1, NewSignature
<1>5. new # sig
  <2>1. CASE sig = NoSig
    BY <1>4, <2>1 DEF NoSig, Terminal
  <2>2. CASE sig # NoSig
    BY <1>1, <2>2 DEF AlreadyTold
  <2>3. QED  BY <2>1, <2>2
<1>6. /\ snapshot(row).delay \in Nat \cup {NoDelay} /\ sig.delay \in Nat \cup {NoDelay}
      /\ \A r \in Recipients : told[r].delay \in Nat \cup {NoDelay} /\ MinDelay[r] \in Nat
  BY SnapshotType, AlertsAssumption DEF IInv, TypeOK, StateType, SigType
<1>7. ASSUME Kind = "delayed"
      PROVE  /\ row.status \notin Terminal /\ new.delay = Minutes(SigState.delay)
             /\ new.delay \in Nat
             /\ sig.delay = NoDelay \/ new.delay > sig.delay
  <2>1. row.status \notin Terminal /\ snapshot(row).delay # NoDelay
    BY <1>1, <1>3, <1>7, KindMeans
  <2>2. new.delay = snapshot(row).delay /\ Minutes(SigState.delay) = snapshot(row).delay
    BY <1>4, <2>1 DEF Minutes
  <2>3. sig = NoSig \/ sig.delay = NoDelay \/ ~(Minutes(SigState.delay) <= sig.delay)
    BY <1>1, <1>7 DEF AlreadyTold
  <2>4. QED  BY <1>6, <2>1, <2>2, <2>3 DEF NoSig, NoDelay
<1>8. ASSUME Kind = "delayed", NEW r \in Recipients, r \notin todo'
      PROVE  LeftOut(told[r], new, r)
  <2>1. new.delay < MinDelay[r]
    BY <1>1, <1>6, <1>7, <1>8
  <2>2. told[r].delay = NoDelay \/ told[r].delay < new.delay
    <3>1. CASE told[r] = sig
      BY <1>6, <1>7, <1>8, <3>1
    <3>2. CASE LeftOut(told[r], sig, r)
      BY <1>6, <1>7, <1>8, <3>2 DEF LeftOut, NoDelay
    <3>3. QED  BY <1>3, <3>1, <3>2
  <2>3. QED  BY <1>7, <1>8, <2>1, <2>2 DEF LeftOut, NoDelay
<1>9. ToldDuring'
  <2>1. Heard(alert'.sig, row')
    BY <1>1, <1>2, <1>4 DEF Heard
  <2>2. row.status \in Terminal => new.status = row.status /\ Kind # "delayed"
    BY <1>4, <1>7
  <2>3. row.status \notin Terminal => new.status \notin Terminal
    BY <1>4 DEF Terminal
  <2>4. ASSUME NEW r \in Recipients \ todo'
        PROVE  /\ Kind = "delayed" /\ Heard(told[r], row) /\ told[r].status \notin Terminal
               /\ LeftOut(told[r], new, r)
    <3>1. Kind = "delayed"
      BY <1>1, <2>4
    <3>2. row.gate = prev.gate /\ row.belt = prev.belt
      BY <1>1, <1>3, <3>1, KindMeans, SameGates DEF ToldInv
    <3>3. QED  BY <1>3, <1>8, <3>1, <3>2 DEF Heard
  <2> HIDE DEF new
  <2>5. QED  BY <1>1, <1>2, <2>1, <2>2, <2>3, <2>4 DEF ToldDuring, Heard, LeftOut
<1>10. NotToldTwice'
  <2> SUFFICES ASSUME NEW r \in todo', told[r] = new
               PROVE  Kind = "terminal" /\ told[r] # sig
    BY <1>1, <1>2 DEF NotToldTwice
  <2>1. r \in Recipients
    BY <1>1
  <2>2. Heard(new, prev) /\ new.status \notin Terminal
    BY <1>3, <2>1
  <2>3. row.status \notin Terminal /\ row.gate = prev.gate /\ row.belt = prev.belt
    BY <1>4, <2>2 DEF Heard
  <2>4. Kind \in {"terminal", "delayed"}
    <3>1. /\ \A e \in Ends : ~gateChanged(prev.gate[e], row.gate[e])
          /\ ~gateChanged(prev.belt, row.belt)
      BY <2>3 DEF gateChanged
    <3>2. Kind \notin {"cancelled", "diverted", "gate", "gate_assigned", "belt"}
      BY <1>1, <1>3, <2>3, <3>1, KindMeans
    <3>3. Kind \in Kinds \cup {"none"}
      BY DEF Kind, changeKind, Kinds
    <3>4. QED  BY <1>1, <3>2, <3>3 DEF Kinds
  <2>5. told[r] # sig
    BY <1>5
  <2>6. Kind # "delayed"
    <3> SUFFICES ASSUME Kind = "delayed" PROVE FALSE
      OBVIOUS
    <3>1. LeftOut(told[r], sig, r)
      BY <1>3, <2>1, <2>5
    <3>2. sig.delay # NoDelay /\ (told[r].delay = NoDelay \/ told[r].delay < sig.delay)
      BY <3>1 DEF LeftOut
    <3>3. new.delay \in Nat /\ new.delay > sig.delay
      BY <1>7, <3>2
    <3>4. told[r].delay = new.delay
      OBVIOUS
    <3> HIDE DEF new
    <3>5. QED  BY <1>6, <2>1, <3>2, <3>3, <3>4 DEF NoDelay
  <2>7. QED  BY <2>4, <2>5, <2>6
<1>11. PollKeeps'
  BY <1>1 DEF ToldInv, PollKeeps, Untouched
<1>12. QED  BY <1>1, <1>9, <1>10, <1>11 DEF ToldInv, ToldBetween

\* One recipient is reached, and in the end the signature is stamped.
LEMMA ToldDispatch ==
  ASSUME Untroubled, IInv, ToldInv, Stamp \/ \E r \in Recipients : Deliver(r)
  PROVE  ToldInv'
<1>1. pc = "dispatch" /\ UNCHANGED row
  BY DEF Stamp, Deliver, part
<1>2. /\ Heard(alert.sig, row)
      /\ row.status \in Terminal => alert.sig.status = row.status /\ alert.kind # "delayed"
      /\ row.status \notin Terminal => alert.sig.status \notin Terminal
      /\ \A r \in Recipients \ todo :
           \/ told[r] = alert.sig
           \/ /\ alert.kind = "delayed" /\ Heard(told[r], row) /\ told[r].status \notin Terminal
              /\ LeftOut(told[r], alert.sig, r)
  BY <1>1 DEF ToldInv, ToldDuring
<1>3. ASSUME NEW r \in Recipients, Deliver(r) PROVE ToldInv'
  <2>1. /\ r \in todo /\ todo' = todo \ {r} /\ told' = [told EXCEPT ![r] = alert.sig]
        /\ UNCHANGED <<row, sig, now, pc, poll, alert>>
    BY <1>3 DEF Deliver, part
  <2>2. told \in [Recipients -> SigType]
    BY DEF IInv, TypeOK
  <2>3. \A s \in Recipients : told'[s] = IF s = r THEN alert.sig ELSE told[s]
    BY <2>1, <2>2
  <2>4. ToldDuring'
    BY <1>2, <2>1, <2>3 DEF ToldDuring, Heard, LeftOut
  <2>5. NotToldTwice'
    <3>1. \A s \in todo' : s \in todo /\ told'[s] = told[s]
      BY <2>1, <2>3 DEF IInv, TypeOK
    <3>2. QED  BY <1>1, <2>1, <3>1 DEF ToldInv, NotToldTwice
  <2>6. PollKeeps'
    BY <2>1 DEF ToldInv, PollKeeps, Untouched
  <2>7. QED  BY <1>1, <2>1, <2>4, <2>5, <2>6 DEF ToldInv, ToldBetween
<1>4. CASE Stamp
  <2>1. todo = {} /\ sig' = alert.sig /\ pc' = "idle" /\ UNCHANGED told
    BY <1>4, CalmSteps DEF Stamp, Disturbances, EndPoll, history
  <2>2. Before' = row
    BY <1>1, <2>1 DEF Before
  <2>3. ToldBetween'
    BY <1>2, <2>1, <2>2 DEF ToldBetween, Heard, LeftOut
  <2>4. QED
    BY <2>1, <2>3 DEF ToldInv, PollKeeps, ToldDuring, NotToldTwice
<1>5. QED  BY <1>3, <1>4

\* Every step of an untroubled part keeps what is said of who was told what.
LEMMA ToldStep == ASSUME Untroubled PROVE IInv /\ ToldInv /\ [Next]_vars => ToldInv'
<1> SUFFICES ASSUME IInv, ToldInv, [Next]_vars PROVE ToldInv'
  OBVIOUS
<1>1. CASE UNCHANGED vars
  <2>1. UNCHANGED <<row, sig, now, pc, poll, alert, todo, told>>
    BY <1>1 DEF vars
  <2>2. Before' = Before
    BY <2>1 DEF Before
  <2>3. PollKeeps'
    BY <2>1 DEF ToldInv, PollKeeps, Untouched
  <2>4. QED
    BY <2>1, <2>2, <2>3 DEF ToldInv, ToldBetween, ToldDuring, NotToldTwice, Heard, LeftOut
<1>2. CASE Next
  <2>1. Advance \/ Prune \/ ResolveFails \/ DismissPlanPart \/ PollStep
    BY <1>2, CalmSteps
  <2>2. QED
    BY <2>1, ToldBegins, ToldWrites, ToldRefresh, ToldNothing, ToldAnnounce, ToldDispatch
       DEF PollStep
<1>3. QED  BY <1>1, <1>2

\* What everyone has been told, in every state of an untroubled part.
THEOREM ToldIsKnown == Untroubled => (Spec => []ToldInv)
<1> SUFFICES ASSUME Untroubled PROVE Spec => []ToldInv
  OBVIOUS
<1>1. IInv /\ ToldInv /\ [Next]_vars => ToldInv'
  BY ToldStep
<1>2. QED  BY <1>1, Invariance, ToldInitially, PTL DEF Spec

(***************************************************************************)
(* Nobody is told again what he was told last, but for a terminal that     *)
(* came back to someone left out of a delay alert (maybeAlert's dedupes    *)
(* against one signature, dispatchAlert's thresholds).                     *)
(***************************************************************************)
THEOREM NobodyToldTwice == Untroubled => (Spec => []NotToldTwice)
<1>1. ToldInv => NotToldTwice
  BY DEF ToldInv
<1>2. QED  BY <1>1, ToldIsKnown, PTL

(***************************************************************************)
(* A comparison that finds nothing to tell passes over no gate: everyone   *)
(* has been told of each the row holds (changeKind, maybeAlert).           *)
(***************************************************************************)
THEOREM NoGateSwallowed == Untroubled => (Spec => NothingSwallowed)
<1> SUFFICES ASSUME Untroubled PROVE Spec => NothingSwallowed
  OBVIOUS
<1> DEFINE Quietly == pc = "alert" /\ pc' = "idle"
           Known == \A e \in Ends, r \in Recipients : row.gate[e] \in {None, told[r].gate[e]}
<1>1. IInv /\ ToldInv /\ [Next]_vars => [Quietly => Known]_vars
  <2> SUFFICES ASSUME IInv, ToldInv, Next, Quietly PROVE Known
    BY DEF vars
  <2>1. Advance \/ Prune \/ ResolveFails \/ DismissPlanPart \/ PollStep
    BY CalmSteps
  <2>2. NothingToTell
    BY <2>1 DEF Advance, Prune, ResolveFails, DismissPlanPart, PollStep, StartPoll, Resolve,
           WriteGate, WriteBelt, WriteTimes, WriteVerdict, WriteTerminal, Confirm, RefreshStatus,
           Announce, Deliver, Stamp
  <2>3. row.gate = poll.prev.gate
    BY <2>2, NothingMissed
  <2>4. \A r \in Recipients : told[r].gate = poll.prev.gate
    BY DEF ToldInv, ToldBetween, Before, Heard
  <2>5. QED  BY <2>3, <2>4
<1>2. QED  BY <1>1, Invariance, ToldIsKnown, PTL DEF Spec, NothingSwallowed

-----------------------------------------------------------------------------
(***************************************************************************)
(* The delays.  A delay the last comparison saw may have gone untold, the  *)
(* part having left by then: that it stays gone, whatever the provider     *)
(* revises and however the status is derived, is what has to be shown.     *)
(***************************************************************************)

\* The caps as the code has them: 12, 12 and 24 hours.
CapsOrdered == ArrivalSlipCap <= DepartureSlipCap + NoArrivalCap

\* Parts are created without an estimate.
Unestimated == \A t \in InitialTimes : t.estimatedOut = NoTime

\* Whoever knows of a landing knows of the departure.
LandedHasDeparted ==
  \A t \in InitialTimes \cup Reports : t.actualIn # NoTime => t.actualOut # NoTime

\* What a poll never changes of a confirmed part's times.
Lasting(f, g) ==
  /\ g.scheduledOut = f.scheduledOut /\ g.scheduledIn = f.scheduledIn
  /\ f.actualOut # NoTime => g.actualOut # NoTime

\* At n a delay of d is past telling: the part is off, or counts as arrived, for good.
GoneBy(f, d, n) ==
  \/ f.actualOut # NoTime
  \/ n >= f.scheduledOut + d
  \/ Timetabled(f) /\ n > f.scheduledIn + ArrivalSlipCap
  \/ ~Timetabled(f) /\ n > f.scheduledOut + DepartureSlipCap + NoArrivalCap

\* An arrived part that no list names until a delay of d is past telling.
Unlisted(r, d) ==
  /\ r.status = "Arrived"
  /\ r.times.actualIn = NoTime /\ r.times.estimatedIn > r.times.scheduledOut + d

(***************************************************************************)
(* Whatever delay was published last has been told, or is past telling.    *)
(***************************************************************************)
DelayKeeps ==
  /\ row.times.actualIn # NoTime => row.times.actualOut # NoTime
  /\ pc \in {"gate", "belt", "times"} =>
       (poll.report.actualIn # NoTime => poll.report.actualOut # NoTime)
  /\ pc # "idle" =>
       /\ poll.prev.resolved => row.resolved /\ Lasting(poll.prev.times, row.times)
       /\ ~row.resolved => published = 0

DelayBetween ==
  pc # "dispatch" =>
    /\ ~Before.resolved => published = 0 /\ Before.times.estimatedOut = NoTime
    /\ snapshot(Before).delay # NoDelay => published = snapshot(Before).delay
    /\ (Before.status \notin Terminal /\ published > 0) =>
         \/ sig.delay >= published
         \/ GoneBy(Before.times, published, now)
         \/ pc = "idle" /\ Unlisted(row, published)

DelayDuring ==
  pc = "dispatch" =>
    /\ ~row.resolved => published = 0 /\ row.times.estimatedOut = NoTime
    /\ snapshot(row).delay # NoDelay => published = snapshot(row).delay
    /\ (row.status \notin Terminal /\ published > 0) =>
         alert.sig.delay >= published \/ GoneBy(row.times, published, now)

DelayInv == DelayKeeps /\ DelayBetween /\ DelayDuring

\* The integers in a part's times.
LEMMA TimesAreInts ==
  ASSUME NEW f \in FlightTimesType
  PROVE  /\ f.scheduledOut \in Nat /\ f.scheduledIn \in Nat
         /\ f.estimatedOut \in Nat \cup {NoTime} /\ f.estimatedIn \in Nat \cup {NoTime}
         /\ f.actualOut \in Nat \cup {NoTime} /\ f.actualIn \in Nat \cup {NoTime}
         /\ NoTime = -1
         /\ {ArrivalSlipCap, DepartureSlipCap, NoArrivalCap} \subseteq Nat
  BY WindowsAssumption DEF FlightTimesType, MaybeInstant, Instant, NoTime

\* A part past its caps counts as arrived whatever is estimated.
LEMMA LateIsArrived ==
  ASSUME CapsOrdered, NEW f \in FlightTimesType, NEW n \in Nat, f.actualOut = NoTime,
         f.actualIn = NoTime,
         \/ Timetabled(f) /\ n > f.scheduledIn + ArrivalSlipCap
         \/ ~Timetabled(f) /\ n > f.scheduledOut + DepartureSlipCap + NoArrivalCap
  PROVE  n > ArrivedAfter(f)
<1>1. SqlArrival(f) \in Int
  BY TimesAreInts DEF SqlArrival
<1>2. CASE Timetabled(f) /\ n > f.scheduledIn + ArrivalSlipCap
  <2>1. SqlArrival(f) # NoTime
    BY <1>2, TimesAreInts DEF SqlArrival, Timetabled
  <2>2. ArrivedAfter(f) = Least(SqlArrival(f), f.scheduledIn + ArrivalSlipCap)
    BY <2>1 DEF ArrivedAfter
  <2>3. QED  BY <1>1, <1>2, <2>2, TimesAreInts DEF Least
<1>3. CASE ~Timetabled(f) /\ n > f.scheduledOut + DepartureSlipCap + NoArrivalCap
  <2>1. n > f.scheduledIn + ArrivalSlipCap
    BY <1>3, TimesAreInts DEF Timetabled, CapsOrdered
  <2>2. CASE SqlArrival(f) # NoTime
    BY <1>1, <2>1, <2>2, TimesAreInts DEF ArrivedAfter, Least
  <2>3. CASE SqlArrival(f) = NoTime
    <3>1. ArrivedAfter(f) = NoArrivalBaseline(f) + NoArrivalCap
      BY <2>3 DEF ArrivedAfter
    <3>2. /\ NoArrivalBaseline(f) \in Int
          /\ NoArrivalBaseline(f) <= f.scheduledOut + DepartureSlipCap
      BY TimesAreInts DEF NoArrivalBaseline, Least
    <3>3. QED  BY <1>3, <3>1, <3>2, TimesAreInts
  <2>4. QED  BY <2>2, <2>3
<1>4. QED  BY <1>2, <1>3

\* A published delay untold because the part has left is past telling, or the
\* part is on no list until it is.
LEMMA GoneWhenDeparted ==
  ASSUME NEW r \in RowType, NEW n \in Nat, r.status \notin Terminal,
         r.status = DerivedStatus(r.status, r.times, n),
         r.times.actualIn # NoTime => r.times.actualOut # NoTime,
         snapshot(r).departed, snapshot(r).delay # NoDelay, snapshot(r).delay > 0
  PROVE  GoneBy(r.times, snapshot(r).delay, n) \/ Unlisted(r, snapshot(r).delay)
<1> DEFINE f == r.times
           d == snapshot(r).delay
<1>0. f \in FlightTimesType
  BY DEF RowType
<1> HIDE DEF f
<1>1. d = f.estimatedOut - f.scheduledOut /\ f.estimatedOut # NoTime
  BY DEF snapshot, DepartureDelay, Revised, f
<1>2. r.status = IF n > ArrivedAfter(f) THEN "Arrived"
                 ELSE IF n >= EffectiveDeparture(f) THEN "Enroute" ELSE "Scheduled"
  BY DEF DerivedStatus, f
<1>3. f.actualOut # NoTime \/ r.status \in {"Enroute", "Arrived"}
  BY DEF snapshot, f
<1> HIDE DEF d
<1>4. CASE f.actualOut # NoTime
  BY <1>4 DEF GoneBy, f, d
<1>5. CASE f.actualOut = NoTime /\ r.status = "Enroute"
  <2>1. n >= EffectiveDeparture(f)
    BY <1>2, <1>5
  <2>2. EffectiveDeparture(f) = f.estimatedOut
    BY <1>1, <1>5 DEF EffectiveDeparture, First
  <2>3. n >= f.scheduledOut + d
    BY <1>0, <1>1, <2>1, <2>2, TimesAreInts
  <2>4. QED  BY <2>3 DEF GoneBy, f, d
<1>6. CASE f.actualOut = NoTime /\ r.status = "Arrived"
  <2>1. n > ArrivedAfter(f)
    BY <1>2, <1>6
  <2>2. EffectiveDeparture(f) = f.estimatedOut
    BY <1>1, <1>6 DEF EffectiveDeparture, First
  <2>3. f.actualIn = NoTime
    BY <1>6 DEF f
  <2>4. CASE f.estimatedIn # NoTime /\ f.estimatedIn > f.estimatedOut
    <3>1. f.estimatedIn > f.scheduledOut + d
      BY <1>0, <1>1, <2>4, TimesAreInts
    <3>2. QED  BY <1>6, <2>3, <3>1 DEF Unlisted, f, d
  <2>5. CASE ~(f.estimatedIn # NoTime /\ f.estimatedIn > f.estimatedOut)
    <3>1. SqlArrival(f) = IF ~Timetabled(f) THEN NoTime
                          ELSE f.scheduledIn + (f.estimatedOut - f.scheduledOut)
      BY <1>1, <2>2, <2>3, <2>5 DEF SqlArrival
    <3>2. CASE Timetabled(f)
      <4>1. SqlArrival(f) = f.scheduledIn + d /\ SqlArrival(f) # NoTime
        BY <1>0, <1>1, <3>1, <3>2, TimesAreInts DEF Timetabled
      <4>2. n > f.scheduledIn + d \/ n > f.scheduledIn + ArrivalSlipCap
        BY <1>0, <1>1, <2>1, <4>1, TimesAreInts DEF ArrivedAfter, Least
      <4>3. n >= f.scheduledOut + d \/ n > f.scheduledIn + ArrivalSlipCap
        BY <1>0, <1>1, <3>2, <4>2, TimesAreInts DEF Timetabled
      <4>4. QED  BY <3>2, <4>3 DEF GoneBy, f, d
    <3>3. CASE ~Timetabled(f)
      <4>1. ArrivedAfter(f) = NoArrivalBaseline(f) + NoArrivalCap
        BY <3>1, <3>3 DEF ArrivedAfter
      <4>2. NoArrivalBaseline(f) = Least(f.estimatedOut, f.scheduledOut + DepartureSlipCap)
        BY <1>1, <1>6 DEF NoArrivalBaseline
      <4>3. n > f.estimatedOut \/ n > f.scheduledOut + DepartureSlipCap + NoArrivalCap
        BY <1>0, <2>1, <4>1, <4>2, TimesAreInts DEF Least
      <4>4. n >= f.scheduledOut + d \/ n > f.scheduledOut + DepartureSlipCap + NoArrivalCap
        BY <1>0, <1>1, <4>3, TimesAreInts
      <4>5. QED  BY <3>3, <4>4 DEF GoneBy, f, d
    <3>4. QED  BY <3>2, <3>3
  <2>6. QED  BY <2>4, <2>5
<1>7. QED  BY <1>3, <1>4, <1>5, <1>6

\* A delay no longer than one past telling is past telling, later too, and
\* whatever a poll has stored since.
LEMMA GoneStays ==
  ASSUME NEW f \in FlightTimesType, NEW g \in FlightTimesType, Lasting(f, g),
         NEW c \in Nat, NEW d \in Nat, d <= c, NEW m \in Nat, NEW n \in Nat, m <= n,
         GoneBy(f, c, m)
  PROVE  GoneBy(g, d, n)
<1>1. CASE f.actualOut # NoTime
  BY <1>1 DEF GoneBy, Lasting
<1>2. CASE m >= f.scheduledOut + c
  <2>1. n >= g.scheduledOut + d
    BY <1>2, TimesAreInts DEF Lasting
  <2>2. QED  BY <2>1 DEF GoneBy
<1>3. CASE Timetabled(f) /\ m > f.scheduledIn + ArrivalSlipCap
  <2>1. Timetabled(g) /\ n > g.scheduledIn + ArrivalSlipCap
    BY <1>3, TimesAreInts DEF Lasting, Timetabled
  <2>2. QED  BY <2>1 DEF GoneBy
<1>4. CASE ~Timetabled(f) /\ m > f.scheduledOut + DepartureSlipCap + NoArrivalCap
  <2>1. ~Timetabled(g) /\ n > g.scheduledOut + DepartureSlipCap + NoArrivalCap
    BY <1>4, TimesAreInts DEF Lasting, Timetabled
  <2>2. QED  BY <2>1 DEF GoneBy
<1>5. QED  BY <1>1, <1>2, <1>3, <1>4 DEF GoneBy

\* A part that has not left, and shows a delay, shows a longer one than any past telling.
LEMMA GoneIsShorter ==
  ASSUME CapsOrdered, NEW r \in RowType, NEW n \in Nat, NEW c \in Nat, r.status \notin Terminal,
         r.status = DerivedStatus(r.status, r.times, n),
         ~snapshot(r).departed, snapshot(r).delay # NoDelay, snapshot(r).delay > 0,
         r.times.actualIn # NoTime => r.times.actualOut # NoTime, GoneBy(r.times, c, n)
  PROVE  snapshot(r).delay > c
<1> DEFINE f == r.times
<1>0. f \in FlightTimesType
  BY DEF RowType
<1>1. snapshot(r).delay = f.estimatedOut - f.scheduledOut /\ f.estimatedOut # NoTime
  BY DEF snapshot, DepartureDelay, Revised
<1>2. f.actualOut = NoTime /\ f.actualIn = NoTime /\ r.status \notin {"Enroute", "Arrived"}
  BY DEF snapshot
<1>3. ~(n > ArrivedAfter(f)) /\ ~(n >= EffectiveDeparture(f))
  BY <1>2 DEF DerivedStatus
<1>4. EffectiveDeparture(f) = f.estimatedOut
  BY <1>1, <1>2 DEF EffectiveDeparture, First
<1>5. n >= f.scheduledOut + c
  BY <1>0, <1>2, <1>3, LateIsArrived DEF GoneBy
<1> HIDE DEF f
<1>6. QED  BY <1>0, <1>1, <1>3, <1>4, <1>5, TimesAreInts

LEMMA DelayInitially == ASSUME Unestimated, LandedHasDeparted PROVE Init => DelayInv
<1> SUFFICES ASSUME Init PROVE DelayInv
  OBVIOUS
<1>1. /\ row.times.estimatedOut = NoTime /\ published = 0 /\ pc = "idle"
      /\ row.times.actualIn # NoTime => row.times.actualOut # NoTime
  BY DEF Init, Unestimated, LandedHasDeparted
<1>2. snapshot(row).delay = NoDelay
  BY <1>1 DEF snapshot, Revised
<1>3. QED  BY <1>1, <1>2 DEF DelayInv, DelayKeeps, DelayBetween, DelayDuring, Before

\* In the middle of a poll the clock runs and the row is written.
LEMMA DelayGoesOn ==
  ASSUME IInv, DelayInv, pc \notin {"idle", "dispatch"}, pc' \notin {"idle", "dispatch"},
         UNCHANGED <<sig, published>>, poll'.prev = poll.prev, now' \in Nat, now <= now',
         DelayKeeps'
  PROVE  DelayInv'
<1>1. Before' = Before /\ Before = poll.prev
  BY DEF Before
<1>2. /\ ~poll.prev.resolved => published = 0 /\ poll.prev.times.estimatedOut = NoTime
      /\ snapshot(poll.prev).delay # NoDelay => published = snapshot(poll.prev).delay
      /\ (poll.prev.status \notin Terminal /\ published > 0) =>
           sig.delay >= published \/ GoneBy(poll.prev.times, published, now)
  BY <1>1 DEF DelayInv, DelayBetween
<1>3. poll.prev.times \in FlightTimesType /\ published \in Nat /\ now \in Nat
  BY DEF IInv, TypeOK, PollInv, RowType
<1>4. GoneBy(poll.prev.times, published, now) => GoneBy(poll.prev.times, published, now')
  BY <1>3, GoneStays DEF Lasting
<1>5. DelayBetween'
  <2> SUFFICES /\ ~poll.prev.resolved => published = 0 /\ poll.prev.times.estimatedOut = NoTime
               /\ snapshot(poll.prev).delay # NoDelay => published = snapshot(poll.prev).delay
               /\ (poll.prev.status \notin Terminal /\ published > 0) =>
                    sig.delay >= published \/ GoneBy(poll.prev.times, published, now')
    BY <1>1 DEF DelayBetween
  <2>1. QED  BY <1>2, <1>4
<1>6. QED  BY <1>5 DEF DelayInv, DelayDuring

\* The clock, a poll that begins, an answer, and a failed resolve.
LEMMA DelayBegins ==
  ASSUME Untroubled, LandedHasDeparted, IInv, IInv', ToldInv, DelayInv,
         \/ Advance \/ Prune \/ ResolveFails \/ DismissPlanPart
         \/ (\E mode \in Modes : StartPoll(mode)) \/ (\E report \in Reports : Resolve(report))
  PROVE  DelayInv'
<1>0. /\ now \in Nat /\ now' \in Nat /\ published \in Nat /\ row \in RowType
      /\ row.times \in FlightTimesType
  BY AlertsAssumption DEF IInv, TypeOK, RowType
<1>1. CASE Advance
  <2>1. UNCHANGED <<row, sig, pc, poll, published>> /\ pc \in {"idle", "resolve"} /\ now <= now'
    BY <1>0, <1>1 DEF Advance, history
  <2>2. DelayKeeps'
    BY <2>1 DEF DelayInv, DelayKeeps
  <2>3. CASE pc = "resolve"
    BY <1>0, <2>1, <2>2, <2>3, DelayGoesOn
  <2>4. CASE pc = "idle"
    <3>1. Before = row /\ Before' = row
      BY <2>1, <2>4 DEF Before
    <3>2. GoneBy(row.times, published, now) => GoneBy(row.times, published, now')
      BY <1>0, <2>1, GoneStays DEF Lasting
    <3>3. DelayBetween'
      BY <2>1, <2>4, <3>1, <3>2 DEF DelayInv, DelayBetween, Unlisted
    <3>4. QED  BY <2>1, <2>2, <2>4, <3>3 DEF DelayInv, DelayDuring
  <2>5. QED  BY <2>1, <2>3, <2>4
<1>2. CASE Prune
  <2>1. UNCHANGED <<row, sig, pc, poll, published, now>> /\ pc = "idle"
    BY <1>2 DEF Prune, history, part
  <2>2. QED
    BY <2>1 DEF DelayInv, DelayKeeps, DelayBetween, DelayDuring, Before, Unlisted
<1>3. CASE ResolveFails
  <2>1. pc = "resolve" /\ UNCHANGED <<row, sig, now, published>>
    BY <1>3 DEF ResolveFails, part, history
  <2>2. pc' = "status" /\ UNCHANGED poll
    BY <1>3, <2>1 DEF ResolveFails, Abandon, ToldInv, PollKeeps
  <2>3. DelayKeeps'
    BY <2>1, <2>2 DEF DelayInv, DelayKeeps
  <2>4. QED  BY <1>0, <2>1, <2>2, <2>3, DelayGoesOn
<1>4. CASE DismissPlanPart
  <2>1. UNCHANGED <<sig, now, pc, poll, alert, published>>
    BY <1>4 DEF DismissPlanPart, history
  <2>2. row' = [row EXCEPT !.dismissed = TRUE]
    BY <1>4 DEF DismissPlanPart
  <2>3. /\ row'.status = row.status /\ row'.times = row.times /\ row'.resolved = row.resolved
    BY <1>0, <2>2 DEF RowType
  <2>4. snapshot(row').delay = snapshot(row).delay
    BY <2>3 DEF snapshot
  <2>5. DelayKeeps'
    BY <2>1, <2>3 DEF DelayInv, DelayKeeps
  <2>6. /\ Before'.status = Before.status /\ Before'.times = Before.times
        /\ Before'.resolved = Before.resolved
        /\ snapshot(Before').delay = snapshot(Before).delay
    BY <2>1, <2>3, <2>4 DEF Before
  <2>7. DelayBetween'
    BY <2>1, <2>3, <2>6 DEF DelayInv, DelayBetween, Unlisted
  <2>8. DelayDuring'
    BY <2>1, <2>3, <2>4 DEF DelayInv, DelayDuring
  <2>9. QED  BY <2>5, <2>7, <2>8 DEF DelayInv
<1>5. ASSUME NEW mode \in Modes, StartPoll(mode) PROVE DelayInv'
  <2>1. pc = "idle" /\ pc' \in {"resolve", "status"} /\ UNCHANGED <<row, sig, now, published>>
    BY <1>5 DEF StartPoll, part, history
  <2>2. poll'.prev = row
    BY <1>5 DEF StartPoll, NoPoll
  <2>3. Before' = row /\ Before = row
    BY <2>1, <2>2 DEF Before
  <2>4. Unlisted(row, published) => GoneBy(row.times, published, now)
    <3> SUFFICES ASSUME Unlisted(row, published) PROVE GoneBy(row.times, published, now)
      OBVIOUS
    <3>1. now > LandedAt(row.times)
      BY <1>5 DEF Unlisted, StartPoll, Listed, Modes, InActive, InMetadata, InRecentlyArrived,
                  Live, Untroubled
    <3>2. row.times.actualIn = NoTime /\ row.times.estimatedIn > row.times.scheduledOut + published
      BY DEF Unlisted
    <3>3. row.times.estimatedIn # NoTime
      BY <1>0, <3>2, TimesAreInts
    <3>4. now > row.times.estimatedIn
      BY <3>1, <3>2, <3>3 DEF LandedAt, First
    <3>5. now >= row.times.scheduledOut + published
      BY <1>0, <3>2, <3>4, TimesAreInts
    <3>6. QED  BY <3>5 DEF GoneBy
  <2>5. DelayKeeps'
    BY <2>1, <2>2, <2>3 DEF DelayInv, DelayBetween, DelayKeeps, Lasting
  <2>6. DelayBetween'
    BY <2>1, <2>3, <2>4 DEF DelayInv, DelayBetween
  <2>7. QED  BY <2>1, <2>5, <2>6 DEF DelayInv, DelayDuring
<1>6. ASSUME NEW report \in Reports, Resolve(report) PROVE DelayInv'
  <2>1. pc = "resolve" /\ pc' = "gate" /\ UNCHANGED <<row, sig, now, published>>
    BY <1>6 DEF Resolve, part, history
  <2>2. poll'.prev = poll.prev /\ poll'.report = report
    BY <1>6 DEF Resolve, IInv, TypeOK
  <2>3. DelayKeeps'
    BY <2>1, <2>2 DEF DelayInv, DelayKeeps, LandedHasDeparted
  <2>4. QED  BY <1>0, <2>1, <2>2, <2>3, DelayGoesOn
<1>7. QED  BY <1>1, <1>2, <1>3, <1>4, <1>5, <1>6

\* The statements of a poll change estimates, and note actual times once.
LEMMA DelayWrites ==
  ASSUME Untroubled, IInv, IInv', ToldInv, DelayInv,
         WriteGate \/ WriteBelt \/ WriteTimes \/ WriteVerdict \/ WriteTerminal \/ Confirm
  PROVE  DelayInv'
<1>1. /\ pc \in {"gate", "belt", "times", "verdict", "terminal", "confirm"}
      /\ UNCHANGED <<sig, now, published>>
  BY DEF WriteGate, WriteBelt, WriteTimes, WriteVerdict, WriteTerminal, Confirm, history
<1>2. /\ row \in RowType /\ row.times \in FlightTimesType /\ poll.report \in ReportType
      /\ poll \in PollType /\ poll.mode # "sweep" /\ now \in Nat
  BY <1>1, AlertsAssumption DEF IInv, TypeOK, PollInv, PollType, ToldInv, PollKeeps, RowType
<1>3. /\ poll.prev.resolved => row.resolved /\ Lasting(poll.prev.times, row.times)
      /\ ~row.resolved => published = 0
      /\ row.times.actualIn # NoTime => row.times.actualOut # NoTime
      /\ pc \in {"gate", "belt", "times"} =>
           (poll.report.actualIn # NoTime => poll.report.actualOut # NoTime)
  BY <1>1 DEF DelayInv, DelayKeeps
<1>4. /\ pc' \in {"belt", "times", "verdict", "terminal", "confirm", "status"}
      /\ poll'.prev = poll.prev /\ poll'.report = poll.report
      /\ pc' \in {"belt", "times"} => pc \in {"gate", "belt"}
  <2>1. CASE Confirm
    BY <1>2, <2>1 DEF Confirm, PollType
  <2>2. CASE WriteGate \/ WriteBelt \/ WriteTimes \/ WriteVerdict \/ WriteTerminal
    BY <2>2 DEF WriteGate, WriteBelt, WriteTimes, WriteVerdict, WriteTerminal, Goto
  <2>3. QED  BY <2>1, <2>2
<1>5. /\ row.resolved => row'.resolved /\ Lasting(row.times, row'.times)
      /\ row'.times.actualIn # NoTime => row'.times.actualOut # NoTime
  <2>1. CASE WriteTimes
    <3>1. row' = [row EXCEPT !.times = DepartureStored(ArrivalStored(row.times, poll.report), poll.report)]
      BY <2>1, CalmSteps DEF WriteTimes, Disturbances
    <3>2. /\ row'.times = DepartureStored(ArrivalStored(row.times, poll.report), poll.report)
          /\ row'.resolved = row.resolved
      BY <1>2, <3>1 DEF RowType
    <3>3. LET t == DepartureStored(ArrivalStored(row.times, poll.report), poll.report)
          IN  Lasting(row.times, t) /\ (t.actualIn # NoTime => t.actualOut # NoTime)
      <4> DEFINE t == ArrivalStored(row.times, poll.report)
      <4>1. t \in FlightTimesType /\ DepartureStored(t, poll.report) \in FlightTimesType
        BY <1>2, TimesStored
      <4>2. /\ t.scheduledOut = row.times.scheduledOut /\ t.scheduledIn = row.times.scheduledIn
            /\ t.actualOut = row.times.actualOut
            /\ t.actualIn = First(poll.report.actualIn, row.times.actualIn)
        BY <1>2 DEF ArrivalStored, FlightTimesType
      <4> HIDE DEF t
      <4>3. /\ DepartureStored(t, poll.report).scheduledOut = t.scheduledOut
            /\ DepartureStored(t, poll.report).scheduledIn = t.scheduledIn
            /\ DepartureStored(t, poll.report).actualIn = t.actualIn
            /\ DepartureStored(t, poll.report).actualOut = First(poll.report.actualOut, t.actualOut)
        BY <4>1 DEF DepartureStored, FlightTimesType
      <4>4. poll.report.actualIn # NoTime => poll.report.actualOut # NoTime
        BY <1>3, <2>1 DEF WriteTimes
      <4>5. QED
        BY <1>3, <4>2, <4>3, <4>4 DEF Lasting, First, t
    <3>4. QED  BY <3>2, <3>3
  <2>2. CASE WriteGate \/ WriteBelt \/ WriteVerdict \/ WriteTerminal
    <3>1. \/ row' = [row EXCEPT !.gate = Overwrite(row.gate, poll.report.gate)]
          \/ row' = [row EXCEPT !.belt =
               IF BeltIsCurrent(poll.prev.times, poll.at, BeltWindow) /\ poll.report.belt # None
               THEN poll.report.belt ELSE row.belt]
          \/ row' \in {row, [row EXCEPT !.status = poll.report.verdict]}
          \/ row' = [row EXCEPT !.term = Overwrite(row.term, poll.report.term)]
      BY <2>2 DEF WriteGate, WriteBelt, WriteVerdict, WriteTerminal
    <3>2. row'.times = row.times /\ row'.resolved = row.resolved
      BY <1>2, <3>1 DEF RowType
    <3>3. QED  BY <1>3, <3>2 DEF Lasting
  <2>3. CASE Confirm
    <3>1. row' = Marked(Rescheduled(row, poll.report))
      BY <2>3, CalmSteps DEF Confirm, Disturbances
    <3>2. row.resolved => Rescheduled(row, poll.report) = row
      BY DEF Rescheduled
    <3>3. row.resolved => row'.resolved /\ row'.times = row.times
      BY <1>2, <3>1, <3>2 DEF Marked, RowType
    <3>4. Rescheduled(row, poll.report) \in RowType
      BY <1>2, RescheduledType
    <3>5. row'.times = Rescheduled(row, poll.report).times
      BY <3>1, <3>4 DEF Marked, RowType
    <3>6. /\ row'.times.actualIn = row.times.actualIn
          /\ row'.times.actualOut = row.times.actualOut
      BY <1>2, <3>5 DEF Rescheduled, RowType, FlightTimesType
    <3>7. QED  BY <1>3, <3>3, <3>6 DEF Lasting
  <2>4. QED  BY <2>1, <2>2, <2>3
<1>6. DelayKeeps'
  BY <1>1, <1>3, <1>4, <1>5 DEF DelayKeeps, Lasting
<1>7. QED  BY <1>1, <1>2, <1>4, <1>6, DelayGoesOn

\* A delay is read off the times alone.
LEMMA DelayOfTimes ==
  ASSUME NEW r, NEW q, r.times = q.times
  PROVE  snapshot(r).delay = snapshot(q).delay
  BY DEF snapshot

LEMMA DelayRefresh ==
  ASSUME Untroubled, IInv, IInv', ToldInv, DelayInv, RefreshStatus
  PROVE  DelayInv'
<1>1. pc = "status" /\ row' = [row EXCEPT !.status = DerivedStatus(row.status, row.times, now)]
      /\ UNCHANGED <<sig, now, published>>
  BY CalmSteps DEF RefreshStatus, Disturbances, history
<1>2. row'.times = row.times /\ row'.resolved = row.resolved /\ now \in Nat
  BY <1>1, AlertsAssumption DEF IInv, TypeOK, RowType
<1>3. CASE poll.mode = "refresh" \/ poll.fresh
  <2>1. pc' = "alert" /\ UNCHANGED poll
    BY <1>3 DEF RefreshStatus, Goto
  <2>2. DelayKeeps'
    BY <1>1, <1>2, <2>1 DEF DelayInv, DelayKeeps
  <2>3. QED  BY <1>1, <1>2, <2>1, <2>2, DelayGoesOn
<1>4. CASE ~(poll.mode = "refresh" \/ poll.fresh)
  <2>1. pc' = "idle"
    BY <1>4 DEF RefreshStatus, EndPoll
  <2>2. /\ row.times = poll.prev.times /\ row.resolved = poll.prev.resolved
        /\ poll.prev.status \notin Terminal
    BY <1>1, <1>4 DEF ToldInv, PollKeeps, Untouched
  <2>3. Before = poll.prev /\ Before' = row'
    BY <1>1, <2>1 DEF Before
  <2>4. snapshot(row').delay = snapshot(poll.prev).delay
    BY <1>2, <2>2, DelayOfTimes
  <2>5. DelayBetween'
    BY <1>1, <1>2, <2>1, <2>2, <2>3, <2>4 DEF DelayInv, DelayBetween
  <2>6. QED  BY <1>2, <2>1, <2>5 DEF DelayInv, DelayKeeps, DelayDuring
<1>5. QED  BY <1>3, <1>4

\* What is known of the delays when the rows are compared.
LEMMA DelayCompared ==
  ASSUME IInv, ToldInv, DelayInv, pc = "alert"
  PROVE  /\ ~row.resolved => published = 0 /\ row.times.estimatedOut = NoTime
         /\ snapshot(poll.prev).delay # NoDelay => published = snapshot(poll.prev).delay
         /\ published > 0 => sig.delay >= published \/ GoneBy(row.times, published, now)
<1>1. /\ ~poll.prev.resolved => published = 0 /\ poll.prev.times.estimatedOut = NoTime
      /\ snapshot(poll.prev).delay # NoDelay => published = snapshot(poll.prev).delay
      /\ published > 0 => sig.delay >= published \/ GoneBy(poll.prev.times, published, now)
  BY DEF DelayInv, DelayBetween, Before, ToldInv, PollKeeps
<1>2. /\ published \in Nat /\ now \in Nat
      /\ row.times \in FlightTimesType /\ poll.prev.times \in FlightTimesType
  BY AlertsAssumption DEF IInv, TypeOK, PollInv, RowType
<1>3. ASSUME published > 0, GoneBy(poll.prev.times, published, now)
      PROVE  GoneBy(row.times, published, now)
  <2>1. poll.prev.resolved
    BY <1>1, <1>3
  <2>2. Lasting(poll.prev.times, row.times)
    BY <2>1 DEF DelayInv, DelayKeeps
  <2>3. QED  BY <1>2, <1>3, <2>2, GoneStays
<1>4. ~row.resolved => published = 0 /\ row.times.estimatedOut = NoTime
  <2> SUFFICES ASSUME ~row.resolved PROVE published = 0 /\ row.times.estimatedOut = NoTime
    OBVIOUS
  <2>1. row.times = poll.prev.times /\ row.resolved = poll.prev.resolved
    BY DEF ToldInv, PollKeeps, Untouched
  <2>2. QED  BY <1>1, <2>1
<1>5. QED  BY <1>1, <1>3, <1>4

\* A comparison with nothing to tell: the delay it saw was told, or is past telling.
LEMMA DelayNothing ==
  ASSUME Untroubled, IInv, ToldInv, DelayInv, NothingToTell
  PROVE  DelayInv'
<1> DEFINE d == snapshot(row).delay
<1>1. /\ pc = "alert" /\ pc' = "idle" /\ UNCHANGED <<row, sig, now>>
      /\ published' = IF d # NoDelay THEN d ELSE published
  BY DEF NothingToTell, Compare, EndPoll, part
<1>2. /\ row \in RowType /\ row.times \in FlightTimesType /\ now \in Nat /\ published \in Nat
      /\ d \in Nat \cup {NoDelay} /\ snapshot(poll.prev).delay \in Nat \cup {NoDelay}
      /\ sig.delay \in Nat \cup {NoDelay}
  BY <1>1, SnapshotType, AlertsAssumption DEF IInv, TypeOK, PollInv, RowType, StateType, SigType
<1>3. row.status \notin Terminal /\ poll.prev.status \notin Terminal
      /\ row.status = DerivedStatus(row.status, row.times, now)
      /\ (row.times.actualIn # NoTime => row.times.actualOut # NoTime)
  BY <1>1, NothingMissed DEF ToldInv, PollKeeps, DelayInv, DelayKeeps
<1>4. row.times.estimatedOut = NoTime => d = NoDelay
  BY DEF snapshot, Revised
<1>5. /\ ~row.resolved => published = 0 /\ row.times.estimatedOut = NoTime
      /\ snapshot(poll.prev).delay # NoDelay => published = snapshot(poll.prev).delay
      /\ published > 0 => sig.delay >= published \/ GoneBy(row.times, published, now)
  BY <1>1, DelayCompared
<1>6. ASSUME d # NoDelay, d > 0
      PROVE  sig.delay >= d \/ GoneBy(row.times, d, now) \/ Unlisted(row, d)
  <2>1. CASE snapshot(row).departed
    BY <1>2, <1>3, <1>6, <2>1, GoneWhenDeparted
  <2>2. CASE Kind # "none"
    <3>1. signature(SigState, sig) = sig \/ Minutes(SigState.delay) <= sig.delay
      BY <2>2 DEF NothingToTell, AlreadyTold
    <3>2. /\ signature(SigState, sig).delay = d /\ SigState.delay = d
      BY <1>1, <1>3, <1>6, NewSignature
    <3>3. QED  BY <1>2, <1>6, <3>1, <3>2 DEF Minutes
  <2>3. CASE Kind = "none" /\ ~snapshot(row).departed
    <3>1. ~(Minutes(d) > Minutes(snapshot(poll.prev).delay))
      BY <1>1, <1>3, <1>6, <2>3, KindMeans
    <3>2. d <= published /\ published > 0
      BY <1>2, <1>5, <1>6, <3>1 DEF Minutes, NoDelay
    <3>3. CASE sig.delay >= published
      BY <1>2, <3>2, <3>3 DEF NoDelay
    <3>4. CASE GoneBy(row.times, published, now)
      BY <1>2, <1>6, <3>2, <3>4, GoneStays DEF Lasting, NoDelay
    <3>5. QED  BY <1>5, <3>2, <3>3, <3>4
  <2>4. QED  BY <2>1, <2>2, <2>3
<1>7. Before' = row
  BY <1>1 DEF Before
<1>8. DelayBetween'
  <2>1. ~row.resolved => published' = 0 /\ row.times.estimatedOut = NoTime
    BY <1>1, <1>4, <1>5
  <2>2. d # NoDelay => published' = d
    BY <1>1
  <2>3. published' > 0 => \/ sig.delay >= published' \/ GoneBy(row.times, published', now)
                          \/ Unlisted(row, published')
    BY <1>1, <1>5, <1>6
  <2> HIDE DEF d
  <2>4. QED  BY <1>1, <1>7, <2>1, <2>2, <2>3 DEF DelayBetween, d
<1>9. QED  BY <1>1, <1>3, <1>8 DEF DelayInv, DelayKeeps, DelayDuring

\* An announcement carries the delay the comparison saw, or the one told last.
LEMMA DelayAnnounce ==
  ASSUME Untroubled, IInv, ToldInv, DelayInv, Announce
  PROVE  DelayInv'
<1> DEFINE d == snapshot(row).delay
<1>1. /\ pc = "alert" /\ pc' = "dispatch" /\ UNCHANGED <<row, sig, now, poll>>
      /\ alert'.sig = signature(SigState, sig)
      /\ published' = IF d # NoDelay THEN d ELSE published
  BY DEF Announce, Compare, part
<1>2. /\ published \in Nat /\ d \in Nat \cup {NoDelay}
  BY SnapshotType DEF IInv, TypeOK, StateType
<1>3. row.times.estimatedOut = NoTime => d = NoDelay
  BY DEF snapshot, Revised
<1>4. /\ ~row.resolved => published = 0 /\ row.times.estimatedOut = NoTime
      /\ published > 0 => sig.delay >= published \/ GoneBy(row.times, published, now)
  BY <1>1, DelayCompared
<1>5. row.status \notin Terminal => alert'.sig.delay = IF d = NoDelay THEN sig.delay ELSE d
  BY <1>1, NewSignature
<1>6. ~row.resolved => published' = 0 /\ row.times.estimatedOut = NoTime
  BY <1>1, <1>3, <1>4
<1>7. DelayDuring'
  <2>1. d # NoDelay => published' = d
    BY <1>1
  <2>2. (row.status \notin Terminal /\ published' > 0) =>
          alert'.sig.delay >= published' \/ GoneBy(row.times, published', now)
    BY <1>1, <1>2, <1>4, <1>5
  <2> HIDE DEF d
  <2>3. QED  BY <1>1, <1>6, <2>1, <2>2 DEF DelayDuring, d
<1>8. DelayKeeps'
  BY <1>1, <1>6 DEF DelayInv, DelayKeeps
<1>9. QED  BY <1>1, <1>7, <1>8 DEF DelayInv, DelayBetween

LEMMA DelayDispatch ==
  ASSUME Untroubled, DelayInv, Stamp \/ \E r \in Recipients : Deliver(r)
  PROVE  DelayInv'
<1>1. pc = "dispatch" /\ UNCHANGED <<row, now, published>>
  BY DEF Stamp, Deliver, part, history
<1>2. CASE Stamp
  <2>1. sig' = alert.sig /\ pc' = "idle"
    BY <1>2, CalmSteps DEF Stamp, Disturbances, EndPoll
  <2>2. Before' = row
    BY <1>1, <2>1 DEF Before
  <2>3. DelayBetween'
    BY <1>1, <2>1, <2>2 DEF DelayInv, DelayDuring, DelayBetween
  <2>4. QED  BY <1>1, <2>1, <2>3 DEF DelayInv, DelayKeeps, DelayDuring
<1>3. CASE \E r \in Recipients : Deliver(r)
  <2>1. UNCHANGED <<sig, pc, poll, alert>>
    BY <1>3 DEF Deliver, part
  <2>2. QED
    BY <1>1, <2>1 DEF DelayInv, DelayKeeps, DelayBetween, DelayDuring
<1>4. QED  BY <1>2, <1>3

LEMMA DelayStep ==
  ASSUME Untroubled, LandedHasDeparted
  PROVE  IInv /\ IInv' /\ ToldInv /\ DelayInv /\ [Next]_vars => DelayInv'
<1> SUFFICES ASSUME IInv, IInv', ToldInv, DelayInv, [Next]_vars PROVE DelayInv'
  OBVIOUS
<1>1. CASE UNCHANGED vars
  <2>1. UNCHANGED <<row, sig, now, pc, poll, alert, published>>
    BY <1>1 DEF vars
  <2>2. QED
    BY <2>1 DEF DelayInv, DelayKeeps, DelayBetween, DelayDuring, Before, Unlisted
<1>2. CASE Next
  <2>1. Advance \/ Prune \/ ResolveFails \/ DismissPlanPart \/ PollStep
    BY <1>2, CalmSteps
  <2>2. QED
    BY <2>1, DelayBegins, DelayWrites, DelayRefresh, DelayNothing, DelayAnnounce, DelayDispatch
       DEF PollStep
<1>3. QED  BY <1>1, <1>2

(***************************************************************************)
(* A delay alert names a longer delay than any comparison saw last, over   *)
(* withdrawn and restored estimates and the alerts stamped between them    *)
(* (changeKind, signatureCarryingDelay), given that parts begin without an *)
(* estimate, that a landing is not reported before its departure, and caps *)
(* ordered as the code's are.                                              *)
(***************************************************************************)
THEOREM DelaysAreNews ==
  Untroubled /\ CapsOrdered /\ Unestimated /\ LandedHasDeparted => (Spec => DelayAlertIsNews)
<1> SUFFICES ASSUME Untroubled, CapsOrdered, Unestimated, LandedHasDeparted
             PROVE  Spec => DelayAlertIsNews
  OBVIOUS
<1> DEFINE Raised == pc = "alert" /\ pc' = "dispatch" /\ alert'.kind = "delayed"
           News == alert'.delay > published
<1>1. IInv /\ IInv' /\ ToldInv /\ DelayInv /\ [Next]_vars => DelayInv'
  BY DelayStep
<1>2. Init => DelayInv
  BY DelayInitially
<1>3. IInv /\ ToldInv /\ DelayInv /\ [Next]_vars => [Raised => News]_vars
  <2> SUFFICES ASSUME IInv, ToldInv, DelayInv, Next, Raised PROVE News
    BY DEF vars
  <2> DEFINE d == snapshot(row).delay
  <2>1. Advance \/ Prune \/ ResolveFails \/ DismissPlanPart \/ PollStep
    BY CalmSteps
  <2>2. Announce
    BY <2>1 DEF Advance, Prune, ResolveFails, DismissPlanPart, PollStep, StartPoll, Resolve,
           WriteGate, WriteBelt, WriteTimes, WriteVerdict, WriteTerminal, Confirm, RefreshStatus,
           NothingToTell, Deliver, Stamp, EndPoll
  <2>3. Kind = "delayed" /\ alert'.delay = Minutes(SigState.delay)
        /\ ~AlreadyTold(Kind, SigState, sig)
    BY <2>2 DEF Announce
  <2>4. poll.prev.status \notin Terminal
        /\ row.status = DerivedStatus(row.status, row.times, now)
        /\ (row.times.actualIn # NoTime => row.times.actualOut # NoTime)
    BY DEF ToldInv, PollKeeps, DelayInv, DelayKeeps
  <2>5. /\ d # NoDelay /\ ~snapshot(row).departed /\ row.status \notin Terminal
        /\ Minutes(d) > Minutes(snapshot(poll.prev).delay)
    BY <2>3, <2>4, KindMeans
  <2>6. /\ row \in RowType /\ now \in Nat /\ published \in Nat
        /\ d \in Nat \cup {NoDelay} /\ snapshot(poll.prev).delay \in Nat \cup {NoDelay}
        /\ sig.delay \in Nat \cup {NoDelay}
    BY SnapshotType, AlertsAssumption DEF IInv, TypeOK, PollInv, StateType, SigType
  <2>7. /\ snapshot(poll.prev).delay # NoDelay => published = snapshot(poll.prev).delay
        /\ published > 0 => sig.delay >= published \/ GoneBy(row.times, published, now)
    BY DelayCompared
  <2>8. alert'.delay = d /\ Minutes(d) = d
    BY <2>3, <2>5, NewSignature DEF Minutes
  <2>9. d > 0
    BY <2>5, <2>6, <2>8 DEF Minutes, NoDelay
  <2>10. CASE published > 0 /\ sig.delay >= published
    <3>1. sig # NoSig /\ sig.delay # NoDelay
      BY <2>6, <2>10 DEF NoSig, NoDelay
    <3>2. ~(d <= sig.delay)
      BY <2>3, <2>8, <3>1 DEF AlreadyTold
    <3>3. QED  BY <2>6, <2>8, <2>9, <2>10, <3>2 DEF NoDelay
  <2>11. CASE published > 0 /\ GoneBy(row.times, published, now)
    BY <2>4, <2>5, <2>6, <2>8, <2>9, <2>11, GoneIsShorter
  <2>12. CASE ~(published > 0)
    BY <2>6, <2>8, <2>9, <2>12
  <2>13. QED  BY <2>7, <2>10, <2>11, <2>12
<1>4. QED  BY <1>1, <1>2, <1>3, Invariance, ToldIsKnown, PTL DEF Spec, DelayAlertIsNews
=============================================================================
