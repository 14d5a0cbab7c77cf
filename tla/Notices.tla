------------------------------ MODULE Notices ------------------------------
(***************************************************************************)
(* The one-off notices of the poller (internal/poller: reminders.go,       *)
(* checkins.go, departures.go; internal/store: reminders.go, checkins.go,  *)
(* departures.go, alerts.go; internal/handlers: handlers_reminders.go,     *)
(* handlers_alerts.go) for the parts of one flight plan of one trip.       *)
(*                                                                         *)
(* A tick reads the clock once and runs the three passes in turn.  A pass  *)
(* lists what is due, looks the plan's audience up once, and dispatches    *)
(* each notice: in-app row, mail, mark, push.  Every statement is a step;  *)
(* between two of them people change their minds, the part is moved or     *)
(* deleted, a statement fails, the dispatch panics or the process dies.    *)
(***************************************************************************)
EXTENDS Integers, Sequences

CONSTANTS
  None,
  Users,       \* who may view the trip
  Parts,
  Passes,      \* the kinds of notice in the order a tick runs them
  FlightLead,  \* CheckinLead and DepartureSummaryLead, by kind
  DefaultLead, MaxLead,  \* clampLead's 24 and 8760 hours
  LeadsAsked,  \* what a client puts in lead_hours
  InitialWishes, InitialStart,
  MaxNow, MaxFaults, MaxBounces, MaxEdits  \* bounds of a run

Kinds == {Passes[k] : k \in DOMAIN Passes}
Time == 0 .. MaxNow
Notice == [kind : Kinds, part : Parts, user : Users]

\* inApp, mail: the channels as the due list read them.
Item == [kind : Kinds, part : Parts, user : Users, inApp : BOOLEAN, mail : BOOLEAN]
Key(i) == [kind |-> i.kind, part |-> i.part, user |-> i.user]

\* A part is off when cancelled or dismissed, grounded when only its live
\* flight status is Cancelled or Diverted.
Standing == {"on", "grounded", "off", "gone"}

clampLead(h) == IF h <= 0 THEN DefaultLead ELSE IF h > MaxLead THEN MaxLead ELSE h

Lead == {clampLead(h) : h \in LeadsAsked}
Override == [enabled : BOOLEAN, lead : Lead]

WishType ==
  [trip : Lead \cup {None}, plan : Override \cup {None},
   inApp : BOOLEAN, email : BOOLEAN, kinds : SUBSET Kinds,
   rides : BOOLEAN,    \* creator or passenger of the plan
   optin : BOOLEAN,    \* plan_alert_optin
   address : BOOLEAN,  \* has a verified address, and mail is configured
   push : SUBSET Kinds]

ASSUME NoticesAssumption ==
  /\ Passes \in Seq({"reminder", "checkin", "departure"})
  /\ FlightLead \in [{"checkin", "departure"} -> Nat]
  /\ LeadsAsked \subseteq Int
  /\ DefaultLead \in Nat \ {0} /\ MaxLead \in Nat \ {0}
  /\ \A x \in Lead : x # None
  /\ \A x \in Override : x # None
  /\ \A x \in SUBSET Users : x # None
  /\ \A x \in Item : x # None
  /\ InitialWishes \subseteq [Users -> WishType]
  /\ InitialStart \subseteq [Parts -> Time]
  /\ {MaxNow, MaxFaults, MaxBounces, MaxEdits} \subseteq Nat

VARIABLES
  now,
  starts,    \* plan_parts.starts_at
  standing,
  visible,   \* VisiblePlanUserIDs of the plan
  wish,      \* reminder opt-ins, alert_prefs, push prefs, addresses
  sent,      \* plan_reminder_sent, flight_checkin_sent, flight_departure_summary_sent
  rows,      \* rows ever inserted in flight_alerts
  mails,     \* mails accepted for delivery
  pushed,    \* pushes sent
  muted,     \* history: notices dispatched with every channel off
  step,      \* what the tick does next
  tick,      \* its instant, pass, remaining items and cached audience
  item,      \* the notice being dispatched
  delivered, \* dispatchCheckin's local
  admitted,  \* history: who has seen the plan since the tick began
  left       \* faults, bounced mails and edits a run may still have

table == <<starts, standing, visible, wish>>
outbox == <<rows, mails, pushed, muted>>
poller == <<step, tick, item, delivered>>
vars == <<now, table, sent, outbox, poller, admitted, left>>

IdleTick == [at |-> 0, pass |-> 1, queue |-> {}, audience |-> None]

Init ==
  /\ now = 0
  /\ starts \in InitialStart
  /\ standing = [p \in Parts |-> "on"]
  /\ visible \in {Users} \cup {Users \ {u} : u \in Users}
  /\ wish \in InitialWishes
  /\ sent = {} /\ muted = {}
  /\ rows = [n \in Notice |-> 0]
  /\ mails = [n \in Notice |-> 0]
  /\ pushed = [n \in Notice |-> 0]
  /\ step = "idle" /\ tick = IdleTick /\ item = None /\ delivered = FALSE
  /\ admitted = visible
  /\ left = [faults |-> MaxFaults, bounces |-> MaxBounces, edits |-> MaxEdits]

----------------------------------------------------------------------------
(* What is due *)

\* A plan's own setting beats the trip's.
Reminding(u) ==
  LET w == wish[u] IN IF w.plan # None THEN w.plan.enabled ELSE w.trip # None
ReminderLead(u) == IF wish[u].plan # None THEN wish[u].plan.lead ELSE wish[u].trip

Wants(n) ==
  IF n.kind = "reminder" THEN Reminding(n.user)
  ELSE (wish[n.user].rides \/ wish[n.user].optin) /\ n.kind \in wish[n.user].kinds
LeadOf(n) == IF n.kind = "reminder" THEN ReminderLead(n.user) ELSE FlightLead[n.kind]

Fit(n) ==
  IF n.kind = "reminder" THEN standing[n.part] \in {"on", "grounded"}
  ELSE standing[n.part] = "on"

Due(n, at) ==
  /\ Wants(n) /\ Fit(n)
  /\ n \notin sent
  /\ starts[n.part] > at
  /\ at >= starts[n.part] - LeadOf(n)

\* A reminder is always in the inbox; only its mail depends on an address.
Read(n) ==
  LET w == wish[n.user] IN
  [kind |-> n.kind, part |-> n.part, user |-> n.user,
   inApp |-> n.kind = "reminder" \/ w.inApp,
   mail |-> (n.kind = "reminder" \/ w.email) /\ w.address]

DueList(kind, at) == {Read(n) : n \in {m \in Notice : m.kind = kind /\ Due(m, at)}}

----------------------------------------------------------------------------
(* The tick *)

Fault == left.faults > 0 /\ left' = [left EXCEPT !.faults = @ - 1]

StartTick ==
  /\ step = "idle" /\ Passes # << >>
  /\ step' = "list"
  /\ tick' = [IdleTick EXCEPT !.at = now]
  /\ admitted' = visible
  /\ UNCHANGED <<now, table, sent, outbox, item, delivered, left>>

ListDue ==
  /\ step = "list"
  /\ step' = "next"
  /\ tick' = [tick EXCEPT !.queue = DueList(Passes[tick.pass], tick.at), !.audience = None]
  /\ UNCHANGED <<now, table, sent, outbox, item, delivered, admitted, left>>

ListFails ==
  /\ step = "list" /\ Fault
  /\ step' = "next"
  /\ tick' = [tick EXCEPT !.queue = {}, !.audience = None]
  /\ UNCHANGED <<now, table, sent, outbox, item, delivered, admitted>>

EndPass ==
  /\ step = "next" /\ tick.queue = {}
  /\ IF tick.pass < Len(Passes)
     THEN step' = "list" /\ tick' = [tick EXCEPT !.pass = @ + 1, !.audience = None]
     ELSE step' = "idle" /\ tick' = IdleTick
  /\ UNCHANGED <<now, table, sent, outbox, item, delivered, admitted, left>>

\* A slip: the audience is looked up and not consulted.
TakeUnchecked(i) ==
  /\ step = "next" /\ i \in tick.queue
  /\ tick' = [tick EXCEPT !.queue = @ \ {i},
                          !.audience = IF @ = None THEN visible ELSE @]
  /\ item' = i /\ step' = (IF i.kind = "departure" THEN "load" ELSE "inApp")
  /\ delivered' = FALSE
  /\ UNCHANGED <<now, table, sent, outbox, admitted, left>>

\* A slip: return where the loop says continue.
TakeOrReturn(i) ==
  LET audience == IF tick.audience = None THEN visible ELSE tick.audience
      ok == i.user \in audience IN
  /\ step = "next" /\ i \in tick.queue
  /\ tick' = [tick EXCEPT !.queue = IF ok THEN @ \ {i} ELSE {}, !.audience = audience]
  /\ item' = (IF ok THEN i ELSE None)
  /\ step' = (IF ~ok THEN "next" ELSE IF i.kind = "departure" THEN "load" ELSE "inApp")
  /\ delivered' = FALSE
  /\ UNCHANGED <<now, table, sent, outbox, admitted, left>>

\* The audience is looked up for the first item of the plan and kept.
Take(i) ==
  LET audience == IF tick.audience = None THEN visible ELSE tick.audience IN
  /\ step = "next" /\ i \in tick.queue
  /\ tick' = [tick EXCEPT !.queue = @ \ {i}, !.audience = audience]
  /\ IF i.user \in audience
     THEN item' = i /\ step' = (IF i.kind = "departure" THEN "load" ELSE "inApp")
     ELSE UNCHANGED <<item, step>>
  /\ delivered' = FALSE
  /\ UNCHANGED <<now, table, sent, outbox, admitted, left>>

LookUpFails(i) ==
  /\ step = "next" /\ i \in tick.queue /\ tick.audience = None /\ Fault
  /\ tick' = [tick EXCEPT !.queue = @ \ {i}]
  /\ UNCHANGED <<now, table, sent, outbox, step, item, delivered, admitted>>

----------------------------------------------------------------------------
(* One dispatch *)

Leave == step' = "next" /\ item' = None /\ delivered' = FALSE

\* departureInput: the flight and its plan must still be there.
Load ==
  /\ step = "load" /\ standing[item.part] # "gone"
  /\ step' = "inApp"
  /\ UNCHANGED <<now, table, sent, outbox, tick, item, delivered, admitted, left>>

LoadFails ==
  /\ step = "load"
  /\ \/ standing[item.part] = "gone" /\ UNCHANGED left
     \/ Fault
  /\ Leave
  /\ UNCHANGED <<now, table, sent, outbox, tick, admitted>>

InApp ==
  /\ step = "inApp"
  /\ IF item.inApp
     THEN rows' = [rows EXCEPT ![Key(item)] = @ + 1] /\ delivered' = TRUE
     ELSE UNCHANGED <<rows, delivered>>
  /\ step' = "mail"
  /\ UNCHANGED <<now, table, sent, mails, pushed, muted, tick, item, admitted, left>>

\* The statement reports an error; its row may have been committed all the same.
InAppFails ==
  /\ step = "inApp" /\ item.inApp /\ Fault
  /\ rows' \in {rows, [rows EXCEPT ![Key(item)] = @ + 1]}
  /\ Leave
  /\ UNCHANGED <<now, table, sent, mails, pushed, muted, tick, admitted>>

Mail ==
  /\ step = "mail"
  /\ IF item.mail
     THEN mails' = [mails EXCEPT ![Key(item)] = @ + 1] /\ delivered' = TRUE
     ELSE UNCHANGED <<mails, delivered>>
  /\ muted' = IF item.mail \/ item.inApp THEN muted ELSE muted \cup {Key(item)}
  /\ step' = "mark"
  /\ UNCHANGED <<now, table, sent, rows, pushed, tick, item, admitted, left>>

\* Sending reports an error; the mail may have been accepted all the same.
Bounce ==
  /\ step = "mail" /\ item.mail /\ left.bounces > 0
  /\ left' = [left EXCEPT !.bounces = @ - 1]
  /\ mails' \in {mails, [mails EXCEPT ![Key(item)] = @ + 1]}
  /\ UNCHANGED <<now, table, sent, rows, pushed, muted, tick, admitted>>

\* A slip: a bounced mail leaves the notice unmarked although its row is in the inbox.
MailBouncesRetried == Bounce /\ Leave

\* If no row was inserted either, the notice is left unmarked for the next tick.
MailBounces ==
  /\ Bounce
  /\ IF delivered
     THEN step' = "mark" /\ UNCHANGED <<item, delivered>>
     ELSE Leave

Mark ==
  /\ step = "mark" /\ standing[item.part] # "gone"
  /\ sent' = sent \cup {Key(item)}
  /\ step' = "push"
  /\ UNCHANGED <<now, table, outbox, tick, item, delivered, admitted, left>>

\* A slip: a failed mark is logged and the push goes out all the same.
MarkFailsPushed ==
  /\ step = "mark" /\ standing[item.part] # "gone" /\ Fault
  /\ sent' \in {sent, sent \cup {Key(item)}}
  /\ step' = "push"
  /\ UNCHANGED <<now, table, outbox, tick, item, delivered, admitted>>

MarkFails ==
  /\ step = "mark"
  /\ \/ standing[item.part] = "gone" /\ UNCHANGED <<sent, left>>
     \/ standing[item.part] # "gone" /\ Fault /\ sent' \in {sent, sent \cup {Key(item)}}
  /\ Leave
  /\ UNCHANGED <<now, table, outbox, tick, admitted>>

\* PushKindEnabled is read here, not when the list was.
Push ==
  /\ step = "push"
  /\ pushed' = IF item.kind \in wish[item.user].push
               THEN [pushed EXCEPT ![Key(item)] = @ + 1] ELSE pushed
  /\ Leave
  /\ UNCHANGED <<now, table, sent, rows, mails, muted, tick, admitted, left>>

Panic ==
  /\ item # None /\ Fault
  /\ Leave
  /\ UNCHANGED <<now, table, sent, outbox, tick, admitted>>

Crash ==
  /\ step # "idle" /\ Fault
  /\ step' = "idle" /\ tick' = IdleTick /\ item' = None /\ delivered' = FALSE
  /\ UNCHANGED <<now, table, sent, outbox, admitted>>

----------------------------------------------------------------------------
(* Everybody else *)

Edit == left.edits > 0 /\ left' = [left EXCEPT !.edits = @ - 1]

Wish(u, w) ==
  /\ Edit /\ w # wish[u]
  /\ wish' = [wish EXCEPT ![u] = w]
  /\ UNCHANGED <<now, starts, standing, visible, sent, outbox, poller, admitted>>

\* Who may view the trip may ask to be reminded of it, though the plan be
\* hidden from them.
setTripReminder(u, h) == Wish(u, [wish[u] EXCEPT !.trip = clampLead(h)])
deleteTripReminder(u) == Wish(u, [wish[u] EXCEPT !.trip = None])
setPlanReminder(u, on, h) ==
  u \in visible /\ Wish(u, [wish[u] EXCEPT !.plan = [enabled |-> on, lead |-> clampLead(h)]])
deletePlanReminder(u) == Wish(u, [wish[u] EXCEPT !.plan = None])
setAlertPrefs(u) ==
  \/ \E b \in BOOLEAN : Wish(u, [wish[u] EXCEPT !.inApp = b])
  \/ \E b \in BOOLEAN : Wish(u, [wish[u] EXCEPT !.email = b])
  \/ \E k \in Kinds \ {"reminder"} :
       \/ Wish(u, [wish[u] EXCEPT !.kinds = @ \cup {k}])
       \/ Wish(u, [wish[u] EXCEPT !.kinds = @ \ {k}])
addPlanAlertOptin(u) == u \in visible /\ Wish(u, [wish[u] EXCEPT !.optin = TRUE])
removePlanAlertOptin(u) == Wish(u, [wish[u] EXCEPT !.optin = FALSE])

\* UpdatePlanPart, DismissPlanPart, DeletePlanPart, RefreshFlightPartStatus
Table(p, at, s) ==
  /\ Edit /\ standing[p] # "gone"
  /\ starts' = [starts EXCEPT ![p] = at]
  /\ standing' = [standing EXCEPT ![p] = s]
  /\ UNCHANGED <<now, visible, wish, sent, outbox, poller, admitted>>
EditPart ==
  \E p \in Parts :
    \/ \E at \in Time : Table(p, at, standing[p])
    \/ \E s \in Standing : Table(p, starts[p], s)

\* SetPlanVisibility, RemoveTripMember and the rest of TripSharing.
Reshare ==
  /\ Edit
  /\ visible' \in SUBSET Users
  /\ admitted' = admitted \cup visible'
  /\ UNCHANGED <<now, starts, standing, wish, sent, outbox, poller>>

Advance ==
  /\ now < MaxNow
  /\ now' = now + 1
  /\ UNCHANGED <<table, sent, outbox, poller, admitted, left>>

Dispatch ==
  \/ Load \/ LoadFails \/ InApp \/ InAppFails \/ Mail \/ MailBounces
  \/ Mark \/ MarkFails \/ Push
TickStep ==
  \/ StartTick \/ ListDue \/ ListFails \/ EndPass
  \/ \E i \in tick.queue : Take(i) \/ LookUpFails(i)
  \/ Dispatch
WishStep ==
  \E u \in Users :
    \/ \E h \in LeadsAsked :
         setTripReminder(u, h) \/ \E on \in BOOLEAN : setPlanReminder(u, on, h)
    \/ deleteTripReminder(u) \/ deletePlanReminder(u)
    \/ setAlertPrefs(u) \/ addPlanAlertOptin(u) \/ removePlanAlertOptin(u)

Next == TickStep \/ Panic \/ Crash \/ WishStep \/ EditPart \/ Reshare \/ Advance

Spec == Init /\ [][Next]_vars

\* The ticker fires again and again, and a dispatch never blocks for ever.
FairSpec == Spec /\ WF_vars(TickStep)

----------------------------------------------------------------------------
(* Properties *)

Steps == {"idle", "list", "next", "load", "inApp", "mail", "mark", "push"}

\* The tables and the poll keep their shape, and a notice is being dispatched
\* exactly in the steps of a dispatch.
TypeOK ==
  /\ now \in Time /\ starts \in [Parts -> Time] /\ standing \in [Parts -> Standing]
  /\ visible \subseteq Users /\ wish \in [Users -> WishType]
  /\ sent \subseteq Notice /\ muted \subseteq Notice
  /\ rows \in [Notice -> Nat] /\ mails \in [Notice -> Nat] /\ pushed \in [Notice -> Nat]
  /\ step \in Steps
  /\ tick \in [at : Time, pass : 1 .. Len(Passes) + 1, queue : SUBSET Item,
               audience : (SUBSET Users) \cup {None}]
  /\ item \in Item \cup {None} /\ delivered \in BOOLEAN
  /\ admitted \subseteq Users
  /\ left \in [faults : 0 .. MaxFaults, bounces : 0 .. MaxBounces, edits : 0 .. MaxEdits]
  /\ (item = None) <=> step \in {"idle", "list", "next"}

\* A traveller gets a second inbox row of one notice only after a statement
\* failed, the dispatch panicked or the process died; a bounced mail, a changed
\* wish or a moved part never repeats one (checkins.go:104-116, "re-sending to
\* catch a flaky sendmail would duplicate the row").  A second mail takes such
\* a fault too, or one that was reported lost and arrived all the same.
NoRepeatWithoutFault ==
  \A n \in Notice :
    LET most == 1 + MaxFaults - left.faults
    IN  rows[n] <= most /\ mails[n] <= most + MaxBounces - left.bounces

\* Nothing is delivered to someone who could not see the plan at any time
\* since the tick began: an audience read in the tick may be stale by one
\* tick and no more, and a failed look-up admits nobody (reminders.go:36-48).
HiddenNotTold ==
  [][\A n \in Notice :
       (rows'[n] # rows[n] \/ mails'[n] # mails[n] \/ pushed'[n] # pushed[n])
         => n.user \in admitted]_vars

\* A notice that is due, and whose traveller may see the plan, from some time
\* on is marked in the end: no other notice, no failure and no bounce starves
\* it (checkins.go:104-111, the retry on the next tick).
EligibleIsClosed ==
  \A n \in Notice :
    <>[](Due(n, now) /\ n.user \in visible) => <>(n \in sent)

Promise ==
  INSTANCE NoticePromise WITH
    Notices <- Notice,
    told <- {n \in Notice : rows[n] > 0 \/ mails[n] > 0},
    closed <- sent, echoes <- pushed

\* The passes implement NoticePromise: marked only once told, never told once
\* marked, pushed once at most (reminders.go:86-99, "Skip the push rather than
\* send one the retry will repeat").
PromiseKept == Promise!Spec
============================================================================
