--------------------------- MODULE Notices_proofs ---------------------------
(***************************************************************************)
(* Proofs about Notices, for every set of users and parts, every order of  *)
(* passes, and any number of faults, bounces and edits.                    *)
(***************************************************************************)
EXTENDS Notices, TLAPS

Told == {n \in Notice : rows[n] > 0 \/ mails[n] > 0}
Dispatching == {"load", "inApp", "mail", "mark"}

PassNo == 1 .. Len(Passes) + 1
Queue == SUBSET Item
Audience == (SUBSET Users) \cup {None}
TickType == [at : Time, pass : PassNo, queue : Queue, audience : Audience]
LeftType == [faults : 0 .. MaxFaults, bounces : 0 .. MaxBounces, edits : 0 .. MaxEdits]

LEMMA ItemFields ==
  ASSUME NEW i \in Item
  PROVE  /\ i.kind \in Kinds /\ i.part \in Parts /\ i.user \in Users
         /\ i.inApp \in BOOLEAN /\ i.mail \in BOOLEAN
         /\ Key(i) \in Notice /\ Key(i).user = i.user
  BY DEF Item, Key, Notice

LEMMA TickFields ==
  ASSUME NEW t \in TickType
  PROVE  /\ t.at \in Time /\ t.pass \in PassNo /\ t.queue \in Queue
         /\ t.audience \in Audience
  BY DEF TickType

\* Whatever is changed in a tick is changed to something of its type.
LEMMA TickSet ==
  ASSUME NEW t \in TickType, NEW q \in Queue, NEW a \in Audience, NEW k \in PassNo
  PROVE  /\ [t EXCEPT !.queue = q, !.audience = a] \in TickType
         /\ [t EXCEPT !.queue = q] \in TickType
         /\ [t EXCEPT !.pass = k, !.audience = a] \in TickType
  BY DEF TickType

LEMMA LeftSet ==
  ASSUME left \in LeftType
  PROVE  /\ left.faults \in 0 .. MaxFaults /\ left.bounces \in 0 .. MaxBounces /\ left.edits \in 0 .. MaxEdits
         /\ Fault => left' \in LeftType
         /\ Edit => left' \in LeftType
         /\ left.bounces > 0 => [left EXCEPT !.bounces = @ - 1] \in LeftType
<1>1. MaxFaults \in Nat /\ MaxBounces \in Nat /\ MaxEdits \in Nat
  BY NoticesAssumption
<1>2. left.faults \in 0 .. MaxFaults /\ left.bounces \in 0 .. MaxBounces /\ left.edits \in 0 .. MaxEdits
  BY DEF LeftType
<1>3. Fault => left' \in LeftType
  BY <1>1, <1>2 DEF Fault, LeftType
<1>4. Edit => left' \in LeftType
  BY <1>1, <1>2 DEF Edit, LeftType
<1>5. left.bounces > 0 => [left EXCEPT !.bounces = @ - 1] \in LeftType
  BY <1>1, <1>2 DEF LeftType
<1> QED
  BY <1>2, <1>3, <1>4, <1>5

LEMMA Counting ==
  ASSUME NEW c \in [Notice -> Nat], NEW n \in Notice
  PROVE  [c EXCEPT ![n] = @ + 1] \in [Notice -> Nat]
  OBVIOUS

LEMMA DueItems ==
  ASSUME wish \in [Users -> WishType], NEW k, NEW at
  PROVE  DueList(k, at) \subseteq Item
<1>1. ASSUME NEW n \in Notice PROVE Read(n) \in Item
  <2>1. n.user \in Users /\ n.kind \in Kinds /\ n.part \in Parts /\ wish[n.user] \in WishType
    BY DEF Notice
  <2>2. /\ wish[n.user].inApp \in BOOLEAN /\ wish[n.user].email \in BOOLEAN
        /\ wish[n.user].address \in BOOLEAN
    BY <2>1 DEF WishType
  <2> QED
    BY <2>1, <2>2 DEF Read, Item
<1> QED
  BY <1>1 DEF DueList

\* The tables that only people change.
TableOK ==
  /\ now \in Time /\ starts \in [Parts -> Time] /\ standing \in [Parts -> Standing]
  /\ visible \subseteq Users /\ wish \in [Users -> WishType]
  /\ admitted \subseteq Users

\* What the poller keeps.
PollOK ==
  /\ sent \subseteq Notice /\ muted \subseteq Notice
  /\ rows \in [Notice -> Nat] /\ mails \in [Notice -> Nat] /\ pushed \in [Notice -> Nat]
  /\ step \in Steps /\ tick \in TickType /\ item \in Item \cup {None} /\ delivered \in BOOLEAN
  /\ left \in LeftType
  /\ (item = None) <=> step \in {"idle", "list", "next"}

LEMMA TypeSplits == TypeOK <=> TableOK /\ PollOK
  BY DEF TypeOK, TableOK, PollOK, TickType, LeftType, PassNo, Queue, Audience

LEMMA LeadsAreLeads == \A h \in LeadsAsked : clampLead(h) \in Lead
  BY DEF Lead

\* People leave every wish a wish.
LEMMA WishStays ==
  ASSUME wish \in [Users -> WishType], WishStep
  PROVE  wish' \in [Users -> WishType]
<1>1. ASSUME NEW u \in Users, NEW w \in WishType, Wish(u, w) PROVE wish' \in [Users -> WishType]
  BY <1>1 DEF Wish
<1> SUFFICES ASSUME NEW u \in Users,
                    \/ \E h \in LeadsAsked :
                         setTripReminder(u, h) \/ \E on \in BOOLEAN : setPlanReminder(u, on, h)
                    \/ deleteTripReminder(u) \/ deletePlanReminder(u)
                    \/ setAlertPrefs(u) \/ addPlanAlertOptin(u) \/ removePlanAlertOptin(u)
             PROVE  wish' \in [Users -> WishType]
  BY DEF WishStep
<1>w. wish[u] \in WishType /\ wish[u].kinds \in SUBSET Kinds
  BY DEF WishType
<1>2. ASSUME NEW h \in LeadsAsked, setTripReminder(u, h) PROVE wish' \in [Users -> WishType]
  <2>1. [wish[u] EXCEPT !.trip = clampLead(h)] \in WishType
    BY <1>w, LeadsAreLeads DEF WishType
  <2> QED
    BY <2>1, <1>1, <1>2 DEF setTripReminder
<1>3. ASSUME NEW h \in LeadsAsked, NEW on \in BOOLEAN, setPlanReminder(u, on, h)
      PROVE  wish' \in [Users -> WishType]
  <2>1. [enabled |-> on, lead |-> clampLead(h)] \in Override
    BY LeadsAreLeads DEF Override
  <2>2. [wish[u] EXCEPT !.plan = [enabled |-> on, lead |-> clampLead(h)]] \in WishType
    BY <1>w, <2>1 DEF WishType
  <2> QED
    BY <2>2, <1>1, <1>3 DEF setPlanReminder
<1>4. ASSUME deleteTripReminder(u) PROVE wish' \in [Users -> WishType]
  <2>1. [wish[u] EXCEPT !.trip = None] \in WishType
    BY <1>w DEF WishType
  <2> QED
    BY <2>1, <1>1, <1>4 DEF deleteTripReminder
<1>5. ASSUME deletePlanReminder(u) PROVE wish' \in [Users -> WishType]
  <2>1. [wish[u] EXCEPT !.plan = None] \in WishType
    BY <1>w DEF WishType
  <2> QED
    BY <2>1, <1>1, <1>5 DEF deletePlanReminder
<1>6. ASSUME setAlertPrefs(u) PROVE wish' \in [Users -> WishType]
  <2>1. \A b \in BOOLEAN : [wish[u] EXCEPT !.inApp = b] \in WishType
    BY <1>w DEF WishType
  <2>2. \A b \in BOOLEAN : [wish[u] EXCEPT !.email = b] \in WishType
    BY <1>w DEF WishType
  <2>3. \A k \in Kinds : /\ wish[u].kinds \cup {k} \in SUBSET Kinds
                         /\ wish[u].kinds \ {k} \in SUBSET Kinds
    BY <1>w
  <2>4. \A ks \in SUBSET Kinds : [wish[u] EXCEPT !.kinds = ks] \in WishType
    BY <1>w DEF WishType
  <2>5. ASSUME NEW k \in Kinds \ {"reminder"}, Wish(u, [wish[u] EXCEPT !.kinds = @ \cup {k}])
        PROVE  wish' \in [Users -> WishType]
    BY <2>3, <2>4, <2>5, <1>1
  <2>6. ASSUME NEW k \in Kinds \ {"reminder"}, Wish(u, [wish[u] EXCEPT !.kinds = @ \ {k}])
        PROVE  wish' \in [Users -> WishType]
    BY <2>3, <2>4, <2>6, <1>1
  <2> QED
    BY <2>1, <2>2, <2>5, <2>6, <1>1, <1>6 DEF setAlertPrefs
<1>7. ASSUME addPlanAlertOptin(u) PROVE wish' \in [Users -> WishType]
  <2>1. [wish[u] EXCEPT !.optin = TRUE] \in WishType
    BY <1>w DEF WishType
  <2> QED
    BY <2>1, <1>1, <1>7 DEF addPlanAlertOptin
<1>8. ASSUME removePlanAlertOptin(u) PROVE wish' \in [Users -> WishType]
  <2>1. [wish[u] EXCEPT !.optin = FALSE] \in WishType
    BY <1>w DEF WishType
  <2> QED
    BY <2>1, <1>1, <1>8 DEF removePlanAlertOptin
<1> QED
  BY <1>2, <1>3, <1>4, <1>5, <1>6, <1>7, <1>8

\* A change of wish touches nothing else and uses up an edit.
LEMMA WishTouches ==
  ASSUME WishStep
  PROVE  Edit /\ UNCHANGED <<now, starts, standing, visible, sent, outbox, poller, admitted>>
  BY DEF WishStep, setTripReminder, setPlanReminder, deleteTripReminder, deletePlanReminder,
         setAlertPrefs, addPlanAlertOptin, removePlanAlertOptin, Wish

LEMMA TableStays == TypeOK /\ [Next]_vars => TableOK'
<1> SUFFICES ASSUME TypeOK, [Next]_vars PROVE TableOK'
  OBVIOUS
<1>t. TableOK
  BY TypeSplits
<1>0. ASSUME UNCHANGED <<now, table, admitted>> PROVE TableOK'
  BY <1>0, <1>t DEF TableOK, table
<1>1. ASSUME UNCHANGED <<now, table>>, admitted' = visible PROVE TableOK'
  BY <1>1, <1>t DEF TableOK, table
<1>2. CASE UNCHANGED vars
  BY <1>2, <1>0 DEF vars, table
<1>3. CASE StartTick
  BY <1>3, <1>1 DEF StartTick
<1>4. CASE TickStep /\ ~StartTick
  BY <1>4, <1>0 DEF TickStep, ListDue, ListFails, EndPass, Take, LookUpFails, Dispatch,
     Load, LoadFails, InApp, InAppFails, Mail, MailBounces, Bounce, Mark, MarkFails, Push
<1>5. CASE Panic \/ Crash
  BY <1>5, <1>0 DEF Panic, Crash
<1>6. CASE WishStep
  BY <1>6, <1>t, WishStays, WishTouches DEF TableOK
<1>7. CASE EditPart
  <2>1. ASSUME NEW p \in Parts, NEW at \in Time, NEW st \in Standing, Table(p, at, st) PROVE TableOK'
    BY <2>1, <1>t DEF Table, TableOK
  <2> QED
    BY <2>1, <1>7, <1>t DEF EditPart, TableOK
<1>8. CASE Reshare
  BY <1>8, <1>t DEF Reshare, TableOK
<1>9. CASE Advance
  BY <1>9, <1>t, NoticesAssumption DEF Advance, TableOK, table, Time
<1> QED
  BY <1>2, <1>3, <1>4, <1>5, <1>6, <1>7, <1>8, <1>9 DEF Next

LEMMA PollStays == TypeOK /\ [Next]_vars => PollOK'
<1> SUFFICES ASSUME TypeOK, [Next]_vars PROVE PollOK'
  OBVIOUS
<1>t. PollOK /\ TableOK
  BY TypeSplits
<1>n. None \notin Item /\ Len(Passes) \in Nat /\ 0 \in Time
  BY NoticesAssumption DEF Time
<1>a. 1 \in PassNo /\ {} \in Queue /\ None \in Audience
  <2>1. \A l \in Nat : 1 \in 1 .. l + 1
    OBVIOUS
  <2>2. 1 \in PassNo
    BY <2>1, <1>n DEF PassNo
  <2>3. {} \in Queue
    BY DEF Queue
  <2>4. None \in Audience
    BY DEF Audience
  <2> QED
    BY <2>2, <2>3, <2>4
<1>k. item # None => item \in Item /\ Key(item) \in Notice
  BY <1>t, ItemFields DEF PollOK
<1>i. IdleTick \in TickType
  BY <1>n, <1>a DEF IdleTick, TickType
<1>f. ASSUME Fault PROVE left' \in LeftType
  BY <1>f, <1>t, LeftSet DEF PollOK
<1>b. left.bounces > 0 => [left EXCEPT !.bounces = @ - 1] \in LeftType
  BY <1>t, LeftSet DEF PollOK
<1>l. ASSUME Leave, UNCHANGED tick, left' \in LeftType,
             sent' \subseteq Notice, muted' \subseteq Notice, rows' \in [Notice -> Nat],
             mails' \in [Notice -> Nat], pushed' \in [Notice -> Nat]
      PROVE  PollOK'
  BY <1>l, <1>t DEF Leave, PollOK, Steps
<1>1. CASE UNCHANGED vars
  BY <1>1, <1>t DEF vars, outbox, poller, PollOK
<1>2. CASE StartTick
  <2>1. [IdleTick EXCEPT !.at = now] \in TickType
    BY <1>i, <1>t DEF TickType, TableOK
  <2> QED
    BY <2>1, <1>2, <1>t DEF StartTick, PollOK, outbox, Steps
<1>3. CASE ListDue
  <2>1. tick' \in TickType
    <3>1. DueList(Passes[tick.pass], tick.at) \in Queue
      BY <1>t, DueItems DEF TableOK, Queue
    <3> QED
      BY <3>1, <1>3, <1>a, <1>t, TickSet DEF ListDue, PollOK
  <2> QED
    BY <2>1, <1>3, <1>t DEF ListDue, PollOK, outbox, Steps
<1>4. CASE ListFails
  <2>1. tick' \in TickType
    BY <1>4, <1>a, <1>t, TickSet DEF ListFails, PollOK
  <2> QED
    BY <2>1, <1>4, <1>t, <1>f DEF ListFails, PollOK, outbox, Steps
<1>5. CASE EndPass
  <2>1. tick' \in TickType
    <3>1. CASE tick.pass < Len(Passes)
      <4>1. tick.pass + 1 \in PassNo
        BY <3>1, <1>n, <1>t, TickFields DEF PollOK, PassNo
      <4>2. tick' = [tick EXCEPT !.pass = tick.pass + 1, !.audience = None]
        BY <3>1, <1>5 DEF EndPass
      <4> QED
        BY <4>1, <4>2, <1>a, <1>t, TickSet DEF PollOK
    <3>2. CASE ~(tick.pass < Len(Passes))
      BY <3>2, <1>5, <1>i DEF EndPass
    <3> QED
      BY <3>1, <3>2
  <2>2. step' \in {"list", "idle"} /\ item = None
    BY <1>5, <1>t DEF EndPass, PollOK
  <2> QED
    BY <2>1, <2>2, <1>5, <1>t DEF EndPass, PollOK, outbox, Steps
<1>6. ASSUME NEW i \in tick.queue, Take(i) PROVE PollOK'
  <2>1. i \in Item /\ tick.queue \ {i} \in Queue /\ item = None
    BY <1>6, <1>t, TickFields DEF PollOK, Take, Queue
  <2>2. (IF tick.audience = None THEN visible ELSE tick.audience) \in Audience
    BY <1>t, TickFields DEF PollOK, TableOK, Audience
  <2>3. tick' \in TickType
    BY <2>1, <2>2, <1>6, <1>a, <1>t, TickSet DEF Take, PollOK
  <2>4. \/ item' = i /\ step' \in {"load", "inApp"}
        \/ item' = None /\ step' = "next"
    BY <2>1, <1>6 DEF Take
  <2> QED
    BY <2>1, <2>3, <2>4, <1>6, <1>n, <1>t DEF Take, PollOK, outbox, Steps
<1>7. ASSUME NEW i \in tick.queue, LookUpFails(i) PROVE PollOK'
  <2>1. tick.queue \ {i} \in Queue
    BY <1>t, TickFields DEF PollOK, Queue
  <2>2. tick' \in TickType
    BY <2>1, <1>7, <1>a, <1>t, TickSet DEF LookUpFails, PollOK
  <2> QED
    BY <2>2, <1>7, <1>t, <1>f DEF LookUpFails, PollOK, outbox
<1>8. CASE Load
  BY <1>8, <1>t DEF Load, PollOK, outbox, Steps
<1>9. CASE LoadFails \/ Panic
  BY <1>9, <1>t, <1>f, <1>l DEF LoadFails, Panic, outbox, PollOK
<1>10. CASE InApp
  <2>1. rows' \in [Notice -> Nat] /\ delivered' \in BOOLEAN
    <3>1. CASE item.inApp
      <4>1. Key(item) \in Notice
        BY <1>10, <1>k, <1>t DEF InApp, PollOK
      <4> QED
        BY <4>1, <3>1, <1>10, <1>t, Counting DEF InApp, PollOK
    <3>2. CASE ~item.inApp
      BY <3>2, <1>10, <1>t DEF InApp, PollOK
    <3> QED
      BY <3>1, <3>2
  <2> QED
    BY <2>1, <1>10, <1>t DEF InApp, PollOK, Steps
<1>11. CASE InAppFails
  <2>1. Key(item) \in Notice
    BY <1>11, <1>k, <1>t DEF InAppFails, PollOK
  <2>2. rows' \in [Notice -> Nat]
    BY <2>1, <1>11, <1>t, Counting DEF InAppFails, PollOK
  <2> QED
    BY <2>2, <1>11, <1>t, <1>f, <1>l DEF InAppFails, PollOK
<1>12. CASE Mail
  <2>1. Key(item) \in Notice
    BY <1>12, <1>k, <1>t DEF Mail, PollOK
  <2>2. mails' \in [Notice -> Nat] /\ delivered' \in BOOLEAN
    <3>1. CASE item.mail
      BY <2>1, <3>1, <1>12, <1>t, Counting DEF Mail, PollOK
    <3>2. CASE ~item.mail
      BY <3>2, <1>12, <1>t DEF Mail, PollOK
    <3> QED
      BY <3>1, <3>2
  <2>3. muted' \subseteq Notice
    BY <2>1, <1>12, <1>t DEF Mail, PollOK
  <2> QED
    BY <2>2, <2>3, <1>12, <1>t DEF Mail, PollOK, Steps
<1>13. CASE MailBounces
  <2>1. left' \in LeftType
    BY <1>13, <1>b DEF MailBounces, Bounce
  <2>a. Key(item) \in Notice
    BY <1>13, <1>k, <1>t DEF MailBounces, Bounce, PollOK
  <2>b. mails' \in [Notice -> Nat]
    BY <2>a, <1>13, <1>t, Counting DEF MailBounces, Bounce, PollOK
  <2>2. CASE delivered
    BY <2>1, <2>b, <2>2, <1>13, <1>t DEF MailBounces, Bounce, PollOK, Steps
  <2>3. CASE ~delivered
    BY <2>1, <2>b, <2>3, <1>13, <1>t, <1>l DEF MailBounces, Bounce, PollOK
  <2> QED
    BY <2>2, <2>3
<1>14. CASE Mark
  <2>1. Key(item) \in Notice
    BY <1>14, <1>k, <1>t DEF Mark, PollOK
  <2> QED
    BY <2>1, <1>14, <1>t DEF Mark, PollOK, outbox, Steps
<1>15. CASE MarkFails
  <2>1. Key(item) \in Notice
    BY <1>15, <1>k, <1>t DEF MarkFails, PollOK
  <2>2. sent' \subseteq Notice /\ left' \in LeftType
    BY <2>1, <1>15, <1>t, <1>f DEF MarkFails, PollOK
  <2> QED
    BY <2>2, <1>15, <1>t, <1>l DEF MarkFails, PollOK, outbox
<1>16. CASE Push
  <2>1. Key(item) \in Notice
    BY <1>16, <1>k, <1>t DEF Push, PollOK
  <2>2. pushed' \in [Notice -> Nat]
    BY <2>1, <1>16, <1>t, Counting DEF Push, PollOK
  <2> QED
    BY <2>2, <1>16, <1>t, <1>l DEF Push, PollOK
<1>17. CASE Crash
  BY <1>17, <1>t, <1>f, <1>i DEF Crash, PollOK, outbox, Steps
<1>18. CASE WishStep
  <2>1. left' \in LeftType
    BY <1>18, <1>t, WishTouches, LeftSet DEF PollOK
  <2> QED
    BY <2>1, <1>18, <1>t, WishTouches DEF PollOK, outbox, poller
<1>19. CASE EditPart \/ Reshare
  <2>1. Edit /\ UNCHANGED <<sent, outbox, poller>>
    BY <1>19 DEF EditPart, Table, Reshare
  <2>2. left' \in LeftType
    BY <2>1, <1>t, LeftSet DEF PollOK
  <2> QED
    BY <2>1, <2>2, <1>t DEF PollOK, outbox, poller
<1>20. CASE Advance
  BY <1>20, <1>t DEF Advance, PollOK, outbox, poller
<1> QED
  BY <1>1, <1>2, <1>3, <1>4, <1>5, <1>6, <1>7, <1>8, <1>9, <1>10, <1>11, <1>12, <1>13, <1>14,
     <1>15, <1>16, <1>17, <1>18, <1>19, <1>20 DEF Next, TickStep, Dispatch

LEMMA TypeInit == Init => TypeOK
<1> SUFFICES ASSUME Init PROVE TypeOK
  OBVIOUS
<1>1. TableOK
  BY NoticesAssumption DEF Init, TableOK, Time, Standing
<1>2. tick \in TickType
  <2>1. \A l \in Nat : 1 \in 1 .. l + 1
    OBVIOUS
  <2>2. 1 \in PassNo /\ 0 \in Time
    BY <2>1, NoticesAssumption DEF PassNo, Time
  <2>3. {} \in Queue /\ None \in Audience
    BY DEF Queue, Audience
  <2> QED
    BY <2>2, <2>3 DEF Init, IdleTick, TickType
<1>3. left \in LeftType
  BY NoticesAssumption DEF Init, LeftType
<1>4. PollOK
  BY <1>2, <1>3 DEF Init, PollOK, Steps
<1> QED
  BY <1>1, <1>4, TypeSplits

\* Whatever fails, panics or is edited, every value keeps its type, and a
\* notice is being dispatched exactly in the steps of a dispatch.
THEOREM TypeCorrect == Spec => []TypeOK
<1>1. TypeOK /\ [Next]_vars => TypeOK'
  <2>1. TableOK' /\ PollOK' => TypeOK'
    BY DEF TypeOK, TableOK, PollOK, TickType, LeftType, PassNo, Queue, Audience
  <2> QED
    BY <2>1, TableStays, PollStays
<1> QED
  BY TypeInit, <1>1, PTL DEF Spec

----------------------------------------------------------------------------
\* Whoever the tick still holds an audience of, or is about to tell, has seen
\* the plan since it began.
Admitted ==
  /\ visible \subseteq admitted
  /\ tick.audience # None => tick.audience \subseteq admitted
  /\ item # None => item.user \in admitted

\* Steps that touch none of the four keep it.
LEMMA AdmittedSame ==
  ASSUME Admitted, UNCHANGED <<visible, admitted>>,
         tick'.audience \in {tick.audience, None}, item' \in {item, None}
  PROVE  Admitted'
  BY DEF Admitted

LEMMA AdmittedStays == TypeOK /\ Admitted /\ [Next]_vars => Admitted'
<1> SUFFICES ASSUME TypeOK, Admitted, [Next]_vars PROVE Admitted'
  OBVIOUS
<1>t. tick \in TickType /\ IdleTick.audience = None
  BY TypeSplits DEF PollOK, IdleTick
<1>l. Leave => item' = None
  BY DEF Leave
<1>s. ASSUME UNCHANGED <<visible, admitted, tick>>, item' \in {item, None} PROVE Admitted'
  BY <1>s, AdmittedSame
<1>1. CASE UNCHANGED vars
  BY <1>1, <1>s DEF vars, table, poller
<1>2. CASE StartTick
  <2>1. tick'.audience = None
    BY <1>2 DEF StartTick, IdleTick
  <2> QED
    BY <2>1, <1>2, TypeSplits DEF StartTick, Admitted, table, PollOK
<1>3. CASE ListDue \/ ListFails
  <2>1. tick'.audience = None
    BY <1>3, <1>t DEF ListDue, ListFails, TickType
  <2> QED
    BY <2>1, <1>3, AdmittedSame DEF ListDue, ListFails, table
<1>4. CASE EndPass
  <2>1. tick'.audience = None
    BY <1>4, <1>t DEF EndPass, TickType
  <2> QED
    BY <2>1, <1>4, AdmittedSame DEF EndPass, table
<1>5. ASSUME NEW i \in tick.queue, Take(i) PROVE Admitted'
  <2>1. tick'.audience = (IF tick.audience = None THEN visible ELSE tick.audience)
    BY <1>5, <1>t DEF Take, TickType
  <2>2. tick'.audience \subseteq admitted
    BY <2>1 DEF Admitted
  <2>3. \/ item' = i /\ i.user \in tick'.audience
        \/ item' = item
    BY <2>1, <1>5 DEF Take
  <2> QED
    BY <2>2, <2>3, <1>5 DEF Take, table, Admitted
<1>6. ASSUME NEW i \in tick.queue, LookUpFails(i) PROVE Admitted'
  <2>1. tick'.audience = tick.audience
    BY <1>6, <1>t DEF LookUpFails, TickType
  <2> QED
    BY <2>1, <1>6, AdmittedSame DEF LookUpFails, table
<1>7. CASE Dispatch \/ Panic
  <2>1. UNCHANGED <<visible, admitted, tick>>
    BY <1>7 DEF Dispatch, Panic, table, Load, LoadFails, InApp, InAppFails, Mail, MailBounces, Bounce,
                Mark, MarkFails, Push
  <2>2. item' \in {item, None}
    BY <1>7, <1>l DEF Dispatch, Panic, Load, LoadFails, InApp, InAppFails, Mail, MailBounces, Bounce,
                      Mark, MarkFails, Push
  <2> QED
    BY <2>1, <2>2, <1>s
<1>8. CASE Crash
  BY <1>8, <1>t, AdmittedSame DEF Crash, table
<1>9. CASE WishStep
  BY <1>9, <1>s, WishTouches DEF poller
<1>10. CASE EditPart
  BY <1>10, <1>s DEF EditPart, Table, poller
<1>11. CASE Reshare
  BY <1>11 DEF Reshare, Admitted, poller
<1>12. CASE Advance
  BY <1>12, <1>s DEF Advance, table, poller
<1> QED
  BY <1>1, <1>2, <1>3, <1>4, <1>5, <1>6, <1>7, <1>8, <1>9, <1>10, <1>11, <1>12
     DEF Next, TickStep, Dispatch

\* Who is told, and when: nobody who has not seen the plan since the tick
\* began, however the plan is reshared while the tick runs.
THEOREM NobodyHiddenIsTold == Spec => HiddenNotTold
<1>1. Init => Admitted
  BY DEF Init, Admitted, IdleTick
<1>2. ASSUME TypeOK, Admitted, Next, NEW n \in Notice,
             rows'[n] # rows[n] \/ mails'[n] # mails[n] \/ pushed'[n] # pushed[n]
      PROVE  n.user \in admitted
  <2>1. CASE InApp \/ InAppFails \/ Mail \/ MailBounces \/ Push
    <3>1. item \in Item /\ n = Key(item)
      <4>1. item # None
        BY <2>1, <1>2, TypeSplits DEF InApp, InAppFails, Mail, MailBounces, Bounce, Push, PollOK
      <4>2. rows \in [Notice -> Nat] /\ mails \in [Notice -> Nat] /\ pushed \in [Notice -> Nat]
        BY <1>2, TypeSplits DEF PollOK
      <4>3. \A k : k # n => /\ [rows EXCEPT ![k] = @ + 1][n] = rows[n]
                            /\ [mails EXCEPT ![k] = @ + 1][n] = mails[n]
                            /\ [pushed EXCEPT ![k] = @ + 1][n] = pushed[n]
        BY <4>2
      <4> QED
        BY <2>1, <4>1, <4>3, <1>2, TypeSplits DEF InApp, InAppFails, Mail, MailBounces, Bounce, Push, PollOK
    <3> QED
      BY <3>1, <1>2, ItemFields, NoticesAssumption DEF Admitted
  <2>2. CASE ~(InApp \/ InAppFails \/ Mail \/ MailBounces \/ Push)
    <3>1. UNCHANGED <<rows, mails, pushed>>
      BY <2>2, <1>2, WishTouches
         DEF Next, TickStep, StartTick, ListDue, ListFails, EndPass, Take, LookUpFails, Dispatch,
             Load, LoadFails, Mark, MarkFails, Panic, Crash, EditPart, Table, Reshare,
             Advance, outbox
    <3> QED
      BY <3>1, <1>2
  <2> QED
    BY <2>1, <2>2
<1>3. TypeOK /\ Admitted /\ [Next]_vars =>
        [\A n \in Notice :
           (rows'[n] # rows[n] \/ mails'[n] # mails[n] \/ pushed'[n] # pushed[n])
             => n.user \in admitted]_vars
  BY <1>2
<1> QED
  BY <1>1, <1>3, AdmittedStays, TypeCorrect, PTL DEF Spec, HiddenNotTold

----------------------------------------------------------------------------
\* A notice still to be told is not marked: neither the one being dispatched nor
\* those queued behind it, which are all different; what is about to be marked
\* was told or muted, and what is about to be pushed is marked and not pushed.
Fresh ==
  /\ \A i \in tick.queue : Key(i) \notin sent
  /\ \A i, j \in tick.queue : Key(i) = Key(j) => i = j
  /\ item # None => \A i \in tick.queue : Key(i) # Key(item)
  /\ step \in Dispatching => Key(item) \notin sent
OnItsWay ==
  /\ step = "mail" /\ item.inApp => Key(item) \in Told
  /\ delivered => item # None /\ Key(item) \in Told
  /\ step = "mark" => Key(item) \in Told \cup muted
  /\ step = "push" => Key(item) \in sent
  /\ \A n \in Notice : pushed[n] > 0 => n \in sent
  /\ step = "push" => pushed[Key(item)] = 0
PromiseInv == Fresh /\ OnItsWay

\* An item leaves, or a step is taken by somebody else.
LEMMA FreshSame ==
  ASSUME TypeOK, Fresh, tick'.queue \subseteq tick.queue, item' = None, step' \notin Dispatching,
         \A n \in sent' : n \in sent \/ (item # None /\ n = Key(item))
  PROVE  Fresh'
  BY DEF Fresh

LEMMA FreshStays == TypeOK /\ Fresh /\ [Next]_vars => Fresh'
<1> SUFFICES ASSUME TypeOK, Fresh, [Next]_vars PROVE Fresh'
  OBVIOUS
<1>t. PollOK
  BY TypeSplits
<1>q. tick.queue \in SUBSET Item /\ IdleTick.queue = {}
  BY <1>t, TickFields DEF PollOK, Queue, IdleTick
<1>l. ASSUME Leave, UNCHANGED tick, sent' \subseteq sent \cup {Key(item)}, item # None PROVE Fresh'
  BY <1>l, FreshSame DEF Leave, Dispatching
<1>u. ASSUME UNCHANGED <<tick, item, sent>>,
             step' = step \/ step' \notin Dispatching \/ step \in Dispatching
      PROVE  Fresh'
  BY <1>u DEF Fresh, Dispatching
<1>1. CASE UNCHANGED vars
  BY <1>1, <1>u DEF vars, poller
<1>2. CASE StartTick
  <2>1. tick'.queue = {}
    BY <1>2 DEF StartTick, IdleTick
  <2> QED
    BY <2>1, <1>2 DEF StartTick, Fresh, Dispatching
<1>3. CASE ListDue
  <2>1. tick'.queue = DueList(Passes[tick.pass], tick.at) /\ item' = None /\ sent' = sent
        /\ step' \notin Dispatching
    BY <1>3, <1>t DEF ListDue, PollOK, TickType, Dispatching
  <2>2. \A n \in Notice : Key(Read(n)) = n
    BY DEF Notice, Key, Read
  <2>3. \A i \in tick'.queue : \E n \in Notice : i = Read(n) /\ Key(i) = n /\ n \notin sent
    BY <2>1, <2>2 DEF DueList, Due
  <2> QED
    BY <2>1, <2>3 DEF Fresh
<1>4. CASE ListFails
  <2>1. tick'.queue = {}
    BY <1>4, <1>t DEF ListFails, PollOK, TickType
  <2> QED
    BY <2>1, <1>4 DEF ListFails, Fresh, Dispatching
<1>5. CASE EndPass
  <2>1. tick'.queue = {}
    BY <1>5, <1>t, <1>q DEF EndPass, PollOK, TickType
  <2> QED
    BY <2>1, <1>5 DEF EndPass, Fresh, Dispatching
<1>6. ASSUME NEW i \in tick.queue, Take(i) PROVE Fresh'
  <2>1. tick'.queue = tick.queue \ {i} /\ sent' = sent /\ item = None
    BY <1>6, <1>t DEF Take, PollOK, TickType
  <2>2. \/ item' = i
        \/ item' = None /\ step' = "next"
    BY <2>1, <1>6 DEF Take
  <2> QED
    BY <2>1, <2>2 DEF Fresh, Dispatching
<1>7. ASSUME NEW i \in tick.queue, LookUpFails(i) PROVE Fresh'
  <2>1. tick'.queue = tick.queue \ {i} /\ UNCHANGED <<sent, item, step>> /\ item = None
    BY <1>7, <1>t DEF LookUpFails, PollOK, TickType
  <2> QED
    BY <2>1 DEF Fresh
<1>8. CASE Load \/ InApp \/ Mail
  BY <1>8, <1>u DEF Load, InApp, Mail, Dispatching
<1>9. CASE LoadFails \/ InAppFails \/ Panic \/ Push
  <2>1. item # None
    BY <1>9, <1>t DEF LoadFails, InAppFails, Panic, Push, PollOK
  <2> QED
    BY <2>1, <1>9, <1>l DEF LoadFails, InAppFails, Panic, Push
<1>10. CASE MailBounces
  <2>1. item # None /\ UNCHANGED <<tick, sent>>
    BY <1>10, <1>t DEF MailBounces, Bounce, PollOK
  <2>2. CASE delivered
    BY <2>1, <2>2, <1>10, <1>u DEF MailBounces, Bounce, Dispatching
  <2>3. CASE ~delivered
    BY <2>1, <2>3, <1>10, <1>l DEF MailBounces
  <2> QED
    BY <2>2, <2>3
<1>11. CASE Mark
  <2>1. /\ item # None /\ sent' = sent \cup {Key(item)} /\ UNCHANGED <<tick, item>>
        /\ step' \notin Dispatching
    BY <1>11, <1>t DEF Mark, PollOK, Dispatching
  <2> QED
    BY <2>1 DEF Fresh
<1>12. CASE MarkFails
  <2>1. item # None /\ sent' \subseteq sent \cup {Key(item)} /\ Leave /\ UNCHANGED tick
    BY <1>12, <1>t DEF MarkFails, PollOK
  <2> QED
    BY <2>1, <1>l
<1>13. CASE Crash
  BY <1>13, <1>q, FreshSame DEF Crash, Dispatching
<1>14. CASE WishStep
  BY <1>14, <1>u, WishTouches DEF poller
<1>15. CASE EditPart \/ Reshare \/ Advance
  BY <1>15, <1>u DEF EditPart, Table, Reshare, Advance, poller
<1> QED
  BY <1>1, <1>2, <1>3, <1>4, <1>5, <1>6, <1>7, <1>8, <1>9, <1>10, <1>11, <1>12, <1>13, <1>14, <1>15
     DEF Next, TickStep, Dispatch

\* Told only grows, and by the notice at hand.
LEMMA ToldGrows ==
  ASSUME NEW c \in [Notice -> Nat], NEW n \in Notice
  PROVE  /\ [c EXCEPT ![n] = @ + 1][n] > 0
         /\ \A k \in Notice : c[k] > 0 => [c EXCEPT ![n] = @ + 1][k] > 0
         /\ \A k \in Notice : k # n => [c EXCEPT ![n] = @ + 1][k] = c[k]
  OBVIOUS

\* Nothing is under way outside a dispatch.
LEMMA Quiet ==
  ASSUME OnItsWay, UNCHANGED pushed, sent \subseteq sent', delivered' = FALSE,
         step' \notin {"mail", "mark", "push"}
  PROVE  OnItsWay'
  BY DEF OnItsWay

LEMMA OnItsWayStays == TypeOK /\ Fresh /\ OnItsWay /\ [Next]_vars => OnItsWay'
<1> SUFFICES ASSUME TypeOK, Fresh, OnItsWay, [Next]_vars PROVE OnItsWay'
  OBVIOUS
<1>t. PollOK
  BY TypeSplits
<1>k. item # None => item \in Item /\ Key(item) \in Notice /\ item.inApp \in BOOLEAN /\ item.mail \in BOOLEAN
  BY <1>t, ItemFields DEF PollOK
<1>r. rows \in [Notice -> Nat] /\ mails \in [Notice -> Nat] /\ pushed \in [Notice -> Nat]
  BY <1>t DEF PollOK
<1>l. ASSUME Leave, UNCHANGED pushed, sent \subseteq sent' PROVE OnItsWay'
  BY <1>l, Quiet DEF Leave
<1>s. ASSUME UNCHANGED <<sent, outbox, poller>> PROVE OnItsWay'
  BY <1>s DEF OnItsWay, outbox, poller, Told
<1>1. CASE UNCHANGED vars
  BY <1>1, <1>s DEF vars
<1>2. CASE StartTick \/ ListDue \/ ListFails \/ EndPass \/ \E i \in tick.queue : LookUpFails(i)
  <2>1. UNCHANGED <<delivered, sent, outbox, item>> /\ step' \notin {"mail", "mark", "push"} /\ item = None
    BY <1>2, <1>t DEF StartTick, ListDue, ListFails, EndPass, LookUpFails, PollOK
  <2>2. delivered' = FALSE
    BY <2>1, <1>t DEF OnItsWay, PollOK
  <2> QED
    BY <2>1, <2>2, Quiet DEF outbox
<1>3. ASSUME NEW i \in tick.queue, Take(i) PROVE OnItsWay'
  <2>1. step' \in {"load", "inApp", "next"} /\ delivered' = FALSE
    BY <1>3 DEF Take
  <2> QED
    BY <2>1, <1>3, Quiet DEF Take, outbox
<1>4. CASE Load
  <2>1. UNCHANGED <<item, delivered, sent, outbox>> /\ step' = "inApp"
    BY <1>4 DEF Load
  <2> QED
    BY <2>1 DEF OnItsWay, Told, outbox
<1>5. CASE InApp
  <2>1. item # None /\ Key(item) \in Notice /\ step' = "mail" /\ UNCHANGED <<item, sent, mails, pushed>>
    BY <1>5, <1>t, <1>k DEF InApp, PollOK
  <2>2. CASE item.inApp
    <3>1. Key(item) \in Told'
      BY <2>1, <2>2, <1>5, <1>r, ToldGrows DEF InApp, Told
    <3> QED
      BY <3>1, <2>1 DEF OnItsWay
  <2>3. CASE ~item.inApp
    BY <2>1, <2>3, <1>5 DEF InApp, OnItsWay, Told
  <2> QED
    BY <2>2, <2>3
<1>6. CASE LoadFails \/ InAppFails \/ Panic
  BY <1>6, <1>l DEF LoadFails, InAppFails, Panic, outbox
<1>7. CASE Mail
  <2>1. /\ item # None /\ Key(item) \in Notice /\ step' = "mark" /\ UNCHANGED <<item, sent, rows, pushed>>
        /\ step = "mail"
    BY <1>7, <1>t, <1>k DEF Mail, PollOK
  <2>2. CASE item.mail
    <3>1. Key(item) \in Told'
      BY <2>1, <2>2, <1>7, <1>r, ToldGrows DEF Mail, Told
    <3> QED
      BY <3>1, <2>1 DEF OnItsWay
  <2>3. CASE ~item.mail /\ item.inApp
    <3>1. Key(item) \in Told' /\ delivered' = delivered
      BY <2>1, <2>3, <1>7 DEF Mail, OnItsWay, Told
    <3> QED
      BY <3>1, <2>1 DEF OnItsWay
  <2>4. CASE ~item.mail /\ ~item.inApp
    <3>1. Key(item) \in muted' /\ UNCHANGED <<delivered, mails>>
      BY <2>1, <2>4, <1>7 DEF Mail
    <3> QED
      BY <3>1, <2>1 DEF OnItsWay, Told
  <2> QED
    BY <2>1, <2>2, <2>3, <2>4, <1>k
<1>8. CASE MailBounces
  <2>1. CASE delivered
    <3>1. /\ item # None /\ Key(item) \in Notice /\ step' = "mark" /\ step = "mail"
          /\ UNCHANGED <<item, delivered, sent, rows, pushed, muted>>
      BY <2>1, <1>8, <1>t, <1>k DEF MailBounces, Bounce, PollOK
    <3>2. Key(item) \in Told
      BY <2>1, <3>1 DEF OnItsWay
    <3>3. \A n \in Notice : mails[n] > 0 => mails'[n] > 0
      BY <3>1, <1>8, <1>r, ToldGrows DEF MailBounces, Bounce
    <3>4. Key(item) \in Told'
      BY <3>1, <3>2, <3>3 DEF Told
    <3> QED
      BY <2>1, <3>1, <3>4 DEF OnItsWay
  <2>2. CASE ~delivered
    BY <2>2, <1>8, <1>l DEF MailBounces, Bounce
  <2> QED
    BY <2>1, <2>2
<1>9. CASE Mark
  <2>1. /\ item # None /\ Key(item) \in Notice /\ Key(item) \notin sent
        /\ sent' = sent \cup {Key(item)} /\ step' = "push" /\ UNCHANGED <<item, delivered, outbox>>
    BY <1>9, <1>t, <1>k DEF Mark, PollOK, Fresh, Dispatching
  <2>2. pushed[Key(item)] = 0
    BY <2>1, <1>r DEF OnItsWay
  <2> QED
    BY <2>1, <2>2 DEF OnItsWay, Told, outbox
<1>10. CASE MarkFails
  <2>1. sent \subseteq sent'
    BY <1>10 DEF MarkFails
  <2> QED
    BY <2>1, <1>10, <1>l DEF MarkFails, outbox
<1>11. CASE Push
  <2>1. /\ item # None /\ Key(item) \in Notice /\ Key(item) \in sent /\ sent' = sent
        /\ step' = "next" /\ delivered' = FALSE
    BY <1>11, <1>t, <1>k DEF Push, PollOK, OnItsWay, Leave
  <2>2. \A n \in Notice : pushed'[n] > 0 => n \in sent'
    BY <2>1, <1>11, <1>r, ToldGrows DEF Push, OnItsWay
  <2> QED
    BY <2>1, <2>2 DEF OnItsWay
<1>12. CASE Crash
  BY <1>12, Quiet DEF Crash, outbox
<1>13. CASE WishStep
  BY <1>13, <1>s, WishTouches
<1>14. CASE EditPart \/ Reshare \/ Advance
  BY <1>14, <1>s DEF EditPart, Table, Reshare, Advance
<1> QED
  BY <1>1, <1>2, <1>3, <1>4, <1>5, <1>6, <1>7, <1>8, <1>9, <1>10, <1>11, <1>12, <1>13, <1>14
     DEF Next, TickStep, Dispatch

\* A step that leaves the outbox and the marks alone is no step of the promise.
LEMMA NothingPromised ==
  ASSUME UNCHANGED <<sent, outbox>>
  PROVE  UNCHANGED Promise!promise
  BY DEF Promise!promise, outbox

LEMMA StepsAreKept == TypeOK /\ PromiseInv /\ [Next]_vars => [Promise!Next]_Promise!promise
<1> SUFFICES ASSUME TypeOK, PromiseInv, [Next]_vars PROVE [Promise!Next]_Promise!promise
  OBVIOUS
<1>t. PollOK /\ Fresh /\ OnItsWay
  BY TypeSplits DEF PromiseInv
<1>k. item # None => item \in Item /\ Key(item) \in Notice /\ item.inApp \in BOOLEAN /\ item.mail \in BOOLEAN
  BY <1>t, ItemFields DEF PollOK
<1>r. rows \in [Notice -> Nat] /\ mails \in [Notice -> Nat] /\ pushed \in [Notice -> Nat]
  BY <1>t DEF PollOK
<1>n. step \in Dispatching => Key(item) \in Notice /\ Key(item) \notin sent
  BY <1>t, <1>k DEF Fresh, Dispatching, PollOK
<1>1. CASE UNCHANGED vars
  BY <1>1, NothingPromised DEF vars
<1>2. CASE InApp \/ InAppFails
  <2>1. Key(item) \in Notice /\ Key(item) \notin sent /\ UNCHANGED <<sent, mails, pushed, muted>>
    BY <1>2, <1>n DEF InApp, InAppFails, Dispatching
  <2>2. rows' = rows \/ rows' = [rows EXCEPT ![Key(item)] = @ + 1]
    BY <1>2 DEF InApp, InAppFails
  <2>3. Told' = Told \/ Told' = Told \cup {Key(item)}
    BY <2>1, <2>2, <1>r, ToldGrows DEF Told
  <2> QED
    BY <2>1, <2>3 DEF Told, Promise!Next, Promise!Tell, Promise!promise
<1>3. CASE Mail
  <2>1. Key(item) \in Notice /\ Key(item) \notin sent /\ UNCHANGED <<sent, rows, pushed>> /\ item # None
    BY <1>3, <1>n, <1>t DEF Mail, Dispatching, PollOK
  <2>2. CASE item.mail
    <3>1. muted' = muted /\ mails' = [mails EXCEPT ![Key(item)] = @ + 1]
      BY <2>2, <1>3 DEF Mail
    <3>2. Told' = Told \cup {Key(item)}
      BY <3>1, <2>1, <1>r, ToldGrows DEF Told
    <3> QED
      BY <3>1, <3>2, <2>1 DEF Told, Promise!Next, Promise!Tell, Promise!promise
  <2>3. CASE ~item.mail
    <3>1. mails' = mails /\ (muted' = muted \/ muted' = muted \cup {Key(item)})
      BY <2>3, <1>3 DEF Mail
    <3>2. Told' = Told
      BY <3>1, <2>1 DEF Told
    <3> QED
      BY <3>1, <3>2, <2>1 DEF Told, Promise!Next, Promise!Mute, Promise!promise
  <2> QED
    BY <2>2, <2>3
<1>4. CASE Mark \/ MarkFails
  <2>1. /\ Key(item) \in Notice /\ Key(item) \in Told \cup muted /\ UNCHANGED outbox
        /\ sent' = sent \/ sent' = sent \cup {Key(item)}
    BY <1>4, <1>n, <1>t DEF Mark, MarkFails, Dispatching, OnItsWay
  <2> QED
    BY <2>1 DEF Told, outbox, Promise!Next, Promise!Close, Promise!promise
<1>5. CASE Push
  <2>1. /\ Key(item) \in Notice /\ Key(item) \in sent /\ pushed[Key(item)] = 0
        /\ UNCHANGED <<sent, rows, mails, muted>>
    BY <1>5, <1>k, <1>t DEF Push, OnItsWay, PollOK
  <2>2. pushed' = pushed \/ pushed' = [pushed EXCEPT ![Key(item)] = 1]
    BY <2>1, <1>5 DEF Push
  <2> QED
    BY <2>1, <2>2 DEF Told, Promise!Next, Promise!Echo, Promise!promise
<1>7. CASE MailBounces
  <2>1. Key(item) \in Notice /\ Key(item) \notin sent /\ UNCHANGED <<sent, rows, pushed, muted>>
    BY <1>7, <1>n DEF MailBounces, Bounce, Dispatching
  <2>2. mails' = mails \/ mails' = [mails EXCEPT ![Key(item)] = @ + 1]
    BY <1>7 DEF MailBounces, Bounce
  <2>3. Told' = Told \/ Told' = Told \cup {Key(item)}
    BY <2>1, <2>2, <1>r, ToldGrows DEF Told
  <2> QED
    BY <2>1, <2>3 DEF Told, Promise!Next, Promise!Tell, Promise!promise
<1>6. CASE ~(InApp \/ InAppFails \/ Mail \/ MailBounces \/ Mark \/ MarkFails \/ Push) /\ Next
  <2>1. UNCHANGED <<sent, outbox>>
    BY <1>6, WishTouches
       DEF Next, TickStep, StartTick, ListDue, ListFails, EndPass, Take, LookUpFails, Dispatch,
           Load, LoadFails, Panic, Crash, EditPart, Table, Reshare, Advance
  <2> QED
    BY <2>1, NothingPromised
<1> QED
  BY <1>1, <1>2, <1>3, <1>4, <1>5, <1>6, <1>7

\* The three passes keep the promise: a notice is marked only once its
\* traveller was told or had every channel off, never told once it is marked,
\* and pushed once at most.
THEOREM PromiseIsKept == Spec => PromiseKept
<1>1. Init => Promise!Init
  BY DEF Init, Promise!Init
<1>2. Init => PromiseInv
  BY DEF Init, PromiseInv, Fresh, OnItsWay, IdleTick, Dispatching
<1>3. TypeOK /\ PromiseInv /\ [Next]_vars => PromiseInv'
  BY FreshStays, OnItsWayStays DEF PromiseInv
<1> QED
  BY <1>1, <1>2, <1>3, StepsAreKept, TypeCorrect, PTL DEF Spec, PromiseKept, Promise!Spec

----------------------------------------------------------------------------
\* What the failures so far can have repeated: a notice still to be told has
\* at most one row for each of them, and one mail for each and each bounce, and
\* only the notice being dispatched, a marked one and one whose part is gone may
\* have one more.
Used == MaxFaults - left.faults
Lost == Used + (MaxBounces - left.bounces)
Spared == \A n \in Notice : rows[n] <= 1 + Used /\ mails[n] <= 1 + Lost
Ready(n) == rows[n] <= Used /\ mails[n] <= Lost
ReadyToTell ==
  /\ \A n \in Notice :
       n \notin sent /\ standing[n.part] # "gone" /\ (item # None => n # Key(item)) => Ready(n)
  /\ \A i \in tick.queue : Ready(Key(i))
ReadyInDispatch ==
  /\ step \in {"load", "inApp"} => Ready(Key(item))
  /\ step = "mail" => mails[Key(item)] <= Lost /\ (delivered \/ rows[Key(item)] <= Used)
Sparing == Spared /\ ReadyToTell /\ ReadyInDispatch

\* The failures are a number, one more after each failure and no more after
\* an edit or a bounce, which counts among the mails reported lost.
LEMMA UsedCounts ==
  ASSUME TypeOK
  PROVE  /\ Used \in Nat /\ Lost \in Nat
         /\ \A n \in Notice : rows[n] \in Nat /\ mails[n] \in Nat
         /\ Fault => Used' = Used + 1 /\ Lost' = Lost + 1
         /\ Edit => Used' = Used /\ Lost' = Lost
         /\ left' = left => Used' = Used /\ Lost' = Lost
         /\ left' = [left EXCEPT !.bounces = @ - 1] => Used' = Used /\ Lost' = Lost + 1
<1>1. /\ MaxFaults \in Nat /\ left \in LeftType /\ left.faults \in 0 .. MaxFaults
      /\ MaxBounces \in Nat /\ left.bounces \in 0 .. MaxBounces
  BY TypeSplits, NoticesAssumption DEF PollOK, LeftType
<1>2. rows \in [Notice -> Nat] /\ mails \in [Notice -> Nat]
  BY TypeSplits DEF PollOK
<1>3. Fault => left'.faults = left.faults - 1 /\ left'.bounces = left.bounces
  BY <1>1 DEF Fault, LeftType
<1>4. Edit => left'.faults = left.faults /\ left'.bounces = left.bounces
  BY <1>1 DEF Edit, LeftType
<1>5. left' = [left EXCEPT !.bounces = @ - 1]
        => left'.faults = left.faults /\ left'.bounces = left.bounces - 1
  BY <1>1 DEF LeftType
<1> QED
  BY <1>1, <1>2, <1>3, <1>4, <1>5 DEF Used, Lost

LEMMA QueuedAreNotices ==
  ASSUME TypeOK
  PROVE  /\ \A i \in tick.queue : Key(i) \in Notice
         /\ item # None => item \in Item /\ Key(item) \in Notice
BY TypeSplits, TickFields, ItemFields DEF PollOK, Queue

\* After a failure every notice that had no row or mail too many is ready
\* again.
LEMMA AfterFault ==
  ASSUME TypeOK, TypeOK', Fault,
         \A n \in Notice : rows'[n] <= 1 + Used /\ mails'[n] <= 1 + Lost
  PROVE  Sparing'
<1>1. Used \in Nat /\ Used' = Used + 1 /\ Lost \in Nat /\ Lost' = Lost + 1
  BY UsedCounts
<1>2. \A n \in Notice : rows'[n] \in Nat /\ mails'[n] \in Nat
  BY DEF TypeOK
<1>3. \A n \in Notice : Ready(n)'
  BY <1>1, <1>2 DEF Ready
<1>4. /\ \A i \in tick'.queue : Key(i) \in Notice
      /\ item' # None => Key(item') \in Notice
  BY ItemFields DEF TypeOK
<1>5. step' \in {"load", "inApp", "mail"} => item' # None
  BY DEF TypeOK
<1>6. Spared'
  BY <1>1, <1>2, <1>3 DEF Spared, Ready
<1>7. ReadyToTell'
  BY <1>3, <1>4 DEF ReadyToTell
<1>8. ReadyInDispatch'
  BY <1>3, <1>4, <1>5 DEF ReadyInDispatch, Ready
<1> QED
  BY <1>6, <1>7, <1>8 DEF Sparing

\* A step that repeats nothing and takes nothing up.
LEMMA SparingSame ==
  ASSUME TypeOK, Sparing, UNCHANGED <<rows, mails>>, Used' = Used, Lost' = Lost,
         sent \subseteq sent',
         \A n \in Notice : standing[n.part] = "gone" => standing'[n.part] = "gone",
         tick'.queue \subseteq tick.queue,
         \/ UNCHANGED <<item, delivered>>
         \/ item = None,
         step' \in {"load", "inApp"} => Ready(Key(item')),
         step' = "mail" => step = "mail" /\ UNCHANGED <<item, delivered>>
  PROVE  Sparing'
<1>1. \A n \in Notice : Ready(n) => Ready(n)'
  BY DEF Ready
<1>2. Spared'
  BY DEF Sparing, Spared
<1>3. ReadyToTell'
  BY DEF Sparing, ReadyToTell, Ready
<1>4. ReadyInDispatch'
  BY DEF Sparing, ReadyInDispatch, Ready
<1> QED
  BY <1>2, <1>3, <1>4 DEF Sparing

\* A dispatch that ends without a failure has marked its notice, lost its
\* part or told nobody.
LEMMA SparingLeave ==
  ASSUME TypeOK, Sparing, Leave, item # None, UNCHANGED <<rows, mails, tick, standing>>,
         Used' = Used, Lost' = Lost, sent \subseteq sent',
         Key(item) \in sent \/ standing[item.part] = "gone" \/ Ready(Key(item))
  PROVE  Sparing'
<1>1. \A n \in Notice : Ready(n) => Ready(n)'
  BY DEF Ready
<1>2. Key(item).part = item.part
  BY DEF Key
<1>3. Spared'
  BY DEF Sparing, Spared
<1>4. \A n \in Notice : n \notin sent' /\ standing'[n.part] # "gone" => Ready(n)
  BY <1>2 DEF Sparing, ReadyToTell
<1>5. item' = None /\ step' = "next"
  BY DEF Leave
<1>6. ReadyToTell'
  BY <1>1, <1>4, <1>5, QueuedAreNotices DEF Sparing, ReadyToTell
<1>7. ReadyInDispatch'
  BY <1>5 DEF ReadyInDispatch
<1> QED
  BY <1>3, <1>6, <1>7 DEF Sparing

\* One more row or mail of the notice at hand is no news for any other.
LEMMA OneMore ==
  ASSUME NEW c \in [Notice -> Nat], NEW n \in Notice, NEW d, d = c \/ d = [c EXCEPT ![n] = @ + 1]
  PROVE  /\ \A k \in Notice : k # n => d[k] = c[k]
         /\ d[n] <= c[n] + 1
OBVIOUS

LEMMA SparingStays == TypeOK /\ TypeOK' /\ Fresh /\ OnItsWay /\ Sparing /\ [Next]_vars => Sparing'
<1> SUFFICES ASSUME TypeOK, TypeOK', Fresh, OnItsWay, Sparing, [Next]_vars PROVE Sparing'
  OBVIOUS
<1>t. PollOK /\ TableOK
  BY TypeSplits
<1>u. /\ Used \in Nat /\ Lost \in Nat
      /\ \A n \in Notice : rows[n] \in Nat /\ mails[n] \in Nat
  BY UsedCounts
<1>k. item # None => item \in Item /\ Key(item) \in Notice
  BY QueuedAreNotices
<1>c. rows \in [Notice -> Nat] /\ mails \in [Notice -> Nat]
  BY <1>t DEF PollOK
<1>a. \A n \in Notice : rows[n] <= 1 + Used /\ mails[n] <= 1 + Lost
  BY DEF Sparing, Spared
<1>f. ASSUME Fault, UNCHANGED <<rows, mails>> PROVE Sparing'
  BY <1>f, <1>a, AfterFault
<1>q. IdleTick.queue = {}
  BY DEF IdleTick
<1>1. CASE UNCHANGED vars
  BY <1>1, SparingSame, UsedCounts DEF vars, table, outbox, poller, Sparing, ReadyInDispatch
<1>2. CASE StartTick
  <2>1. /\ tick'.queue = {} /\ UNCHANGED <<item, delivered, rows, mails, standing, sent, left>>
        /\ step' = "list"
    BY <1>2 DEF StartTick, IdleTick, outbox, table
  <2> QED
    BY <2>1, SparingSame, UsedCounts
<1>3. CASE ListDue
  <2>1. /\ tick'.queue = DueList(Passes[tick.pass], tick.at) /\ item = None /\ step' = "next"
        /\ UNCHANGED <<item, delivered, rows, mails, standing, sent, left>>
    BY <1>3, <1>t DEF ListDue, PollOK, TickType, outbox, table
  <2>2. \A n \in Notice : Key(Read(n)) = n
    BY DEF Notice, Key, Read
  <2>3. \A i \in tick'.queue :
          \E n \in Notice : Key(i) = n /\ n \notin sent /\ standing[n.part] # "gone"
    BY <2>1, <2>2 DEF DueList, Due, Fit
  <2>4. \A n \in Notice : Ready(n) => Ready(n)'
    BY <2>1, UsedCounts DEF Ready
  <2>5. ReadyToTell'
    BY <2>1, <2>3, <2>4 DEF Sparing, ReadyToTell
  <2>6. ReadyInDispatch'
    BY <2>1 DEF ReadyInDispatch
  <2>7. Spared'
    BY <2>1, UsedCounts DEF Sparing, Spared
  <2> QED
    BY <2>5, <2>6, <2>7 DEF Sparing
<1>4. CASE ListFails \/ Panic \/ Crash \/ \E i \in tick.queue : LookUpFails(i)
  BY <1>4, <1>f DEF ListFails, Panic, Crash, LookUpFails, outbox
<1>5. CASE EndPass
  <2>1. /\ tick'.queue = {} /\ UNCHANGED <<item, delivered, rows, mails, standing, sent, left>>
        /\ step' \in {"list", "idle"}
    BY <1>5, <1>t, <1>q DEF EndPass, PollOK, TickType, outbox, table
  <2> QED
    BY <2>1, SparingSame, UsedCounts
<1>6. ASSUME NEW i \in tick.queue, Take(i) PROVE Sparing'
  <2>1. /\ tick'.queue = tick.queue \ {i} /\ item = None
        /\ UNCHANGED <<rows, mails, standing, sent, left>>
    BY <1>6, <1>t DEF Take, PollOK, TickType, outbox, table
  <2>2. \/ item' = i /\ step' \in {"load", "inApp"}
        \/ item' = None /\ step' = "next"
    BY <2>1, <1>6 DEF Take
  <2>3. Ready(Key(i))
    BY DEF Sparing, ReadyToTell
  <2>4. step' \in {"load", "inApp"} => Ready(Key(item'))
    BY <2>2, <2>3
  <2> QED
    BY <2>1, <2>2, <2>4, SparingSame, UsedCounts
<1>7. CASE Load
  <2>1. UNCHANGED <<tick, item, delivered, rows, mails, standing, sent, left>> /\ step' = "inApp"
    BY <1>7 DEF Load, outbox, table
  <2>2. Ready(Key(item'))
    BY <2>1, <1>7 DEF Load, Sparing, ReadyInDispatch
  <2> QED
    BY <2>1, <2>2, SparingSame, UsedCounts
<1>8. CASE LoadFails
  <2>1. /\ Leave /\ item # None /\ UNCHANGED <<rows, mails, tick, standing, sent>>
        /\ Fault \/ (left' = left /\ standing[item.part] = "gone")
    BY <1>8, <1>t DEF LoadFails, PollOK, outbox, table
  <2> QED
    BY <2>1, <1>f, SparingLeave, UsedCounts
<1>9. CASE InApp
  <2>1. /\ item # None /\ Key(item) \in Notice /\ step' = "mail" /\ Ready(Key(item))
        /\ UNCHANGED <<item, sent, mails, standing, tick, left>>
    BY <1>9, <1>t, <1>k DEF InApp, PollOK, Sparing, ReadyInDispatch, table
  <2>2. rows' = rows \/ (rows' = [rows EXCEPT ![Key(item)] = @ + 1] /\ delivered' = TRUE)
    BY <1>9 DEF InApp
  <2>3. /\ \A k \in Notice : k # Key(item) => rows'[k] = rows[k]
        /\ rows'[Key(item)] <= rows[Key(item)] + 1
    BY <2>1, <2>2, <1>c, OneMore
  <2>4. Used' = Used /\ Lost' = Lost /\ \A n \in Notice : rows'[n] \in Nat
    BY <2>1, UsedCounts DEF TypeOK
  <2>5. Spared'
    BY <2>1, <2>3, <2>4, <1>u, <1>a DEF Spared, Ready
  <2>6. \A n \in Notice : n # Key(item) /\ Ready(n) => Ready(n)'
    BY <2>1, <2>3, <2>4 DEF Ready
  <2>7. ReadyToTell'
    BY <2>1, <2>6, QueuedAreNotices DEF Sparing, ReadyToTell, Fresh
  <2>8. ReadyInDispatch'
    BY <2>1, <2>2, <2>4 DEF ReadyInDispatch, Ready
  <2> QED
    BY <2>5, <2>7, <2>8 DEF Sparing
<1>10. CASE InAppFails
  <2>1. item # None /\ Key(item) \in Notice /\ Fault /\ UNCHANGED mails /\ Ready(Key(item))
    BY <1>10, <1>t, <1>k DEF InAppFails, PollOK, Sparing, ReadyInDispatch
  <2>2. /\ \A k \in Notice : k # Key(item) => rows'[k] = rows[k]
        /\ rows'[Key(item)] <= rows[Key(item)] + 1
    BY <2>1, <1>10, <1>c, OneMore DEF InAppFails
  <2>3. \A n \in Notice : rows'[n] \in Nat
    BY DEF TypeOK
  <2>4. \A n \in Notice : rows'[n] <= 1 + Used /\ mails'[n] <= 1 + Lost
    BY <2>1, <2>2, <2>3, <1>u, <1>a DEF Ready
  <2> QED
    BY <2>1, <2>4, AfterFault
<1>11. CASE Mail
  <2>1. /\ item # None /\ Key(item) \in Notice /\ step' = "mark" /\ mails[Key(item)] <= Lost
        /\ UNCHANGED <<item, sent, rows, standing, tick, left>>
    BY <1>11, <1>t, <1>k DEF Mail, PollOK, Sparing, ReadyInDispatch, table
  <2>2. mails' = mails \/ mails' = [mails EXCEPT ![Key(item)] = @ + 1]
    BY <1>11 DEF Mail
  <2>3. /\ \A k \in Notice : k # Key(item) => mails'[k] = mails[k]
        /\ mails'[Key(item)] <= mails[Key(item)] + 1
    BY <2>1, <2>2, <1>c, OneMore
  <2>4. Used' = Used /\ Lost' = Lost /\ \A n \in Notice : mails'[n] \in Nat
    BY <2>1, UsedCounts DEF TypeOK
  <2>5. Spared'
    BY <2>1, <2>3, <2>4, <1>u, <1>a DEF Spared
  <2>6. \A n \in Notice : n # Key(item) /\ Ready(n) => Ready(n)'
    BY <2>1, <2>3, <2>4 DEF Ready
  <2>7. ReadyToTell'
    BY <2>1, <2>6, QueuedAreNotices DEF Sparing, ReadyToTell, Fresh
  <2>8. ReadyInDispatch'
    BY <2>1 DEF ReadyInDispatch
  <2> QED
    BY <2>5, <2>7, <2>8 DEF Sparing
<1>12. CASE MailBounces
  <2>1. /\ item # None /\ Key(item) \in Notice /\ UNCHANGED <<rows, tick, standing, sent>>
        /\ step = "mail" /\ mails[Key(item)] <= Lost /\ step' \in {"mark", "next"}
    BY <1>12, <1>t, <1>k DEF MailBounces, Bounce, Leave, PollOK, Sparing, ReadyInDispatch, table
  <2>2. Used' = Used /\ Lost' = Lost + 1
    BY <1>12, UsedCounts DEF MailBounces, Bounce
  <2>3. mails' = mails \/ mails' = [mails EXCEPT ![Key(item)] = @ + 1]
    BY <1>12 DEF MailBounces, Bounce
  <2>4. /\ \A k \in Notice : k # Key(item) => mails'[k] = mails[k]
        /\ mails'[Key(item)] <= mails[Key(item)] + 1
    BY <2>1, <2>3, <1>c, OneMore
  <2>5. \A n \in Notice : mails'[n] \in Nat
    BY DEF TypeOK
  <2>6. Spared'
    BY <2>1, <2>2, <2>4, <2>5, <1>u, <1>a DEF Spared
  <2>7. \A n \in Notice : n # Key(item) /\ Ready(n) => Ready(n)'
    BY <2>1, <2>2, <2>4, <2>5, <1>u DEF Ready
  <2>8. ReadyToTell'
    <3>1. CASE delivered
      <4>1. item' = item
        BY <3>1, <1>12 DEF MailBounces
      <4> QED
        BY <4>1, <2>1, <2>7, QueuedAreNotices DEF Sparing, ReadyToTell, Fresh
    <3>2. CASE ~delivered
      <4>1. item' = None /\ rows[Key(item)] <= Used
        BY <3>2, <2>1, <1>12 DEF MailBounces, Leave, Sparing, ReadyInDispatch
      <4>2. \A n \in Notice : n = Key(item) => Ready(n)'
        BY <4>1, <2>1, <2>2, <2>4, <2>5, <1>u DEF Ready
      <4>3. \A n \in Notice : n = Key(item) \/ Ready(n) => Ready(n)'
        BY <4>2, <2>7
      <4> QED
        BY <4>1, <4>3, <2>1, QueuedAreNotices DEF Sparing, ReadyToTell
    <3> QED
      BY <3>1, <3>2
  <2>9. ReadyInDispatch'
    BY <2>1 DEF ReadyInDispatch
  <2> QED
    BY <2>6, <2>8, <2>9 DEF Sparing
<1>13. CASE Mark
  <2>1. /\ UNCHANGED <<tick, item, delivered, rows, mails, standing, left>> /\ step' = "push"
        /\ sent \subseteq sent'
    BY <1>13 DEF Mark, outbox, table
  <2> QED
    BY <2>1, SparingSame, UsedCounts
<1>14. CASE MarkFails
  <2>1. /\ Leave /\ item # None /\ UNCHANGED <<rows, mails, tick, standing>> /\ sent \subseteq sent'
        /\ Fault \/ (left' = left /\ standing[item.part] = "gone")
    BY <1>14, <1>t DEF MarkFails, PollOK, outbox, table
  <2> QED
    BY <2>1, <1>f, SparingLeave, UsedCounts
<1>15. CASE Push
  <2>1. /\ Leave /\ item # None /\ UNCHANGED <<rows, mails, tick, standing, sent, left>>
        /\ Key(item) \in sent
    BY <1>15, <1>t DEF Push, PollOK, OnItsWay, table
  <2> QED
    BY <2>1, SparingLeave, UsedCounts
<1>16. CASE WishStep \/ EditPart \/ Reshare \/ Advance
  <2>1. /\ UNCHANGED <<tick, item, delivered, step, rows, mails, sent>>
        /\ Edit \/ left' = left
    BY <1>16, WishTouches DEF EditPart, Table, Reshare, Advance, poller, outbox
  <2>2. Used' = Used /\ Lost' = Lost
    BY <2>1, UsedCounts
  <2>3. \A n \in Notice : standing[n.part] = "gone" => standing'[n.part] = "gone"
    <3>1. CASE EditPart
      <4>1. \A n \in Notice : n.part \in Parts
        BY DEF Notice
      <4>2. standing \in [Parts -> Standing]
        BY <1>t DEF TableOK
      <4>3. PICK p \in Parts : \E at, st : Table(p, at, st)
        BY <3>1 DEF EditPart
      <4>4. PICK st : \E at : Table(p, at, st)
        BY <4>3
      <4>5. standing[p] # "gone" /\ standing' = [standing EXCEPT ![p] = st]
        BY <4>4 DEF Table
      <4> QED
        BY <4>1, <4>2, <4>5
    <3>2. CASE WishStep \/ Reshare \/ Advance
      BY <3>2, WishTouches DEF Reshare, Advance, table
    <3> QED
      BY <3>1, <3>2, <1>16
  <2>4. step' \in {"load", "inApp"} => Ready(Key(item'))
    BY <2>1 DEF Sparing, ReadyInDispatch
  <2> QED
    BY <2>1, <2>2, <2>3, <2>4, SparingSame
<1> QED
  BY <1>1, <1>2, <1>3, <1>4, <1>5, <1>6, <1>7, <1>8, <1>9, <1>10, <1>11, <1>12, <1>13, <1>14,
     <1>15, <1>16 DEF Next, TickStep, Dispatch

\* A traveller has at most one inbox row of a notice for every statement that
\* failed, panic and crash, and one more, and at most one mail for each of those
\* and each mail reported lost: a changed wish and a moved or deleted part never
\* repeat either, nor a bounced mail a row.
THEOREM RepeatsNeedFaults == Spec => []NoRepeatWithoutFault
<1>1. Init => PromiseInv
  BY DEF Init, PromiseInv, Fresh, OnItsWay, IdleTick, Dispatching
<1>2. Init => Sparing
  <2> SUFFICES ASSUME Init PROVE Sparing
    OBVIOUS
  <2>1. \A n \in Notice : rows[n] = 0 /\ mails[n] = 0
    BY DEF Init
  <2>2. Used = 0 /\ Lost = 0
    BY NoticesAssumption DEF Init, Used, Lost
  <2>3. tick.queue = {} /\ step = "idle" /\ \A n \in Notice : Ready(n)
    BY <2>1, <2>2 DEF Init, IdleTick, Ready
  <2> QED
    BY <2>1, <2>2, <2>3 DEF Sparing, Spared, ReadyToTell, ReadyInDispatch
<1>3. TypeOK /\ PromiseInv /\ [Next]_vars => PromiseInv'
  BY FreshStays, OnItsWayStays DEF PromiseInv
<1>4. TypeOK /\ TypeOK' /\ PromiseInv /\ Sparing /\ [Next]_vars => Sparing'
  BY SparingStays DEF PromiseInv
<1>5. TypeOK /\ Sparing => NoRepeatWithoutFault
  <2> SUFFICES ASSUME TypeOK, Sparing PROVE NoRepeatWithoutFault
    OBVIOUS
  <2>1. /\ MaxFaults \in Nat /\ left.faults \in 0 .. MaxFaults
        /\ MaxBounces \in Nat /\ left.bounces \in 0 .. MaxBounces
    BY TypeSplits, NoticesAssumption DEF PollOK, LeftType
  <2>2. \A n \in Notice : rows[n] \in Nat /\ mails[n] \in Nat
    BY UsedCounts
  <2> QED
    BY <2>1, <2>2 DEF Sparing, Spared, Used, Lost, NoRepeatWithoutFault
<1> QED
  BY <1>1, <1>2, <1>3, <1>4, <1>5, TypeCorrect, PTL DEF Spec
=============================================================================
