---------------------------- MODULE Events_proofs ----------------------------
(***************************************************************************)
(* Proofs about Events, for every set of plans, users and tabs, buffers of *)
(* any size, and any number of changes, publishers and cut streams.        *)
(***************************************************************************)
EXTENDS Events, SequenceTheorems, TLAPS

\* A plan that is gone has no audience; whom an event is for could see the plan.
ServerInv ==
  /\ \A p \in Plans :
       /\ plan[p].look.live + left.changes <= MaxChanges + 1
       /\ plan[p].look.detail <= plan[p].look.live
       /\ ~Exists(p) => plan[p].audience = {}
       /\ plan[p].audience \subseteq admitted[p]
  /\ \A k \in tasks :
       /\ k.to \subseteq admitted[k.plan]
       /\ k.step \in {"read", "lookUp"} => k.to = {}

\* What a tab will display once the response on its way is shown.
Screen(t) == IF loading[t] \in View THEN loading[t] ELSE shown[t]

\* A tab with a trip to show, no load to wait for and nothing to worry about.
Sure(t, f) == doubt[t] \cap Harms(f) = {} /\ Deaf(t) /\ Screen(t) # None

\* The event of a publisher under way will be for the tab.
Reaches(k, t) ==
  \/ k.step = "read" /\ Exists(k.plan) /\ Sees(t, k.plan)
  \/ k.step = "lookUp" /\ (~Exists(k.plan) \/ Sees(t, k.plan))
  \/ k.step = "publish" /\ shouldDeliver(EventOf(k), t)
\* It is about the plan and news of it, and of its details unless a payload.
Tells(k, t, p, f) ==
  /\ Reaches(k, t)
  /\ k.plan = p \/ (k.op = "absorb" /\ k.other = p)
  /\ k.op # "delete" /\ (f = "detail" => k.op # "poll")
InBuffer(t, p) == \E i \in DOMAIN buffer[t] : buffer[t][i].plan = p

\* Without a stream the screen is right; and where it is not, a payload waits
\* or an event is on its way.
Settled(t, p, f) ==
  /\ t \notin conn => Screen(t)[p][f] = Truth(t)[p][f]
  /\ Screen(t)[p][f] # Truth(t)[p][f] =>
       (f = "live" /\ InBuffer(t, p)) \/ \E k \in tasks : Tells(k, t, p, f)

Fields == {"detail", "live"}
Fresh ==
  /\ \A k \in tasks : k.step = "read" => k.op = "poll"
  /\ \A t \in Tabs, p \in Plans, f \in Fields : Sure(t, f) => Settled(t, p, f)

TypeInv == TypeOK /\ ServerInv

Row == [look : Look, audience : SUBSET Users]

LEMMA ViewType == \A pl \in [Plans -> Row], t \in Tabs : TruthIn(pl, t) \in View
  BY EventsAssumption DEF TruthIn, View, Gone, Row, Look, Marks

LEMMA UnheardTypes ==
  ASSUME TypeInv, NEW pl, NEW why \in [Tabs -> SUBSET Causes], Unheard(pl, why)
  PROVE  doubt' \in [Tabs -> SUBSET Causes]
  BY DEF Unheard, TypeInv, TypeOK

LEMMA InitTypes == Init => TypeInv
  <1> SUFFICES ASSUME Init PROVE TypeInv
    OBVIOUS
  <1> USE EventsAssumption
  <1>1. plan \in [Plans -> Row]
    BY DEF Init, Row, Look, Marks
  <1>2. \A t \in Tabs : Truth(t) \in View
    BY <1>1, ViewType DEF Truth
  <1>6. shown \in [Tabs -> View \cup {None}]
    BY <1>2 DEF Init
  <1>3. buffer \in [Tabs -> Seq(Event)] /\ \A t \in Tabs : Len(buffer[t]) = 0
    BY DEF Init
  <1>4. TypeOK
    BY <1>1, <1>6, <1>3 DEF Init, TypeOK, Row
  <1>5. ServerInv
    BY DEF Init, ServerInv, Exists, Gone
  <1> QED BY <1>4, <1>5 DEF TypeInv

\* A plan that is edited or refreshed keeps its audience and looks new.
LEMMA BumpTypes ==
  ASSUME TypeInv, left.changes > 0, NEW r \in Plans, NEW pl \in {Bump(r), Tick(r)}
  PROVE  /\ pl \in [Plans -> Row]
         /\ \A s \in Plans : /\ pl[s].look.live <= plan[s].look.live + 1
                             /\ pl[s].look.detail <= pl[s].look.live
                             /\ pl[s].audience = plan[s].audience
                             /\ s # r => pl[s] = plan[s]
         /\ pl[r].look # Gone
  <1>1. MaxChanges \in Nat /\ left.changes \in Nat
    BY EventsAssumption DEF TypeInv, TypeOK
  <1>2. /\ plan \in [Plans -> Row]
        /\ \A s \in Plans : /\ plan[s].look.live + left.changes <= MaxChanges + 1
                            /\ plan[s].look.detail <= plan[s].look.live
    BY DEF TypeInv, TypeOK, ServerInv, Row
  <1>3. \A s \in Plans : plan[s].look.live \in Nat /\ plan[s].look.detail \in Nat
    BY <1>1, <1>2 DEF Row, Look, Marks
  <1>4. plan[r].look.live + 1 \in Marks /\ plan[r].look.detail + 1 \in Marks
    BY <1>1, <1>2, <1>3 DEF Marks
  <1>5. CASE pl = Bump(r)
    <2>1. pl = [plan EXCEPT ![r].look = [detail |-> @.detail + 1, live |-> @.live + 1]]
      BY <1>5 DEF Bump
    <2>2. /\ pl[r].look = [detail |-> plan[r].look.detail + 1, live |-> plan[r].look.live + 1]
          /\ pl[r].audience = plan[r].audience
          /\ \A s \in Plans : s # r => pl[s] = plan[s]
      BY <1>2, <2>1 DEF Row
    <2>3. pl \in [Plans -> Row]
      BY <1>2, <1>4, <2>1 DEF Row, Look
    <2>4. pl[r].look.live = plan[r].look.live + 1 /\ pl[r].look.detail = plan[r].look.detail + 1
      BY <2>2
    <2>5. plan[r].look.live + 1 # 0
      BY <1>3
    <2> QED BY <1>2, <1>3, <2>2, <2>3, <2>4, <2>5 DEF Gone
  <1>6. CASE pl = Tick(r)
    <2>1. pl = [plan EXCEPT ![r].look.live = @ + 1]
      BY <1>6 DEF Tick
    <2>2. /\ pl[r].look.live = plan[r].look.live + 1 /\ pl[r].look.detail = plan[r].look.detail
          /\ pl[r].audience = plan[r].audience
          /\ \A s \in Plans : s # r => pl[s] = plan[s]
      BY <1>2, <2>1 DEF Row, Look
    <2>3. pl \in [Plans -> Row]
      BY <1>2, <1>4, <2>1 DEF Row, Look
    <2>5. plan[r].look.live + 1 # 0
      BY <1>3
    <2> QED BY <1>2, <1>3, <2>2, <2>3, <2>5 DEF Gone
  <1> QED BY <1>5, <1>6

\* The table of plans after one is absorbed by another.
LEMMA AbsorbTypes ==
  ASSUME TypeInv, left.changes > 0, NEW p \in Plans, NEW q \in Plans, p # q,
         NEW pl \in {Joined(p, q)}
  PROVE  /\ pl \in [Plans -> Row]
         /\ pl[q] = Deleted /\ pl[q].look = Gone
         /\ pl[p] = Bump(p)[p] /\ pl[p].look # Gone /\ pl[p].audience = plan[p].audience
         /\ \A s \in Plans : s # p /\ s # q => pl[s] = plan[s]
         /\ \A s \in Plans : /\ pl[s].look.live <= plan[s].look.live + 1
                             /\ pl[s].look.detail <= pl[s].look.live
  <1>1. Bump(p) \in [Plans -> Row]
        /\ \A s \in Plans : /\ Bump(p)[s].look.live <= plan[s].look.live + 1
                            /\ Bump(p)[s].look.detail <= Bump(p)[s].look.live
                            /\ Bump(p)[s].audience = plan[s].audience
                            /\ s # p => Bump(p)[s] = plan[s]
        /\ Bump(p)[p].look # Gone
    BY BumpTypes
  <1>2. Deleted \in Row /\ Deleted.look = Gone /\ Gone.live = 0 /\ Gone.detail = 0
    BY EventsAssumption DEF Deleted, Row, Look, Marks, Gone
  <1>3. pl[q] = Deleted /\ \A s \in Plans : s # q => pl[s] = Bump(p)[s]
    BY <1>1 DEF Joined
  <1>4. pl \in [Plans -> Row]
    BY <1>1, <1>2 DEF Joined
  <1>5. plan[q].look.live \in Nat
    BY EventsAssumption DEF TypeInv, TypeOK, Look, Marks
  <1>6. /\ pl[q].look.live <= plan[q].look.live + 1 /\ pl[q].look.detail <= pl[q].look.live
    BY <1>2, <1>3, <1>5
  <1> QED BY <1>1, <1>2, <1>3, <1>4, <1>6

\* What a publisher's beginning leaves to show, whatever it changes.
LEMMA BeginTypes == ASSUME TypeInv, Begin PROVE TypeInv'
  <1>n. MaxChanges \in Nat /\ MaxCuts \in Nat
    BY EventsAssumption
  <1>p. /\ plan \in [Plans -> Row]
        /\ \A r \in Plans : /\ plan[r].look.live + left.changes <= MaxChanges + 1
                            /\ plan[r].look.detail <= plan[r].look.live
                            /\ plan[r].look = Gone => plan[r].audience = {}
                            /\ plan[r].audience \subseteq admitted[r]
    BY DEF TypeInv, TypeOK, ServerInv, Row, Exists
  <1>l. left \in [changes : 0 .. MaxChanges, cuts : 0 .. MaxCuts]
    BY DEF TypeInv, TypeOK
  <1>0. left' = [left EXCEPT !.changes = @ - 1] /\ left.changes > 0
    BY DEF Begin
  <1>1. left' \in [changes : 0 .. MaxChanges, cuts : 0 .. MaxCuts] /\ left'.changes = left.changes - 1
    BY <1>0, <1>l, <1>n
  <1>c. CutOff \in [Tabs -> SUBSET Causes]
    BY DEF CutOff, Causes
  <1>2. ASSUME NEW p \in Plans, NEW q \in Plans, NEW o \in Ops, NEW s \in {"read", "lookUp"}
        PROVE NewTask(o, p, q, s) \in Task /\ NewTask(o, p, q, s).to = {}
    BY <1>l, <1>n DEF NewTask, Task, Marks
  <1>4. ASSUME NEW p \in Plans, NEW q \in Plans, NEW o \in Ops, NEW s \in {"read", "lookUp"},
               tasks' = tasks \cup {NewTask(o, p, q, s)},
               plan' \in [Plans -> Row],
               \A r \in Plans : /\ plan'[r].look.live <= plan[r].look.live + 1
                                /\ plan'[r].look.detail <= plan'[r].look.live
                                /\ plan'[r].look = Gone => plan'[r].audience = {},
               admitted' = [r \in Plans |-> admitted[r] \cup plan'[r].audience],
               doubt' \in [Tabs -> SUBSET Causes],
               UNCHANGED <<buffer, conn, client>>
        PROVE TypeInv'
    <2>1. tasks' \subseteq Task /\ \A k \in tasks' : k \in tasks \/ k.to = {}
      BY <1>2, <1>4 DEF TypeInv, TypeOK
    <2>2. admitted' \in [Plans -> SUBSET Users] /\ \A r \in Plans : admitted[r] \subseteq admitted'[r]
      BY <1>4 DEF TypeInv, TypeOK, Row
    <2>3. TypeOK'
      BY <1>1, <1>4, <2>1, <2>2 DEF client, TypeInv, TypeOK, Row
    <2>4. \A r \in Plans : /\ plan'[r].look.live + left'.changes <= MaxChanges + 1
                           /\ plan'[r].look.detail <= plan'[r].look.live
                           /\ plan'[r].look = Gone => plan'[r].audience = {}
                           /\ plan'[r].audience \subseteq admitted'[r]
      <3> TAKE r \in Plans
      <3>1. plan'[r].look.live \in Nat /\ plan[r].look.live \in Nat /\ left.changes \in Nat
        BY <1>4, <1>p, <1>l, <1>n DEF Row, Look, Marks
      <3>2. admitted'[r] = admitted[r] \cup plan'[r].audience
        BY <1>4
      <3>3. plan'[r].look.live + left'.changes <= MaxChanges + 1
        BY <1>1, <1>4, <1>p, <1>n, <3>1
      <3> QED BY <1>4, <3>2, <3>3
    <2>5. \A k \in tasks' : /\ k.to \subseteq admitted'[k.plan]
                            /\ k.step \in {"read", "lookUp"} => k.to = {}
      <3> TAKE k \in tasks'
      <3>1. CASE k \in tasks
        <4>1. k.plan \in Plans
          BY <3>1 DEF Task, TypeInv, TypeOK
        <4> QED BY <3>1, <4>1, <2>2 DEF TypeInv, ServerInv
      <3>2. CASE k.to = {}
        BY <3>2
      <3> QED BY <3>1, <3>2, <2>1
    <2> QED BY <2>3, <2>4, <2>5 DEF TypeInv, ServerInv, Exists
  <1>5. PICK p \in Plans : \/ Update(p) \/ Reshare(p) \/ Delete(p) \/ Poll(p)
                           \/ \E q \in Plans : Absorb(p, q)
    BY DEF Begin
  <1>6. ASSUME NEW pl \in {Bump(p), Tick(p)}, plan[p].look # Gone
        PROVE /\ pl \in [Plans -> Row]
              /\ \A s \in Plans : /\ pl[s].look.live <= plan[s].look.live + 1
                                  /\ pl[s].look.detail <= pl[s].look.live
                                  /\ pl[s].look = Gone => pl[s].audience = {}
    <2>1. /\ pl \in [Plans -> Row]
          /\ \A s \in Plans : /\ pl[s].look.live <= plan[s].look.live + 1
                              /\ pl[s].look.detail <= pl[s].look.live
                              /\ s # p => pl[s] = plan[s]
          /\ pl[p].look # Gone
      BY <1>0, BumpTypes
    <2>2. \A s \in Plans : pl[s].look = Gone => pl[s].audience = {}
      BY <1>p, <2>1
    <2> QED BY <2>1, <2>2
  <1>7. CASE Update(p)
    <2>1. /\ "update" \in Ops /\ plan[p].look # Gone /\ Change(Bump(p)) /\ Unheard(Bump(p), CutOff)
          /\ tasks' = tasks \cup {NewTask("update", p, p, "lookUp")}
          /\ UNCHANGED <<buffer, conn, client>>
      BY <1>7 DEF Update, Exists
    <2>2. plan' = Bump(p) /\ admitted' = [r \in Plans |-> admitted[r] \cup plan'[r].audience]
      BY <2>1 DEF Change
    <2>3. doubt' \in [Tabs -> SUBSET Causes]
      BY <1>c, <2>1, UnheardTypes
    <2> QED BY <1>4, <1>6, <2>1, <2>2, <2>3
  <1>8. CASE Reshare(p)
    <2>1. PICK a \in SUBSET Users :
            /\ "reshare" \in Ops /\ plan[p].look # Gone
            /\ Change([plan EXCEPT ![p].audience = a])
            /\ tasks' = tasks \cup {NewTask("reshare", p, p, "lookUp")}
            /\ Unheard([plan EXCEPT ![p].audience = a],
                       [t \in Tabs |-> IF UserOf[t] \in a THEN CutOff[t] ELSE {"hidden"}])
            /\ UNCHANGED <<buffer, conn, client>>
      BY <1>8 DEF Reshare, Exists
    <2>2. doubt' \in [Tabs -> SUBSET Causes]
      <3>1. [t \in Tabs |-> IF UserOf[t] \in a THEN CutOff[t] ELSE {"hidden"}] \in [Tabs -> SUBSET Causes]
        BY <1>c DEF Causes
      <3> QED BY <2>1, <3>1, UnheardTypes
    <2>5. \A s \in Plans : plan[s].look.live \in Nat
      BY <1>p, <1>n DEF Row, Look, Marks
    <2>6. plan' = [plan EXCEPT ![p].audience = a]
      BY <2>1 DEF Change
    <2>7. plan' \in [Plans -> Row] /\ \A s \in Plans : /\ plan'[s].look = plan[s].look
                                                       /\ s # p => plan'[s] = plan[s]
      BY <2>6, <1>p DEF Row
    <2>8. \A s \in Plans : plan[s].look.live <= plan[s].look.live + 1
      BY <2>5
    <2>3. /\ plan' \in [Plans -> Row]
          /\ \A s \in Plans : /\ plan'[s].look.live <= plan[s].look.live + 1
                              /\ plan'[s].look.detail <= plan'[s].look.live
                              /\ plan'[s].look = Gone => plan'[s].audience = {}
      BY <2>1, <2>7, <2>8, <1>p
    <2>4. admitted' = [r \in Plans |-> admitted[r] \cup plan'[r].audience]
      BY <2>1 DEF Change
    <2> QED BY <1>4, <2>1, <2>2, <2>3, <2>4
  <1>9. CASE Delete(p)
    <2>1. tasks' = tasks \cup {NewTask("delete", p, p, "lookUp")}
          /\ "delete" \in Ops
      BY <1>9 DEF Delete
    <2>2. UNCHANGED <<plan, buffer, conn, client, admitted, doubt>>
      BY <1>9 DEF Delete
    <2>3. admitted' = [r \in Plans |-> admitted[r] \cup plan'[r].audience]
      BY <1>p, <2>2 DEF TypeInv, TypeOK
    <2>4. doubt' \in [Tabs -> SUBSET Causes] /\ plan' = plan
      BY <2>2 DEF TypeInv, TypeOK
    <2>5. \A s \in Plans : plan[s].look.live <= plan[s].look.live + 1
      <3>1. \A s \in Plans : plan[s].look.live \in Nat
        BY <1>p, <1>n DEF Row, Look, Marks
      <3> QED BY <3>1
    <2> QED BY <1>4, <1>p, <2>1, <2>2, <2>3, <2>4, <2>5
  <1>10. CASE Poll(p)
    <2>1. PICK pl \in {Bump(p), Tick(p)} :
            /\ Change(pl)
            /\ \/ Unheard(pl, CutOff)
               \/ Unheard(pl, [t \in Tabs |-> CutOff[t] \cup {"unfolded"}])
      BY <1>10 DEF Poll
    <2>2. [t \in Tabs |-> CutOff[t] \cup {"unfolded"}] \in [Tabs -> SUBSET Causes]
      BY <1>c DEF Causes
    <2>3. doubt' \in [Tabs -> SUBSET Causes]
      BY <1>c, <2>1, <2>2, UnheardTypes
    <2>4. /\ "poll" \in Ops /\ plan[p].look # Gone
          /\ tasks' = tasks \cup {NewTask("poll", p, p, "read")}
          /\ UNCHANGED <<buffer, conn, client>>
      BY <1>10 DEF Poll, Exists
    <2>5. plan' = pl /\ admitted' = [r \in Plans |-> admitted[r] \cup plan'[r].audience]
      BY <2>1 DEF Change
    <2> QED BY <1>4, <1>6, <2>3, <2>4, <2>5
  <1>11. ASSUME NEW q \in Plans, Absorb(p, q) PROVE TypeInv'
    <2> DEFINE pl == Joined(p, q)
    <2>1. /\ "absorb" \in Ops /\ p # q /\ Change(pl) /\ Unheard(pl, CutOff)
          /\ tasks' = tasks \cup {NewTask("absorb", q, p, "lookUp")}
          /\ UNCHANGED <<buffer, conn, client>>
      BY <1>11 DEF Absorb
    <2>2. doubt' \in [Tabs -> SUBSET Causes]
      BY <1>c, <2>1, UnheardTypes
    <2>3. plan' = pl /\ admitted' = [r \in Plans |-> admitted[r] \cup plan'[r].audience]
      BY <2>1 DEF Change
    <2>4. /\ plan' \in [Plans -> Row]
          /\ plan'[q] = Deleted
          /\ plan'[p].look # Gone
          /\ \A s \in Plans : s # p /\ s # q => plan'[s] = plan[s]
          /\ \A s \in Plans : /\ plan'[s].look.live <= plan[s].look.live + 1
                              /\ plan'[s].look.detail <= plan'[s].look.live
      BY <1>0, <2>1, <2>3, AbsorbTypes
    <2>5. \A s \in Plans : plan'[s].look = Gone => plan'[s].audience = {}
      BY <1>p, <2>4 DEF Deleted
    <2> HIDE DEF pl
    <2> QED BY <1>4, <2>1, <2>2, <2>3, <2>4, <2>5
  <1> QED BY <1>5, <1>7, <1>8, <1>9, <1>10, <1>11

\* A publisher's record stays one when it takes its next step.
LEMMA TaskSteps ==
  ASSUME TypeInv, NEW k \in tasks
  PROVE  /\ k \in Task /\ k.plan \in Plans /\ EventOf(k) \in Event
         /\ [k EXCEPT !.step = "lookUp", !.live = plan[k.plan].look.live] \in Task
         /\ [k EXCEPT !.step = "publish"] \in Task /\ [k EXCEPT !.step = "lookUp"] \in Task
         /\ [k EXCEPT !.step = "publish", !.to = plan[k.plan].audience] \in Task
         /\ Then(k) \subseteq Task
         /\ \A j \in Then(k) : j.to \subseteq k.to /\ (j.step \in {"read", "lookUp"} => j.to = {})
         /\ \A j \in Then(k) : j.to # {} => j.plan = k.plan
  <1>1. k \in Task
    BY DEF TypeInv, TypeOK
  <1>2. /\ k.plan \in Plans /\ k.other \in Plans /\ k.op \in Ops \cup {"absorbed"}
        /\ k.step \in {"read", "lookUp", "publish", "commit"} /\ k.to \subseteq Users
        /\ k.live \in Marks /\ k.id \in 0 .. MaxChanges
    BY <1>1 DEF Task
  <1>3. plan[k.plan].look.live \in Marks /\ plan[k.plan].audience \subseteq Users
    BY <1>2 DEF TypeInv, TypeOK, Look
  <1>4. EventOf(k) \in Event
    BY <1>2 DEF EventOf, Event
  <1>5. [k EXCEPT !.step = "lookUp", !.live = plan[k.plan].look.live] \in Task
    BY <1>1, <1>3 DEF Task
  <1>6. [k EXCEPT !.step = "publish"] \in Task /\ [k EXCEPT !.step = "lookUp"] \in Task
    BY <1>1 DEF Task
  <1>7. [k EXCEPT !.step = "publish", !.to = plan[k.plan].audience] \in Task
    BY <1>1, <1>3 DEF Task
  <1>8. CASE k.op = "delete"
    BY <1>1, <1>2, <1>4, <1>5, <1>6, <1>7, <1>8 DEF Then, Task
  <1>9. CASE k.op = "absorb"
    <2>1. Then(k) = {[k EXCEPT !.op = "absorbed", !.plan = k.other, !.step = "lookUp", !.to = {}]}
      BY <1>9 DEF Then
    <2>2. [k EXCEPT !.op = "absorbed", !.plan = k.other, !.step = "lookUp", !.to = {}] \in Task
      BY <1>1, <1>2 DEF Task
    <2>3. [k EXCEPT !.op = "absorbed", !.plan = k.other, !.step = "lookUp", !.to = {}].to = {}
      BY <1>1 DEF Task
    <2> QED BY <1>1, <1>2, <1>4, <1>5, <1>6, <1>7, <2>1, <2>2, <2>3
  <1>10. CASE k.op # "delete" /\ k.op # "absorb"
    BY <1>1, <1>2, <1>4, <1>5, <1>6, <1>7, <1>10 DEF Then
  <1> QED BY <1>8, <1>9, <1>10

\* It looks its audience up in the plan it is about.
LEMMA PublisherTypes == ASSUME TypeInv, PublisherStep PROVE TypeInv'
  <1>0. PICK k \in tasks : ReadBack(k) \/ LookUp(k) \/ Publish(k) \/ DeleteCommits(k)
    BY DEF PublisherStep
  <1>1. /\ k \in Task /\ k.plan \in Plans
        /\ \A j \in tasks : j \in Task /\ j.to \subseteq admitted[j.plan]
                            /\ (j.step \in {"read", "lookUp"} => j.to = {})
    BY TaskSteps DEF TypeInv, TypeOK, ServerInv
  <1>2. ASSUME NEW j \in Task, j.plan \in Plans, j.to \subseteq admitted[j.plan],
               j.step \in {"read", "lookUp"} => j.to = {},
               tasks' = (tasks \ {k}) \cup {j},
               UNCHANGED <<plan, buffer, conn, client, admitted, doubt, left>>
        PROVE TypeInv'
    BY <1>1, <1>2 DEF TypeInv, TypeOK, ServerInv, Exists, client
  <1>3. ASSUME tasks' = tasks \ {k},
               UNCHANGED <<plan, buffer, conn, client, admitted, doubt, left>>
        PROVE TypeInv'
    BY <1>1, <1>3 DEF TypeInv, TypeOK, ServerInv, Exists, client
  <1>4. CASE ReadBack(k)
    <2>1. CASE ~Exists(k.plan)
      BY <1>3, <1>4, <2>1 DEF ReadBack
    <2>2. CASE Exists(k.plan)
      <3> DEFINE j == [k EXCEPT !.step = "lookUp", !.live = plan[k.plan].look.live]
      <3>1. j \in Task
        BY TaskSteps
      <3>2. j.plan = k.plan /\ j.to = k.to /\ k.to = {} /\ k.step = "read"
        BY <1>1, <1>4 DEF Task, ReadBack
      <3> QED BY <1>1, <1>2, <1>4, <2>2, <3>1, <3>2 DEF ReadBack
    <2> QED BY <2>1, <2>2
  <1>5. CASE LookUp(k)
    <2> DEFINE j == [k EXCEPT !.step = "publish", !.to = plan[k.plan].audience]
    <2>1. j \in Task
      BY TaskSteps
    <2>2. j.plan = k.plan /\ j.to = plan[k.plan].audience /\ j.step = "publish"
      BY <1>1 DEF Task
    <2>3. plan[k.plan].audience \subseteq admitted[k.plan]
      BY <1>1 DEF TypeInv, ServerInv
    <2> QED BY <1>1, <1>2, <1>5, <2>1, <2>2, <2>3 DEF LookUp
  <1>6. CASE Publish(k)
    <2>1. \A t \in Tabs : /\ buffer[t] \in Seq(Event)
                          /\ Fits(t) => /\ Append(buffer[t], EventOf(k)) \in Seq(Event)
                                        /\ Len(Append(buffer[t], EventOf(k))) <= bufSz
                                        /\ t \in conn
      <3> TAKE t \in Tabs
      <3>1. buffer[t] \in Seq(Event) /\ Len(buffer[t]) \in Nat /\ bufSz \in Nat /\ EventOf(k) \in Event
        <4>1. EventOf(k) \in Event
          BY TaskSteps
        <4>2. bufSz \in Nat
          BY EventsAssumption
        <4>3. buffer[t] \in Seq(Event)
          BY DEF TypeInv, TypeOK
        <4> QED BY <4>1, <4>2, <4>3
      <3>2. \A s \in Seq(Event), e \in Event : Append(s, e) \in Seq(Event) /\ Len(Append(s, e)) = Len(s) + 1
        OBVIOUS
      <3>3. Append(buffer[t], EventOf(k)) \in Seq(Event)
            /\ Len(Append(buffer[t], EventOf(k))) = Len(buffer[t]) + 1
        BY <3>1, <3>2
      <3> QED BY <3>1, <3>3 DEF Fits
    <2>2. buffer' \in [Tabs -> Seq(Event)]
      BY <1>6, <2>1 DEF Publish, Receives
    <2>3. \A t \in Tabs : Len(buffer'[t]) <= bufSz /\ (t \notin conn => buffer'[t] = << >>)
      BY <1>6, <2>1 DEF Publish, Receives, TypeInv, TypeOK
    <2>4. doubt' \in [Tabs -> SUBSET Causes]
      BY <1>6 DEF Publish, TypeInv, TypeOK, Causes
    <2>5. tasks' = (tasks \ {k}) \cup Then(k) /\ UNCHANGED <<plan, conn, client, admitted, left>>
      BY <1>6 DEF Publish
    <2>6. tasks' \subseteq Task
      BY <1>1, <2>5, TaskSteps
    <2>7. TypeOK'
      BY <2>2, <2>3, <2>4, <2>5, <2>6 DEF TypeInv, TypeOK, client
    <2>8. \A j \in tasks' : j.to \subseteq admitted[j.plan] /\ (j.step \in {"read", "lookUp"} => j.to = {})
      <3> TAKE j \in tasks'
      <3>1. CASE j \in Then(k)
        BY <1>1, <3>1, TaskSteps
      <3> QED BY <1>1, <2>5, <3>1
    <2> QED BY <2>5, <2>7, <2>8 DEF TypeInv, ServerInv, Exists
  <1>7. CASE DeleteCommits(k)
    <2>1. tasks' = tasks \ {k} /\ UNCHANGED <<buffer, conn, client, left>>
      BY <1>7 DEF DeleteCommits
    <2>2. CASE ~Exists(k.plan)
      BY <1>3, <1>7, <2>1, <2>2 DEF DeleteCommits
    <2>3. CASE Exists(k.plan)
      <3>1. plan' = [plan EXCEPT ![k.plan] = Deleted]
        BY <1>7, <2>3 DEF DeleteCommits, Change
      <3>2. admitted' = [p \in Plans |-> admitted[p] \cup plan'[p].audience]
        BY <1>7, <2>3 DEF DeleteCommits, Change
      <3>3. doubt' \in [Tabs -> SUBSET Causes]
        <4>1. [t \in Tabs |-> {"early"}] \in [Tabs -> SUBSET Causes]
          BY DEF Causes
        <4> QED BY <1>7, <2>3, <4>1, UnheardTypes DEF DeleteCommits
      <3>4. plan' \in [Plans -> Row] /\ Deleted.look = Gone /\ Gone.live = 0 /\ Gone.detail = 0
        <4>1. 0 \in 0 .. MaxChanges + 1
          BY EventsAssumption
        <4> QED BY <3>1, <4>1 DEF TypeInv, TypeOK, Deleted, Gone, Row, Look, Marks
      <3>5. admitted' \in [Plans -> SUBSET Users] /\ \A p \in Plans : admitted[p] \subseteq admitted'[p]
        BY <3>2, <3>4 DEF TypeInv, TypeOK, Row
      <3>6. TypeOK'
        BY <2>1, <3>3, <3>4, <3>5 DEF TypeInv, TypeOK, client, Row
      <3>7. \A p \in Plans : plan'[p] = plan[p] \/ plan'[p] = Deleted
        BY <3>1 DEF TypeInv, TypeOK
      <3>8. left.changes \in 0 .. MaxChanges /\ MaxChanges \in Nat
        BY EventsAssumption DEF TypeInv, TypeOK
      <3>9. \A p \in Plans : /\ plan'[p].look.live + left.changes <= MaxChanges + 1
                             /\ plan'[p].look.detail <= plan'[p].look.live
        <4> TAKE p \in Plans
        <4>1. CASE plan'[p] = plan[p]
          BY <4>1 DEF TypeInv, ServerInv
        <4>2. CASE plan'[p] = Deleted
          BY <3>4, <3>8, <4>2
        <4> QED BY <3>7, <4>1, <4>2
      <3>10. \A p \in Plans : plan'[p].look = Gone => plan'[p].audience = {}
        BY <3>7 DEF TypeInv, ServerInv, Exists, Deleted
      <3>11. \A p \in Plans : plan'[p].audience \subseteq admitted'[p]
        BY <3>2
      <3>12. \A j \in tasks' : j.plan \in Plans /\ j.to \subseteq admitted'[j.plan]
                               /\ (j.step \in {"read", "lookUp"} => j.to = {})
        BY <1>1, <2>1, <3>5 DEF Task
      <3> QED BY <2>1, <3>6, <3>9, <3>10, <3>11, <3>12 DEF TypeInv, ServerInv, Exists
    <2> QED BY <2>2, <2>3
  <1> QED BY <1>0, <1>4, <1>5, <1>6, <1>7

LEMMA FaultTypes ==
  ASSUME TypeInv, Fault
  PROVE  left' \in [changes : 0 .. MaxChanges, cuts : 0 .. MaxCuts] /\ left'.changes = left.changes
  <1>1. left.cuts \in 0 .. MaxCuts /\ left.cuts > 0 /\ MaxCuts \in Nat
    BY EventsAssumption DEF Fault, TypeInv, TypeOK
  <1>2. left.cuts - 1 \in 0 .. MaxCuts
    BY <1>1
  <1> QED BY <1>2 DEF Fault, TypeInv, TypeOK

\* A publisher that goes on, gives up or does not hear leaves the plans alone.
LEMMA BusyTypes == ASSUME TypeInv, Busy PROVE TypeInv'
  <1>0. PICK k \in tasks : LookUpFails(k) \/ GivesUp(k) \/ ReadsNoPosition(k)
    BY DEF Busy
  <1>1. left' \in [changes : 0 .. MaxChanges, cuts : 0 .. MaxCuts] /\ left'.changes = left.changes
    BY <1>0, FaultTypes DEF LookUpFails, GivesUp, ReadsNoPosition
  <1>2. UNCHANGED <<plan, buffer, conn, client, admitted>>
    BY <1>0 DEF LookUpFails, GivesUp, ReadsNoPosition
  <1>u. doubt' \in [Tabs -> SUBSET Causes]
    <2>1. Unpublished \/ doubt' = doubt
      BY <1>0 DEF LookUpFails, GivesUp, ReadsNoPosition
    <2> QED BY <2>1 DEF Unpublished, TypeInv, TypeOK, Causes
  <1>3. tasks' \subseteq Task /\ \A j \in tasks' : /\ j.to \subseteq admitted[j.plan]
                                                   /\ j.step \in {"read", "lookUp"} => j.to = {}
    <2> DEFINE j == [k EXCEPT !.step = "publish"]
               h == [k EXCEPT !.step = "lookUp"]
    <2>1. /\ j \in Task /\ j.plan = k.plan /\ j.to = k.to /\ j.step = "publish"
          /\ h \in Task /\ h.plan = k.plan /\ h.to = k.to
      BY TaskSteps DEF Task
    <2>2. \/ tasks' = (tasks \ {k}) \cup {j}
          \/ tasks' = (tasks \ {k}) \cup {h} /\ k.step = "read"
          \/ tasks' = tasks \ {k}
          \/ tasks' = (tasks \ {k}) \cup Then(k)
      BY <1>0 DEF LookUpFails, GivesUp, ReadsNoPosition
    <2>3. /\ k.to \subseteq admitted[k.plan] /\ k.step = "read" => k.to = {}
          /\ \A i \in tasks : /\ i \in Task /\ i.to \subseteq admitted[i.plan]
                              /\ i.step \in {"read", "lookUp"} => i.to = {}
      BY DEF TypeInv, TypeOK, ServerInv
    <2>4. \A i \in Then(k) : /\ i \in Task /\ i.to \subseteq admitted[i.plan]
                             /\ i.step \in {"read", "lookUp"} => i.to = {}
      <3> TAKE i \in Then(k)
      <3>1. i \in Task /\ i.to \subseteq k.to /\ (i.step \in {"read", "lookUp"} => i.to = {})
            /\ (i.to # {} => i.plan = k.plan)
        BY TaskSteps
      <3> QED BY <2>3, <3>1
    <2> HIDE DEF j, h
    <2> QED BY <2>1, <2>2, <2>3, <2>4
  <1>4. TypeOK'
    BY <1>1, <1>2, <1>u, <1>3 DEF TypeInv, TypeOK, client
  <1>5. ServerInv'
    <2>1. plan' = plan /\ admitted' = admitted
      BY <1>2
    <2>2. \A p \in Plans : /\ plan'[p].look.live + left'.changes <= MaxChanges + 1
                           /\ plan'[p].look.detail <= plan'[p].look.live
                           /\ plan'[p].look = Gone => plan'[p].audience = {}
                           /\ plan'[p].audience \subseteq admitted'[p]
      <3>1. \A p \in Plans : /\ plan[p].look.live + left.changes <= MaxChanges + 1
                             /\ plan[p].look.detail <= plan[p].look.live
                             /\ plan[p].look = Gone => plan[p].audience = {}
                             /\ plan[p].audience \subseteq admitted[p]
        BY DEF TypeInv, ServerInv, Exists
      <3> QED BY <1>1, <2>1, <3>1
    <2>3. \A j \in tasks' : /\ j.to \subseteq admitted'[j.plan]
                            /\ j.step \in {"read", "lookUp"} => j.to = {}
      BY <1>3, <2>1
    <2> QED BY <2>2, <2>3 DEF ServerInv, Exists
  <1> QED BY <1>4, <1>5 DEF TypeInv

LEMMA FoldTypes ==
  ASSUME NEW view \in View \cup {None}, NEW e \in Event
  PROVE  foldUpdate(view, e) \in View \cup {None}
  <1>1. e.plan \in Plans /\ e.live \in Marks
    BY DEF Event
  <1>2. CASE view = None
    BY <1>2 DEF foldUpdate
  <1>3. CASE view \in View
    <2>1. [view EXCEPT ![e.plan].live = e.live] \in View
      BY <1>1, <1>3 DEF View, Look
    <2> QED BY <1>3, <2>1 DEF foldUpdate
  <1> QED BY <1>2, <1>3

LEMMA TabTypes ==
  ASSUME TypeInv, NEW t \in Tabs, TabStep(t) \/ Open(t) \/ Disturbed(t)
  PROVE  TypeInv'
  <1>1. /\ buffer[t] \in Seq(Event) /\ Len(buffer[t]) <= bufSz /\ bufSz \in Nat
        /\ shown[t] \in View \cup {None} /\ loading[t] \in View \cup {None, Asked}
        /\ Truth(t) \in View
    BY ViewType, EventsAssumption DEF TypeInv, TypeOK, Truth, Row
  <1>2. ASSUME buffer[t] # << >>
        PROVE Head(buffer[t]) \in Event /\ Tail(buffer[t]) \in Seq(Event)
              /\ Len(Tail(buffer[t])) <= bufSz /\ t \in conn
    BY <1>1, <1>2 DEF TypeInv, TypeOK
  <1>3. ASSUME UNCHANGED <<server, admitted>>, left'.changes = left.changes, TypeOK' PROVE TypeInv'
    <2>1. \A p \in Plans : /\ plan[p].look.live + left.changes <= MaxChanges + 1
                           /\ plan[p].look.detail <= plan[p].look.live
                           /\ plan[p].look = Gone => plan[p].audience = {}
                           /\ plan[p].audience \subseteq admitted[p]
      BY DEF TypeInv, ServerInv, Exists
    <2>2. plan' = plan /\ tasks' = tasks /\ admitted' = admitted
      BY <1>3 DEF server
    <2>3. \A k \in tasks' : /\ k.to \subseteq admitted'[k.plan]
                            /\ k.step \in {"read", "lookUp"} => k.to = {}
      BY <2>2 DEF TypeInv, ServerInv
    <2> QED BY <1>3, <2>1, <2>2, <2>3 DEF TypeInv, ServerInv, Exists
  <1>a. ASSUME NEW d \in SUBSET Causes, doubt' = doubt \/ doubt' = [doubt EXCEPT ![t] = d]
        PROVE doubt' \in [Tabs -> SUBSET Causes]
    BY <1>a DEF TypeInv, TypeOK
  <1>4. CASE Reload(t)
    <2>1. /\ buffer[t] # << >> /\ buffer' = [buffer EXCEPT ![t] = Tail(@)]
          /\ UNCHANGED <<server, conn, shown, admitted, left>>
          /\ loading' = loading \/ loading' = [loading EXCEPT ![t] = Asked]
      BY <1>4 DEF Reload, Ignores
    <2>2. doubt[t] \in SUBSET Causes /\ doubt[t] \cup {"ignored"} \in SUBSET Causes
      BY DEF TypeInv, TypeOK, Causes
    <2>3. \/ doubt' = doubt
          \/ doubt' = [doubt EXCEPT ![t] = doubt[t]]
          \/ doubt' = [doubt EXCEPT ![t] = doubt[t] \cup {"ignored"}]
      BY <1>4 DEF Reload, Ignores
    <2>4. doubt' \in [Tabs -> SUBSET Causes]
      BY <1>a, <2>2, <2>3
    <2> QED BY <1>1, <1>2, <1>3, <2>1, <2>4 DEF server, TypeInv, TypeOK
  <1>5. CASE Fold(t)
    <2>1. shown' = [shown EXCEPT ![t] = foldUpdate(@, Head(buffer[t]))]
          /\ buffer' = [buffer EXCEPT ![t] = Tail(@)] /\ buffer[t] # << >>
          /\ UNCHANGED <<server, conn, loading, admitted, left>>
      BY <1>5 DEF Fold
    <2>2. shown' \in [Tabs -> View \cup {None}]
      <3>1. foldUpdate(shown[t], Head(buffer[t])) \in View \cup {None}
        BY <1>1, <1>2, <2>1, FoldTypes
      <3> QED BY <2>1, <3>1 DEF TypeInv, TypeOK
    <2>3. doubt' \in [Tabs -> SUBSET Causes]
      <3>1. /\ doubt[t] \in SUBSET Causes /\ doubt[t] \cup {"folded"} \in SUBSET Causes
            /\ doubt[t] \ {"folded"} \in SUBSET Causes
        BY DEF TypeInv, TypeOK, Causes
      <3>2. \/ doubt' = [doubt EXCEPT ![t] = doubt[t]]
            \/ doubt' = [doubt EXCEPT ![t] = doubt[t] \cup {"folded"}]
            \/ doubt' = [doubt EXCEPT ![t] = doubt[t] \ {"folded"}]
        BY <1>5 DEF Fold
      <3> QED BY <1>a, <3>1, <3>2
    <2> QED BY <1>2, <1>3, <2>1, <2>2, <2>3 DEF server, TypeInv, TypeOK
  <1>6. CASE Serve(t)
    BY <1>1, <1>3, <1>6 DEF Serve, server, TypeInv, TypeOK
  <1>7. CASE Show(t)
    BY <1>1, <1>3, <1>7 DEF Show, server, TypeInv, TypeOK
  <1>8. CASE Reconnect(t)
    BY <1>1, <1>3, <1>8 DEF Reconnect, server, client, TypeInv, TypeOK
  <1>9. CASE Open(t)
    BY <1>3, <1>9 DEF Open, server, TypeInv, TypeOK
  <1>10. ASSUME Disturbed(t)
         PROVE /\ left' \in [changes : 0 .. MaxChanges, cuts : 0 .. MaxCuts]
               /\ left'.changes = left.changes
    BY <1>10, FaultTypes DEF Disturbed, Leave, LoadFails, Cut
  <1>11. CASE Leave(t)
    BY <1>3, <1>10, <1>11 DEF Disturbed, Leave, server, TypeInv, TypeOK
  <1>12. CASE LoadFails(t)
    <2>1. doubt' \in [Tabs -> SUBSET Causes]
      BY <1>12 DEF LoadFails, TypeInv, TypeOK, Causes
    <2> QED BY <1>3, <1>10, <1>12, <2>1 DEF Disturbed, LoadFails, server, TypeInv, TypeOK
  <1>13. CASE Cut(t)
    <2>3. buffer' \in [Tabs -> Seq(Event)] /\ conn' \subseteq Tabs
          /\ \A u \in Tabs : Len(buffer'[u]) <= bufSz /\ (u \notin conn' => buffer'[u] = << >>)
      BY <1>1, <1>13 DEF Cut, TypeInv, TypeOK
    <2>4. doubt' \in [Tabs -> SUBSET Causes] /\ UNCHANGED <<plan, tasks, client, admitted>>
      BY <1>13 DEF Cut, server, TypeInv, TypeOK, Causes
    <2> QED BY <1>3, <1>10, <1>13, <2>3, <2>4 DEF Disturbed, client, server, TypeInv, TypeOK
  <1> QED BY <1>4, <1>5, <1>6, <1>7, <1>8, <1>9, <1>11, <1>12, <1>13 DEF TabStep, Disturbed

\* The hub and its tabs stay in shape, no buffer exceeds its size, and every
\* event is for people who could once see the plan (sse.go:88).
THEOREM TypeCorrect == Spec => [](TypeOK /\ ServerInv)
  <1>1. Init => TypeInv
    BY InitTypes
  <1>2. TypeInv /\ [Next]_vars => TypeInv'
    <2> SUFFICES ASSUME TypeInv, [Next]_vars PROVE TypeInv'
      OBVIOUS
    <2>1. CASE Next
      BY <2>1, BeginTypes, PublisherTypes, BusyTypes, TabTypes DEF Next
    <2>2. CASE UNCHANGED vars
      BY <2>2 DEF vars, server, client, TypeInv, TypeOK, ServerInv, Exists
    <2> QED BY <2>1, <2>2
  <1> QED BY <1>1, <1>2, PTL DEF Spec, TypeInv

\* Only an event for nobody in particular reaches a tab whose user never could
\* see its plan (sse.go:17).
THEOREM LeaksNeedNobody == Spec => LeakNeedsAnEmptyAudience
  <1> DEFINE Good == \A t \in Tabs, e \in Event : Hears(t, e) /\ ~MayHear(t, e.plan) => e.to = {}
  <1>1. ASSUME TypeInv, [Next]_vars PROVE [Good]_vars
    <2> SUFFICES ASSUME NEW t \in Tabs, NEW e \in Event, Hears(t, e), ~MayHear(t, e.plan)
                 PROVE  e.to = {}
      OBVIOUS
    <2>1. buffer[t] \in Seq(Event) /\ buffer'[t] = Append(buffer[t], e)
          /\ Len(buffer'[t]) = Len(buffer[t]) + 1 /\ buffer'[t][Len(buffer[t]) + 1] = e
      <3>1. buffer[t] \in Seq(Event) /\ buffer'[t] = Append(buffer[t], e)
        BY <1>1 DEF Hears, TypeInv, TypeOK
      <3> QED BY <3>1
    <2>2. ASSUME NEW k \in tasks, Publish(k) PROVE e.to = {}
      <3>1. EventOf(k) \in Event /\ k.plan \in Plans /\ k.to \subseteq admitted[k.plan]
        <4>1. EventOf(k) \in Event /\ k.plan \in Plans
          BY <1>1, TaskSteps
        <4> QED BY <1>1, <4>1 DEF TypeInv, ServerInv
      <3>2. CASE Receives(EventOf(k), t)
        <4>1. buffer'[t] = Append(buffer[t], EventOf(k))
          BY <2>2, <3>2 DEF Publish
        <4>2. e = EventOf(k)
          BY <2>1, <3>1, <4>1
        <4> QED BY <3>1, <3>2, <4>2 DEF EventOf, MayHear, Receives, shouldDeliver, visibleSet
      <3>3. CASE ~Receives(EventOf(k), t)
        <4>1. buffer'[t] = buffer[t]
          BY <2>2, <3>3 DEF Publish
        <4> QED BY <2>1, <4>1
      <3> QED BY <3>2, <3>3
    <2>3. ASSUME UNCHANGED buffer PROVE FALSE
      BY <2>1, <2>3
    <2>4. ASSUME NEW u \in Tabs, Reload(u) \/ Fold(u) \/ Cut(u) PROVE FALSE
      <3>1. buffer'[t] = buffer[t] \/ (buffer[t] # << >> /\ buffer'[t] = Tail(buffer[t])) \/ buffer'[t] = << >>
        <4>1. buffer \in [Tabs -> Seq(Event)]
          BY <1>1 DEF TypeInv, TypeOK
        <4>2. CASE Reload(u) \/ Fold(u)
          BY <4>1, <4>2 DEF Reload, Fold
        <4>3. CASE Cut(u)
          BY <4>1, <4>3 DEF Cut
        <4> QED BY <2>4, <4>2, <4>3
      <3>2. ASSUME buffer[t] # << >> PROVE Len(Tail(buffer[t])) < Len(buffer[t]) + 1
        BY <2>1, <3>2
      <3>3. Len(<< >>) # Len(buffer[t]) + 1
        BY <2>1
      <3> QED BY <2>1, <3>1, <3>2, <3>3
    <2>5. CASE Begin
      BY <2>3, <2>5 DEF Begin, Update, Reshare, Delete, Poll, Absorb
    <2>6. CASE PublisherStep
      BY <2>2, <2>3, <2>6 DEF PublisherStep, ReadBack, LookUp, DeleteCommits
    <2>7. CASE Busy
      BY <2>3, <2>7 DEF Busy, LookUpFails, GivesUp, ReadsNoPosition
    <2>8. ASSUME NEW u \in Tabs, TabStep(u) \/ Open(u) \/ Disturbed(u) PROVE FALSE
      BY <2>3, <2>4, <2>8 DEF TabStep, Serve, Show, Reconnect, Open, Disturbed, Leave, LoadFails
    <2>9. CASE UNCHANGED vars
      BY <2>3, <2>9 DEF vars
    <2> QED BY <1>1, <2>5, <2>6, <2>7, <2>8, <2>9 DEF Next
  <1> QED BY <1>1, TypeCorrect, PTL DEF Spec, TypeInv, LeakNeedsAnEmptyAudience
----------------------------------------------------------------------------
(* Staleness *)

----------------------------------------------------------------------------
(* Staleness *)

LEMMA TruthAt ==
  ASSUME NEW pl, NEW t, NEW p \in Plans
  PROVE  TruthIn(pl, t)[p] =
           IF t \in ShowAll \/ UserOf[t] \in pl[p].audience THEN pl[p].look ELSE Gone
  BY DEF TruthIn

\* What a step of the server must do to leave a tab settled.
LEMMA ServerSettles ==
  ASSUME Fresh, UNCHANGED <<buffer, conn, client>>,
         NEW t \in Tabs, NEW p \in Plans, NEW f \in Fields,
         doubt[t] \subseteq doubt'[t], Sure(t, f)',
         t \notin conn => Truth(t)'[p][f] = Truth(t)[p][f],
         Truth(t)'[p][f] = Truth(t)[p][f] \/ \E k \in tasks' : Tells(k, t, p, f)',
         \A k \in tasks : Tells(k, t, p, f) => \E j \in tasks' : Tells(j, t, p, f)'
  PROVE  Settled(t, p, f)'
  <1>1. Screen(t)' = Screen(t) /\ Deaf(t)' = Deaf(t) /\ InBuffer(t, p)' = InBuffer(t, p) /\ conn' = conn
    BY DEF Screen, Deaf, InBuffer, client
  <1>2. Sure(t, f)
    BY <1>1 DEF Sure
  <1>3. Settled(t, p, f)
    BY <1>2 DEF Fresh
  <1> QED BY <1>1, <1>3 DEF Settled

LEMMA TellsSame ==
  ASSUME plan' = plan, NEW t, NEW p, NEW f
  PROVE  Truth(t)' = Truth(t) /\ \A k : Tells(k, t, p, f)' = Tells(k, t, p, f)
  BY DEF Truth, TruthIn, Tells, Reaches, Exists, Sees, shouldDeliver, visibleSet, EventOf

\* A tab the step takes no notice of.
LEMMA SameSettles ==
  ASSUME Fresh, UNCHANGED server, NEW t \in Tabs, NEW p \in Plans, NEW f \in Fields, Sure(t, f)',
         buffer'[t] = buffer[t], loading'[t] = loading[t], shown'[t] = shown[t],
         doubt'[t] = doubt[t], t \notin conn' => t \notin conn
  PROVE  Settled(t, p, f)'
  <1>1. plan' = plan /\ tasks' = tasks
    BY DEF server
  <1>2. Screen(t)' = Screen(t) /\ Deaf(t)' = Deaf(t) /\ InBuffer(t, p)' = InBuffer(t, p)
    BY DEF Screen, Deaf, InBuffer
  <1>3. Truth(t)' = Truth(t) /\ \A k : Tells(k, t, p, f)' = Tells(k, t, p, f)
    BY <1>1, TellsSame
  <1>4. Settled(t, p, f)
    BY <1>2 DEF Sure, Fresh
  <1> QED BY <1>1, <1>2, <1>3, <1>4 DEF Settled

\* Whoever could see plans can see them still, and none is gone.
LEMMA TellsKept ==
  ASSUME TypeInv, NEW t \in Tabs, NEW p \in Plans, NEW f \in Fields,
         \A q \in Plans : /\ Exists(q)' = Exists(q)
                          /\ Sees(t, q) => Sees(t, q)',
         NEW k \in tasks, Tells(k, t, p, f)
  PROVE  Tells(k, t, p, f)'
  <1>1. k.plan \in Plans
    BY TaskSteps
  <1> QED BY <1>1 DEF Tells, Reaches, shouldDeliver, visibleSet, EventOf

\* A change that came with doubts left a tab without them as it was.
LEMMA Undoubted ==
  ASSUME TypeInv, NEW pl, NEW why \in [Tabs -> SUBSET Causes], Unheard(pl, why), plan' = pl,
         UNCHANGED <<buffer, client>>, NEW t \in Tabs, NEW f, Sure(t, f)'
  PROVE  /\ doubt[t] \subseteq doubt'[t]
         /\ why[t] \cap Harms(f) # {} => Truth(t)' = Truth(t)
  <1>1. Deaf(t)
    BY DEF Sure, Deaf, client
  <1>2. doubt'[t] = IF TruthIn(pl, t) # Truth(t) THEN doubt[t] \cup why[t] ELSE doubt[t]
    BY <1>1 DEF Unheard
  <1>3. Truth(t)' = TruthIn(pl, t)
    BY DEF Truth
  <1>4. doubt'[t] \cap Harms(f) = {}
    BY DEF Sure, Harms
  <1> QED BY <1>2, <1>3, <1>4

LEMMA CutOffHarms ==
  ASSUME NEW t \in Tabs, NEW f
  PROVE  /\ CutOff \in [Tabs -> SUBSET Causes]
         /\ t \notin conn => CutOff[t] \cap Harms(f) # {}
         /\ {"hidden"} \cap Harms(f) # {} /\ {"early"} \cap Harms(f) # {}
         /\ {"unpublished"} \cap Harms(f) # {} /\ {"dropped"} \cap Harms(f) # {}
         /\ {"failed"} \cap Harms(f) # {} /\ {"ignored"} \cap Harms(f) # {}
         /\ {"cut"} \cap Harms(f) # {}
  BY DEF CutOff, Causes, Harms

\* A plan is edited, or its flight refreshed.
LEMMA BumpSettles ==
  ASSUME TypeInv, Fresh, left.changes > 0, NEW q \in Plans, Exists(q),
         NEW pl \in {Bump(q), Tick(q)}, Change(pl),
         NEW why \in [Tabs -> SUBSET Causes], Unheard(pl, why), UNCHANGED <<buffer, conn, client>>,
         NEW n, n.step \in {"read", "lookUp"}, n.plan = q, n.op # "delete",
         tasks' = tasks \cup {n},
         NEW t \in Tabs, NEW p \in Plans, NEW f \in Fields, Sure(t, f)',
         t \notin conn => why[t] \cap Harms(f) # {},
         \/ f = "detail" => n.op # "poll"
         \/ why[t] \cap Harms(f) # {}
         \/ \A s \in Plans : pl[s].look[f] = plan[s].look[f]
  PROVE  Settled(t, p, f)'
  <1>1. plan' = pl
    BY DEF Change
  <1>2. /\ \A s \in Plans : /\ plan'[s].audience = plan[s].audience
                            /\ s # q => plan'[s] = plan[s]
        /\ plan'[q].look # Gone
    BY <1>1, BumpTypes
  <1>3. \A s \in Plans : Exists(s)' = Exists(s) /\ Sees(t, s)' = Sees(t, s)
    <2> TAKE s \in Plans
    <2>1. CASE s = q
      BY <1>2, <2>1 DEF Exists, Sees
    <2>2. CASE s # q
      BY <1>2, <2>2 DEF Exists, Sees
    <2> QED BY <2>1, <2>2
  <1>4. doubt[t] \subseteq doubt'[t] /\ (why[t] \cap Harms(f) # {} => Truth(t)' = Truth(t))
    BY <1>1, Undoubted
  <1>5. \A k \in tasks : Tells(k, t, p, f) => Tells(k, t, p, f)'
    BY <1>3, TellsKept
  <1>6. Truth(t)'[p][f] = Truth(t)[p][f] \/ Tells(n, t, p, f)'
    <2>1. CASE p # q
      <3>1. plan'[p] = plan[p]
        BY <1>2, <2>1
      <3> QED BY <3>1, TruthAt DEF Truth
    <2>2. CASE ~Sees(t, p)
      <3>1. ~Sees(t, p)'
        BY <1>3, <2>2
      <3> QED BY <2>2, <3>1, TruthAt DEF Truth, Sees
    <2>3. CASE p = q /\ Sees(t, q) /\ (f = "detail" => n.op # "poll")
      <3>1. Exists(q)' /\ Sees(t, q)'
        BY <1>3, <2>3
      <3> QED BY <2>3, <3>1 DEF Tells, Reaches
    <2>4. CASE Sees(t, p) /\ \A s \in Plans : pl[s].look[f] = plan[s].look[f]
      <3>1. Sees(t, p)' /\ plan'[p].look[f] = plan[p].look[f]
        BY <1>1, <1>3, <2>4
      <3> QED BY <2>4, <3>1, TruthAt DEF Truth, Sees
    <2> QED BY <1>4, <2>1, <2>2, <2>3, <2>4
  <1> QED BY <1>4, <1>5, <1>6, ServerSettles

\* Those who lose the plan have something to worry about from now on.
LEMMA ReshareSettles ==
  ASSUME TypeInv, Fresh, NEW q \in Plans, Reshare(q),
         NEW t \in Tabs, NEW p \in Plans, NEW f \in Fields, Sure(t, f)'
  PROVE  Settled(t, p, f)'
  <1>0. PICK a \in SUBSET Users :
          /\ Exists(q)
          /\ Change([plan EXCEPT ![q].audience = a])
          /\ tasks' = tasks \cup {NewTask("reshare", q, q, "lookUp")}
          /\ Unheard([plan EXCEPT ![q].audience = a],
                     [u \in Tabs |-> IF UserOf[u] \in a THEN CutOff[u] ELSE {"hidden"}])
          /\ UNCHANGED <<buffer, conn, client>>
    BY DEF Reshare
  <1> DEFINE why == [u \in Tabs |-> IF UserOf[u] \in a THEN CutOff[u] ELSE {"hidden"}]
  <1>2. PICK n : n = NewTask("reshare", q, q, "lookUp")
    OBVIOUS
  <1>3. n.step = "lookUp" /\ n.plan = q /\ n.op = "reshare" /\ tasks' = tasks \cup {n}
    BY <1>0, <1>2 DEF NewTask
  <1>4. plan' = [plan EXCEPT ![q].audience = a] /\ Unheard(plan', why)
    BY <1>0 DEF Change
  <1>5. /\ \A r \in Plans : /\ plan'[r].look = plan[r].look
                            /\ r # q => plan'[r] = plan[r]
        /\ plan'[q].audience = a
    BY <1>4 DEF TypeInv, TypeOK
  <1>6. why \in [Tabs -> SUBSET Causes]
    <2>1. CutOff \in [Tabs -> SUBSET Causes]
      BY CutOffHarms
    <2> QED BY <2>1 DEF Causes
  <1>7. t \notin conn \/ UserOf[t] \notin a => why[t] \cap Harms(f) # {}
    BY CutOffHarms
  <1> HIDE DEF why
  <1>8. doubt[t] \subseteq doubt'[t] /\ (t \notin conn \/ UserOf[t] \notin a => Truth(t)' = Truth(t))
    BY <1>0, <1>4, <1>6, <1>7, Undoubted
  <1>9. Sees(t, q) => Sees(t, q)'
    <2>1. CASE UserOf[t] \in a \/ t \in ShowAll
      BY <1>5, <2>1 DEF Sees
    <2>2. CASE UserOf[t] \notin a /\ t \notin ShowAll
      <3>1. TruthIn(plan', t)[q] = Gone /\ TruthIn(plan', t) = Truth(t)
        BY <1>5, <1>8, <2>2, TruthAt DEF Truth
      <3> QED BY <1>0, <3>1, TruthAt DEF Truth, Sees, Exists
    <2> QED BY <2>1, <2>2
  <1>10. \A r \in Plans : (Sees(t, r) => Sees(t, r)') /\ Exists(r)' = Exists(r)
    BY <1>5, <1>9 DEF Sees, Exists
  <1>11. \A k \in tasks : Tells(k, t, p, f) => Tells(k, t, p, f)'
    BY <1>10, TellsKept
  <1>12. Tells(n, t, p, f)' \/ Truth(t)'[p][f] = Truth(t)[p][f]
    <2>1. CASE p # q
      <3>1. plan'[p] = plan[p]
        BY <1>5, <2>1
      <3> QED BY <3>1, TruthAt DEF Truth
    <2>2. CASE p = q /\ Sees(t, q)'
      BY <1>3, <2>2 DEF Tells, Reaches
    <2>3. CASE p = q /\ ~Sees(t, q)'
      <3>1. ~Sees(t, q)
        BY <1>9, <2>3
      <3> QED BY <2>3, <3>1, TruthAt DEF Truth, Sees
    <2> QED BY <2>1, <2>2, <2>3
  <1> QED BY <1>0, <1>3, <1>8, <1>11, <1>12, ServerSettles

\* The event for the absorbed plan is for everybody.
LEMMA AbsorbSettles ==
  ASSUME TypeInv, Fresh, left.changes > 0, NEW q \in Plans, NEW r \in Plans, Absorb(q, r),
         NEW t \in Tabs, NEW p \in Plans, NEW f \in Fields, Sure(t, f)'
  PROVE  Settled(t, p, f)'
  <1>1. /\ q # r /\ Exists(q) /\ Exists(r)
        /\ Change(Joined(q, r)) /\ Unheard(Joined(q, r), CutOff)
        /\ tasks' = tasks \cup {NewTask("absorb", r, q, "lookUp")}
        /\ UNCHANGED <<buffer, conn, client>>
    BY DEF Absorb
  <1>2. PICK n : n = NewTask("absorb", r, q, "lookUp")
    OBVIOUS
  <1>3. n.step = "lookUp" /\ n.plan = r /\ n.op = "absorb" /\ n.other = q /\ tasks' = tasks \cup {n}
    BY <1>1, <1>2 DEF NewTask
  <1>4. plan' = Joined(q, r)
    BY <1>1 DEF Change
  <1>5. /\ plan'[r].look = Gone /\ plan'[q].look # Gone /\ plan'[q].audience = plan[q].audience
        /\ \A s \in Plans : s # q /\ s # r => plan'[s] = plan[s]
    BY <1>1, <1>4, AbsorbTypes
  <1>8. doubt[t] \subseteq doubt'[t] /\ (t \notin conn => Truth(t)' = Truth(t))
    <2>1. CutOff \in [Tabs -> SUBSET Causes] /\ (t \notin conn => CutOff[t] \cap Harms(f) # {})
      BY CutOffHarms
    <2> QED BY <1>1, <1>4, <2>1, Undoubted
  <1>9. ~Exists(r)'
    BY <1>5 DEF Exists
  <1>10. CASE p = q \/ p = r
    <2>1. Tells(n, t, p, f)'
      BY <1>3, <1>9, <1>10 DEF Tells, Reaches
    <2> QED BY <1>1, <1>3, <1>8, <2>1, ServerSettles
  <1>11. CASE p # q /\ p # r
    <2>1. plan'[p] = plan[p]
      BY <1>5, <1>11
    <2>2. Truth(t)'[p] = Truth(t)[p]
      BY <2>1, TruthAt DEF Truth
    <2>3. ASSUME NEW k \in tasks, Tells(k, t, p, f) PROVE Tells(k, t, p, f)'
      <3>1. k.step # "read" \/ k.plan = p
        BY <2>3 DEF Fresh, Tells
      <3>2. CASE k.plan = r
        BY <1>9, <1>11, <2>3, <3>1, <3>2 DEF Tells, Reaches, shouldDeliver, visibleSet, EventOf
      <3>3. CASE k.plan # r
        <4>1. k.plan \in Plans
          BY TaskSteps
        <4>2. Sees(t, k.plan)' = Sees(t, k.plan)
          BY <1>5, <3>3, <4>1 DEF Sees
        <4>3. Exists(k.plan)' = Exists(k.plan)
          BY <1>1, <1>5, <3>3, <4>1 DEF Exists
        <4> QED BY <2>3, <4>2, <4>3 DEF Tells, Reaches, shouldDeliver, visibleSet, EventOf
      <3> QED BY <3>2, <3>3
    <2> QED BY <1>1, <1>3, <1>8, <2>2, <2>3, ServerSettles
  <1> QED BY <1>10, <1>11

LEMMA BeginFresh == ASSUME TypeInv, Fresh, Begin PROVE Fresh'
  <1>0. PICK q \in Plans : \/ Update(q) \/ Reshare(q) \/ Delete(q) \/ Poll(q)
                           \/ \E r \in Plans : Absorb(q, r)
    BY DEF Begin
  <1>l. left.changes > 0
    BY DEF Begin
  <1>1. PICK n : tasks' = tasks \cup {n} /\ (n.step = "read" => n.op = "poll")
    <2> DEFINE Made(m) == tasks' = tasks \cup {m} /\ (m.step = "read" => m.op = "poll")
    <2>1. CASE Update(q)
      <3>1. Made(NewTask("update", q, q, "lookUp"))
        BY <2>1 DEF Update, NewTask
      <3> QED BY <3>1
    <2>2. CASE Reshare(q)
      <3>1. Made(NewTask("reshare", q, q, "lookUp"))
        BY <2>2 DEF Reshare, NewTask
      <3> QED BY <3>1
    <2>3. CASE Delete(q)
      <3>1. Made(NewTask("delete", q, q, "lookUp"))
        BY <2>3 DEF Delete, NewTask
      <3> QED BY <3>1
    <2>4. CASE Poll(q)
      <3>1. Made(NewTask("poll", q, q, "read"))
        BY <2>4 DEF Poll, NewTask
      <3> QED BY <3>1
    <2>5. ASSUME NEW r \in Plans, Absorb(q, r) PROVE \E m : Made(m)
      <3>1. Made(NewTask("absorb", r, q, "lookUp"))
        BY <2>5 DEF Absorb, NewTask
      <3> QED BY <3>1
    <2> QED BY <1>0, <2>1, <2>2, <2>3, <2>4, <2>5
  <1>2. \A k \in tasks' : k.step = "read" => k.op = "poll"
    BY <1>1 DEF Fresh
  <1>3. ASSUME NEW t \in Tabs, NEW p \in Plans, NEW f \in Fields, Sure(t, f)'
        PROVE  Settled(t, p, f)'
    <2>c. CutOff \in [Tabs -> SUBSET Causes] /\ (t \notin conn => CutOff[t] \cap Harms(f) # {})
      BY CutOffHarms
    <2>1. CASE Update(q)
      <3>1. PICK m : m = NewTask("update", q, q, "lookUp")
        OBVIOUS
      <3>2. m.step = "lookUp" /\ m.plan = q /\ m.op = "update"
        BY <3>1 DEF NewTask
      <3>3. /\ Exists(q) /\ Change(Bump(q)) /\ Unheard(Bump(q), CutOff)
            /\ tasks' = tasks \cup {m} /\ UNCHANGED <<buffer, conn, client>>
        BY <2>1, <3>1 DEF Update
      <3> QED BY <1>3, <1>l, <2>c, <3>2, <3>3, BumpSettles
    <2>2. CASE Reshare(q)
      BY <1>3, <2>2, ReshareSettles
    <2>3. CASE Delete(q)
      <3>1. UNCHANGED <<plan, buffer, conn, client, doubt>> /\ tasks \subseteq tasks'
        BY <2>3 DEF Delete
      <3>2. Truth(t)' = Truth(t) /\ \A k : Tells(k, t, p, f)' = Tells(k, t, p, f)
        BY <3>1, TellsSame
      <3> QED BY <1>3, <3>1, <3>2, ServerSettles
    <2>4. CASE Poll(q)
      <3>1. PICK m : m = NewTask("poll", q, q, "read")
        OBVIOUS
      <3>2. m.step = "read" /\ m.plan = q /\ m.op = "poll"
        BY <3>1 DEF NewTask
      <3>3. /\ Exists(q) /\ tasks' = tasks \cup {m} /\ UNCHANGED <<buffer, conn, client>>
            /\ \/ Change(Tick(q)) /\ Unheard(Tick(q), CutOff)
               \/ /\ Change(Bump(q))
                  /\ Unheard(Bump(q), [u \in Tabs |-> CutOff[u] \cup {"unfolded"}])
        BY <2>4, <3>1 DEF Poll
      <3>4. CASE Change(Tick(q)) /\ Unheard(Tick(q), CutOff)
        <4>1. f = "live" \/ \A s \in Plans : Tick(q)[s].look[f] = plan[s].look[f]
          <5> SUFFICES ASSUME f = "detail", NEW s \in Plans
                       PROVE  Tick(q)[s].look["detail"] = plan[s].look["detail"]
            BY DEF Fields
          <5>1. Tick(q) = [plan EXCEPT ![q].look.live = @ + 1]
            BY DEF Tick
          <5>2. CASE s # q
            BY <5>1, <5>2 DEF TypeInv, TypeOK
          <5>3. CASE s = q
            BY <5>1, <5>3 DEF TypeInv, TypeOK, Look
          <5> QED BY <5>2, <5>3
        <4> QED BY <1>3, <1>l, <2>c, <3>2, <3>3, <3>4, <4>1, BumpSettles
      <3>5. CASE /\ Change(Bump(q))
                 /\ Unheard(Bump(q), [u \in Tabs |-> CutOff[u] \cup {"unfolded"}])
        <4> DEFINE why == [u \in Tabs |-> CutOff[u] \cup {"unfolded"}]
        <4>1. why \in [Tabs -> SUBSET Causes] /\ (t \notin conn => why[t] \cap Harms(f) # {})
          BY <2>c DEF Causes
        <4>2. f = "live" \/ why[t] \cap Harms(f) # {}
          BY DEF Fields, Harms, Causes
        <4> HIDE DEF why
        <4>3. Unheard(Bump(q), why)
          BY <3>5 DEF why
        <4> QED BY <1>3, <1>l, <3>2, <3>3, <3>5, <4>1, <4>2, <4>3, BumpSettles
      <3> QED BY <3>3, <3>4, <3>5
    <2>5. CASE \E r \in Plans : Absorb(q, r)
      BY <1>3, <1>l, <2>5, AbsorbSettles
    <2> QED BY <1>0, <2>1, <2>2, <2>3, <2>4, <2>5
  <1> QED BY <1>2, <1>3 DEF Fresh

\* A publisher goes on, or ends, and changes nothing else.
LEMMA HandOver ==
  ASSUME TypeInv, Fresh, NEW k \in tasks, NEW T, tasks' = (tasks \ {k}) \cup T,
         \A j \in T : j.step # "read" \/ j.op = "poll",
         UNCHANGED <<plan, buffer, conn, client>>,
         \A t \in Tabs : doubt[t] \subseteq doubt'[t],
         \A t \in Tabs, p \in Plans, f \in Fields :
           Sure(t, f)' /\ Tells(k, t, p, f) => \E j \in T : Tells(j, t, p, f)
  PROVE  Fresh'
  <1>1. \A i \in tasks' : i.step = "read" => i.op = "poll"
    BY DEF Fresh
  <1>2. ASSUME NEW t \in Tabs, NEW p \in Plans, NEW f \in Fields, Sure(t, f)'
        PROVE  Settled(t, p, f)'
    <2>1. Truth(t)' = Truth(t) /\ \A i : Tells(i, t, p, f)' = Tells(i, t, p, f)
      BY TellsSame
    <2>2. \A i \in tasks : Tells(i, t, p, f) => \E h \in tasks' : Tells(h, t, p, f)'
      BY <1>2, <2>1
    <2> QED BY <1>2, <2>1, <2>2, ServerSettles
  <1> QED BY <1>1, <1>2 DEF Fresh

\* A publisher that nobody has to hear of ends.
LEMMA Ends ==
  ASSUME TypeInv, Fresh, NEW k \in tasks, tasks' = tasks \ {k},
         UNCHANGED <<plan, buffer, conn, client, doubt>>,
         \A t \in Tabs, p \in Plans, f \in Fields : ~Tells(k, t, p, f)
  PROVE  Fresh'
  <1>1. \A i \in tasks' : i.step = "read" => i.op = "poll"
    BY DEF Fresh
  <1>2. ASSUME NEW t \in Tabs, NEW p \in Plans, NEW f \in Fields, Sure(t, f)'
        PROVE  Settled(t, p, f)'
    <2>1. Truth(t)' = Truth(t) /\ \A i : Tells(i, t, p, f)' = Tells(i, t, p, f)
      BY TellsSame
    <2>2. \A i \in tasks : Tells(i, t, p, f) => \E h \in tasks' : Tells(h, t, p, f)'
      BY <2>1
    <2> QED BY <1>2, <2>1, <2>2, ServerSettles
  <1> QED BY <1>1, <1>2 DEF Fresh

\* What is not published leaves every tab in doubt.
LEMMA Unsure ==
  ASSUME TypeInv, Unpublished, \A i \in tasks' : i.step = "read" => i.op = "poll"
  PROVE  Fresh'
  <1>1. \A t \in Tabs, f \in Fields : ~Sure(t, f)'
    BY CutOffHarms DEF Unpublished, Sure
  <1> QED BY <1>1 DEF Fresh

LEMMA PublishFresh == ASSUME TypeInv, Fresh, NEW k \in tasks, Publish(k) PROVE Fresh'
  <1>1. k \in Task /\ k.plan \in Plans
    BY TaskSteps
  <1>2. /\ tasks' = (tasks \ {k}) \cup Then(k) /\ UNCHANGED <<plan, conn, client>>
        /\ k.step = "publish"
    BY DEF Publish
  <1>3. \A j \in Then(k) : j.step # "read"
    BY <1>1, <1>2 DEF Then, Task
  <1>4. \A i \in tasks' : i.step = "read" => i.op = "poll"
    BY <1>2, <1>3 DEF Fresh
  <1>5. ASSUME NEW t \in Tabs, NEW p \in Plans, NEW f \in Fields, Sure(t, f)'
        PROVE  Settled(t, p, f)'
    <2>1. Screen(t)' = Screen(t)
      BY <1>2 DEF Screen, client
    <2>2. Truth(t)' = Truth(t) /\ \A i : Tells(i, t, p, f)' = Tells(i, t, p, f)
      BY <1>2, TellsSame
    <2> DEFINE e == EventOf(k)
    <2>3. buffer[t] \in Seq(Event) /\ e \in Event
      BY TaskSteps DEF TypeInv, TypeOK
    <2>4. buffer'[t] = IF Receives(e, t) THEN Append(buffer[t], e) ELSE buffer[t]
      BY DEF Publish
    <2>5. /\ doubt[t] \subseteq doubt'[t]
          /\ shouldDeliver(e, t) /\ t \in conn /\ ~Fits(t) /\ Deaf(t) => "dropped" \in doubt'[t]
      BY DEF Publish
    <2>6. doubt'[t] \cap Harms(f) = {} /\ "dropped" \in Harms(f)
      BY <1>5 DEF Sure, Harms, Causes
    <2> HIDE DEF e
    <2>7. /\ DOMAIN buffer[t] \subseteq DOMAIN buffer'[t]
          /\ \A i \in DOMAIN buffer[t] : buffer'[t][i] = buffer[t][i]
      BY <2>3, <2>4
    <2>8. Deaf(t)
      BY <1>2, <1>5, <2>7 DEF Sure, Deaf, client
    <2>9. Settled(t, p, f)
      BY <1>5, <2>1, <2>5, <2>6, <2>8 DEF Sure, Fresh
    <2>10. InBuffer(t, p) => InBuffer(t, p)'
      BY <2>7 DEF InBuffer
    <2>11. ASSUME Screen(t)[p][f] # Truth(t)[p][f], Tells(k, t, p, f)
           PROVE  f = "live" /\ InBuffer(t, p)'
      <3>1. t \in conn
        BY <2>9, <2>11 DEF Settled
      <3>2. shouldDeliver(e, t)
        BY <1>2, <2>11 DEF Tells, Reaches, e
      <3>3. Fits(t)
        BY <2>5, <2>6, <2>8, <3>1, <3>2
      <3>4. buffer'[t] = Append(buffer[t], e)
        BY <2>4, <3>2, <3>3 DEF Receives
      <3>5. Len(buffer[t]) + 1 \in DOMAIN buffer'[t] /\ buffer'[t][Len(buffer[t]) + 1] = e
        BY <2>3, <3>4
      <3>6. e.fold
        BY <1>5, <3>5 DEF Sure, Deaf
      <3>7. k.op = "poll" /\ e.plan = k.plan
        BY <3>6 DEF e, EventOf
      <3>8. f = "live" /\ k.plan = p
        BY <2>11, <3>7 DEF Tells, Fields
      <3> QED BY <3>5, <3>7, <3>8 DEF InBuffer
    <2>12. Screen(t)[p][f] # Truth(t)[p][f] =>
             (f = "live" /\ InBuffer(t, p)') \/ \E i \in tasks' : Tells(i, t, p, f)'
      BY <1>2, <2>2, <2>9, <2>10, <2>11 DEF Settled
    <2> QED BY <1>2, <2>1, <2>2, <2>9, <2>12 DEF Settled
  <1> QED BY <1>4, <1>5 DEF Fresh

LEMMA DeleteFresh == ASSUME TypeInv, Fresh, NEW k \in tasks, DeleteCommits(k) PROVE Fresh'
  <1> DEFINE d == k.plan
             pl == [plan EXCEPT ![d] = Deleted]
  <1>1. d \in Plans
    BY TaskSteps
  <1>2. k.step = "commit" /\ tasks' = tasks \ {k} /\ UNCHANGED <<buffer, conn, client>>
    BY DEF DeleteCommits
  <1>3. \A t, p, f : ~Tells(k, t, p, f)
    BY <1>2 DEF Tells, Reaches
  <1>4. CASE ~Exists(d)
    <2>1. UNCHANGED <<plan, doubt>>
      BY <1>4 DEF DeleteCommits
    <2> QED BY <1>2, <1>3, <2>1, Ends
  <1>5. CASE Exists(d)
    <2>1. plan' = pl /\ Unheard(pl, [t \in Tabs |-> {"early"}])
      BY <1>5 DEF DeleteCommits, Change
    <2>2. plan'[d] = Deleted /\ \A r \in Plans : r # d => plan'[r] = plan[r]
      BY <1>1, <2>1 DEF TypeInv, TypeOK
    <2>3. plan'[d].look = Gone
      BY <2>2 DEF Deleted
    <2> DEFINE why == [t \in Tabs |-> {"early"}]
    <2>w. why \in [Tabs -> SUBSET Causes]
      BY DEF Causes
    <2>4. ASSUME NEW t \in Tabs, NEW p \in Plans, NEW f \in Fields, Sure(t, f)'
          PROVE  Settled(t, p, f)'
      <3>1. why[t] \cap Harms(f) # {} /\ Unheard(pl, why)
        BY <2>1, CutOffHarms
      <3> HIDE DEF pl, why
      <3>2. doubt[t] \subseteq doubt'[t] /\ Truth(t)' = Truth(t)
        BY <1>2, <2>1, <2>w, <2>4, <3>1, Undoubted
      <3>3. ~Sees(t, d)
        <4>1. SUFFICES ASSUME Sees(t, d) PROVE FALSE
          OBVIOUS
        <4>2. Truth(t)[d] = plan[d].look
          BY <1>1, <4>1, TruthAt DEF Truth, Sees
        <4>3. Truth(t)'[d] = Gone
          BY <1>1, <2>3, TruthAt DEF Truth
        <4> QED BY <1>5, <3>2, <4>2, <4>3 DEF Exists
      <3>4. \A j \in tasks : Tells(j, t, p, f) => Tells(j, t, p, f)'
        <4> SUFFICES ASSUME NEW j \in tasks, Tells(j, t, p, f) PROVE Tells(j, t, p, f)'
          OBVIOUS
        <4>1. j.plan \in Plans
          BY TaskSteps
        <4>2. CASE j.plan = d
          BY <2>3, <3>3, <4>2 DEF Tells, Reaches, Exists, shouldDeliver, visibleSet, EventOf
        <4>3. CASE j.plan # d
          BY <2>2, <4>1, <4>3 DEF Tells, Reaches, Exists, Sees, shouldDeliver, visibleSet, EventOf
        <4> QED BY <4>2, <4>3
      <3>5. \A j \in tasks : Tells(j, t, p, f) => \E h \in tasks' : Tells(h, t, p, f)'
        BY <1>2, <1>3, <3>4
      <3> QED BY <1>2, <2>4, <3>2, <3>5, ServerSettles
    <2>5. \A i \in tasks' : i.step = "read" => i.op = "poll"
      BY <1>2 DEF Fresh
    <2> QED BY <2>4, <2>5 DEF Fresh
  <1> QED BY <1>4, <1>5

LEMMA PublisherFresh == ASSUME TypeInv, Fresh, PublisherStep PROVE Fresh'
  <1>0. PICK k \in tasks : ReadBack(k) \/ LookUp(k) \/ Publish(k) \/ DeleteCommits(k)
    BY DEF PublisherStep
  <1>1. k \in Task /\ k.plan \in Plans
    BY TaskSteps
  <1>2. CASE ReadBack(k)
    <2>1. k.step = "read" /\ UNCHANGED <<plan, buffer, conn, client, doubt>>
      BY <1>2 DEF ReadBack
    <2>2. CASE ~Exists(k.plan)
      <3>1. \A t \in Tabs, p \in Plans, f \in Fields : ~Tells(k, t, p, f)
        BY <2>1, <2>2 DEF Tells, Reaches
      <3>2. tasks' = tasks \ {k}
        BY <1>2, <2>2 DEF ReadBack
      <3> QED BY <2>1, <3>1, <3>2, Ends
    <2>3. CASE Exists(k.plan)
      <3>1. PICK j : j = [k EXCEPT !.step = "lookUp", !.live = plan[k.plan].look.live]
        OBVIOUS
      <3>2. j.step = "lookUp" /\ j.plan = k.plan /\ j.op = k.op /\ j.other = k.other
        BY <1>1, <3>1 DEF Task
      <3>3. \A t \in Tabs, p \in Plans, f \in Fields : Tells(k, t, p, f) => Tells(j, t, p, f)
        BY <2>1, <3>2 DEF Tells, Reaches
      <3>4. tasks' = (tasks \ {k}) \cup {j}
        BY <1>2, <2>3, <3>1 DEF ReadBack
      <3> QED BY <2>1, <3>2, <3>3, <3>4, HandOver
    <2> QED BY <2>2, <2>3
  <1>3. CASE LookUp(k)
    <2>1. k.step = "lookUp" /\ UNCHANGED <<plan, buffer, conn, client, doubt>>
      BY <1>3 DEF LookUp
    <2>2. PICK j : j = [k EXCEPT !.step = "publish", !.to = plan[k.plan].audience]
      OBVIOUS
    <2>3. j.step = "publish" /\ j.plan = k.plan /\ j.op = k.op /\ j.other = k.other
          /\ j.to = plan[k.plan].audience
      BY <1>1, <2>2 DEF Task
    <2>4. \A t \in Tabs, p \in Plans, f \in Fields : Tells(k, t, p, f) => Tells(j, t, p, f)
      <3> SUFFICES ASSUME NEW t \in Tabs, NEW p \in Plans, NEW f \in Fields, Tells(k, t, p, f)
                   PROVE  Tells(j, t, p, f)
        OBVIOUS
      <3>1. EventOf(j).to = plan[k.plan].audience
        BY <2>3 DEF EventOf
      <3>2. ~Exists(k.plan) \/ Sees(t, k.plan)
        BY <2>1 DEF Tells, Reaches
      <3>3. ~Exists(k.plan) => plan[k.plan].audience = {}
        BY <1>1 DEF TypeInv, ServerInv
      <3>4. UserOf[t] \in Users
        BY EventsAssumption
      <3>5. shouldDeliver(EventOf(j), t)
        BY <3>1, <3>2, <3>3, <3>4 DEF shouldDeliver, visibleSet, Sees
      <3> QED BY <2>3, <3>5 DEF Tells, Reaches
    <2>5. tasks' = (tasks \ {k}) \cup {j}
      BY <1>3, <2>2 DEF LookUp
    <2> QED BY <2>1, <2>3, <2>4, <2>5, HandOver
  <1> QED BY <1>0, <1>2, <1>3, PublishFresh, DeleteFresh

\* What a fault keeps from the tabs they have to worry about.
LEMMA BusyFresh == ASSUME TypeInv, Fresh, Busy PROVE Fresh'
  <1>0. PICK k \in tasks : LookUpFails(k) \/ GivesUp(k) \/ ReadsNoPosition(k)
    BY DEF Busy
  <1>1. k \in Task /\ UNCHANGED <<plan, buffer, conn, client>>
    BY <1>0, TaskSteps DEF LookUpFails, GivesUp, ReadsNoPosition
  <1>2. \A i \in tasks : i.step = "read" => i.op = "poll"
    BY DEF Fresh
  <1>3. CASE LookUpFails(k) /\ k.op # "poll"
    <2>1. tasks' = (tasks \ {k}) \cup Then(k) /\ Unpublished /\ k.step = "lookUp"
      BY <1>3 DEF LookUpFails
    <2>2. \A j \in Then(k) : j.step # "read"
      BY <1>1, <2>1 DEF Then, Task
    <2>3. \A i \in tasks' : i.step = "read" => i.op = "poll"
      BY <1>2, <2>1, <2>2
    <2> QED BY <2>1, <2>3, Unsure
  <1>4. CASE LookUpFails(k) /\ k.op = "poll"
    <2>0. k.step = "lookUp" /\ k.to = {}
      BY <1>4 DEF LookUpFails, TypeInv, ServerInv
    <2>1. PICK j : j = [k EXCEPT !.step = "publish"]
      OBVIOUS
    <2>2. j.step = "publish" /\ j.plan = k.plan /\ j.op = k.op /\ j.other = k.other /\ j.to = {}
      BY <1>1, <2>0, <2>1 DEF Task
    <2>3. tasks' = (tasks \ {k}) \cup {j} /\ doubt' = doubt
      BY <1>4, <2>1 DEF LookUpFails
    <2>4. \A t \in Tabs, p \in Plans, f \in Fields : Tells(k, t, p, f) => Tells(j, t, p, f)
      <3> TAKE t \in Tabs, p \in Plans, f \in Fields
      <3>1. UserOf[t] \in Users
        BY EventsAssumption
      <3> QED BY <2>2, <3>1 DEF Tells, Reaches, shouldDeliver, visibleSet, EventOf
    <2> QED BY <1>1, <2>2, <2>3, <2>4, HandOver
  <1>5. CASE GivesUp(k)
    <2>1. tasks' = tasks \ {k}
      BY <1>5 DEF GivesUp
    <2>2. CASE k.op = "delete"
      <3>1. doubt' = doubt
        BY <1>5, <2>2 DEF GivesUp
      <3>2. \A t \in Tabs, p \in Plans, f \in Fields : ~Tells(k, t, p, f)
        BY <2>2 DEF Tells
      <3> QED BY <1>1, <2>1, <3>1, <3>2, Ends
    <2>3. CASE k.op # "delete"
      <3>1. Unpublished
        BY <1>5, <2>3 DEF GivesUp
      <3>2. \A i \in tasks' : i.step = "read" => i.op = "poll"
        BY <1>2, <2>1
      <3> QED BY <3>1, <3>2, Unsure
    <2> QED BY <2>2, <2>3
  <1>6. CASE ReadsNoPosition(k)
    <2>1. PICK j : j = [k EXCEPT !.step = "lookUp"]
      OBVIOUS
    <2>2. j.step = "lookUp"
      BY <1>1, <2>1 DEF Task
    <2>3. tasks' = (tasks \ {k}) \cup {j} /\ Unpublished
      BY <1>6, <2>1 DEF ReadsNoPosition
    <2>4. \A i \in tasks' : i.step = "read" => i.op = "poll"
      BY <1>2, <2>2, <2>3
    <2> QED BY <2>3, <2>4, Unsure
  <1> QED BY <1>0, <1>3, <1>4, <1>5, <1>6

\* Merging a payload leaves the details, and every other plan, alone.
LEMMA FoldKeeps ==
  ASSUME NEW view \in View, NEW e \in Event, NEW p \in Plans, NEW f \in Fields,
         f = "detail" \/ p # e.plan
  PROVE  foldUpdate(view, e) \in View /\ foldUpdate(view, e)[p][f] = view[p][f]
  <1>1. e.plan \in Plans /\ e.live \in Marks
    BY DEF Event
  <1>2. DEFINE w == [view EXCEPT ![e.plan].live = e.live]
  <1>3. w \in View
    BY <1>1 DEF View, Look
  <1>4. w[p][f] = view[p][f]
    <2>1. CASE p # e.plan
      BY <1>1, <2>1 DEF View
    <2>2. CASE p = e.plan /\ f = "detail"
      BY <1>1, <2>2 DEF View, Look
    <2> QED BY <2>1, <2>2
  <1>5. foldUpdate(view, e) = view \/ foldUpdate(view, e) = w
    BY DEF foldUpdate
  <1> HIDE DEF w
  <1> QED BY <1>3, <1>4, <1>5

\* What a tab folds into its screen without worry is what is stored.
LEMMA FoldSettles ==
  ASSUME TypeInv, Fresh, NEW t \in Tabs, Fold(t), NEW p \in Plans, NEW f \in Fields, Sure(t, f)'
  PROVE  Settled(t, p, f)'
  <1> DEFINE e == Head(buffer[t])
  <1>1. /\ buffer[t] # << >> /\ e.fold /\ buffer' = [buffer EXCEPT ![t] = Tail(@)]
        /\ shown' = [shown EXCEPT ![t] = foldUpdate(@, e)]
        /\ UNCHANGED <<plan, tasks, conn, loading>>
    BY DEF Fold, server
  <1>2. buffer \in [Tabs -> Seq(Event)] /\ buffer[t] \in Seq(Event)
        /\ shown \in [Tabs -> View \cup {None}] /\ doubt \in [Tabs -> SUBSET Causes] /\ t \in conn
        /\ loading[t] \in View \cup {None, Asked}
    BY <1>1 DEF TypeInv, TypeOK
  <1>3. e \in Event /\ e.plan \in Plans
    <2>1. e \in Event
      BY <1>1, <1>2
    <2> QED BY <2>1 DEF Event
  <1>4. shown'[t] = foldUpdate(shown[t], e)
    BY <1>1, <1>2
  <1>5. /\ buffer'[t] = Tail(buffer[t])
        /\ \A i \in DOMAIN buffer[t] : i = 1 \/ (i - 1 \in DOMAIN buffer'[t] /\ buffer'[t][i - 1] = buffer[t][i])
        /\ buffer[t][1] = e
    <2>1. buffer'[t] = Tail(buffer[t])
      BY <1>1, <1>2
    <2> QED BY <1>1, <1>2, <2>1
  <1>6. Deaf(t)
    BY <1>1, <1>5 DEF Sure, Deaf
  <1>7. Truth(t)' = Truth(t) /\ \A k : Tells(k, t, p, f)' = Tells(k, t, p, f)
    BY <1>1, TellsSame
  <1> DEFINE late == \/ loading[t] \in View
                     \/ shown[t] # None /\ shown'[t][e.plan].live # Truth(t)[e.plan].live
             right == IsTrue(shown'[t], t, "live")
  <1>8. /\ late => doubt'[t] = doubt[t] \cup {"folded"}
        /\ ~late /\ right => doubt'[t] = doubt[t] \ {"folded"}
        /\ ~late /\ ~right => doubt'[t] = doubt[t]
    BY <1>2 DEF Fold
  <1>9. doubt'[t] \cap Harms(f) = {} /\ Screen(t)' # None
    BY DEF Sure, Harms
  <1> HIDE DEF e
  <1>10. InBuffer(t, p) /\ p # e.plan => InBuffer(t, p)'
    BY <1>5 DEF InBuffer
  <1>11. shown[t] = None => shown'[t] = None
    BY <1>4 DEF foldUpdate
  <1>12. CASE f = "detail"
    <2>1. doubt[t] \cap Harms(f) = {}
      BY <1>8, <1>9, <1>12 DEF Harms
    <2>2. Screen(t)' = Screen(t) \/ (Screen(t) = shown[t] /\ Screen(t)' = shown'[t])
      BY <1>1 DEF Screen
    <2>3. Screen(t) # None
      BY <1>9, <1>11, <2>2
    <2>4. Screen(t)'[p][f] = Screen(t)[p][f]
      <3>1. CASE Screen(t)' = Screen(t)
        BY <3>1
      <3>2. CASE Screen(t) = shown[t] /\ Screen(t)' = shown'[t]
        <4>1. shown[t] \in View
          BY <1>2, <2>3, <3>2
        <4> QED BY <1>3, <1>4, <1>12, <3>2, <4>1, FoldKeeps
      <3> QED BY <2>2, <3>1, <3>2
    <2>5. Settled(t, p, f)
      BY <1>6, <2>1, <2>3 DEF Sure, Fresh
    <2> QED BY <1>1, <1>7, <1>12, <2>4, <2>5 DEF Settled
  <1>13. CASE f = "live"
    <2>1. ~late /\ loading[t] \notin View
      <3>1. "folded" \in Harms(f)
        BY <1>13 DEF Harms, Causes
      <3> QED BY <1>8, <1>9, <3>1
    <2>2. Screen(t)' = shown'[t] /\ Screen(t) = shown[t] /\ shown[t] # None /\ shown[t] \in View
      BY <1>1, <1>2, <1>9, <1>11, <2>1 DEF Screen
    <2>3. CASE right
      <3>1. shown'[t][p][f] = Truth(t)[p][f]
        BY <1>13, <2>3 DEF IsTrue
      <3> QED BY <1>7, <2>2, <3>1 DEF Settled
    <2>4. CASE p = e.plan
      <3>1. shown'[t][p]["live"] = Truth(t)[p]["live"]
        BY <2>1, <2>2, <2>4
      <3> QED BY <1>7, <1>13, <2>2, <3>1 DEF Settled
    <2>5. CASE p # e.plan /\ ~right
      <3>1. Sure(t, f)
        BY <1>6, <1>8, <1>9, <2>1, <2>2, <2>5 DEF Sure
      <3>2. Settled(t, p, f)
        BY <3>1 DEF Fresh
      <3>3. shown'[t][p][f] = shown[t][p][f]
        BY <1>3, <1>4, <2>2, <2>5, FoldKeeps
      <3> QED BY <1>1, <1>7, <1>10, <2>2, <2>5, <3>2, <3>3 DEF Settled
    <2> QED BY <2>3, <2>4, <2>5
  <1> QED BY <1>12, <1>13 DEF Fields

LEMMA TabFresh ==
  ASSUME TypeInv, Fresh, NEW t \in Tabs, TabStep(t) \/ Open(t) \/ Disturbed(t)
  PROVE  Fresh'
  <1> USE DEF Disturbed
  <1>1. UNCHANGED server
    BY DEF TabStep, Cut, Reload, Fold, Serve, Show, Reconnect, Open, Leave, LoadFails
  <1>2. \A k \in tasks' : k.step = "read" => k.op = "poll"
    BY <1>1 DEF Fresh, server
  <1>3. /\ buffer \in [Tabs -> Seq(Event)] /\ loading \in [Tabs -> View \cup {None, Asked}]
        /\ shown \in [Tabs -> View \cup {None}] /\ doubt \in [Tabs -> SUBSET Causes]
    BY DEF TypeInv, TypeOK
  <1>4. ASSUME NEW u \in Tabs, u # t, NEW p \in Plans, NEW f \in Fields, Sure(u, f)'
        PROVE  Settled(u, p, f)'
    <2>1. /\ buffer'[u] = buffer[u] /\ loading'[u] = loading[u] /\ shown'[u] = shown[u]
          /\ doubt'[u] = doubt[u] /\ (u \notin conn' => u \notin conn)
      <3>1. CASE Reload(t)
        BY <1>3, <1>4, <3>1 DEF Reload, Ignores
      <3>2. CASE Fold(t)
        <4>1. /\ buffer' = [buffer EXCEPT ![t] = Tail(@)]
              /\ shown' = [shown EXCEPT ![t] = foldUpdate(@, Head(buffer[t]))]
              /\ UNCHANGED <<conn, loading>>
          BY <3>2 DEF Fold
        <4>2. doubt'[u] = doubt[u]
          BY <1>3, <1>4, <3>2 DEF Fold
        <4> QED BY <1>3, <1>4, <4>1, <4>2
      <3>3. CASE Serve(t)
        BY <1>3, <1>4, <3>3 DEF Serve
      <3>4. CASE Show(t)
        BY <1>3, <1>4, <3>4 DEF Show
      <3>5. CASE Reconnect(t)
        BY <1>3, <1>4, <3>5 DEF Reconnect, client
      <3>6. CASE Cut(t)
        BY <1>3, <1>4, <3>6 DEF Cut, client
      <3>7. CASE Open(t)
        BY <1>3, <1>4, <3>7 DEF Open
      <3>8. CASE Leave(t)
        BY <1>3, <1>4, <3>8 DEF Leave
      <3>9. CASE LoadFails(t)
        BY <1>3, <1>4, <3>9 DEF LoadFails
      <3> QED BY <3>1, <3>2, <3>3, <3>4, <3>5, <3>6, <3>7, <3>8, <3>9 DEF TabStep
    <2> QED BY <1>1, <1>4, <2>1, SameSettles
  <1>5. ASSUME NEW p \in Plans, NEW f \in Fields, Sure(t, f)' PROVE Settled(t, p, f)'
    <2>0. plan' = plan /\ tasks' = tasks
      BY <1>1 DEF server
    <2>k. Truth(t)' = Truth(t) /\ \A k : Tells(k, t, p, f)' = Tells(k, t, p, f)
      BY <2>0, TellsSame
    <2>s. /\ doubt'[t] \cap Harms(f) = {} /\ loading'[t] # Asked
          /\ Screen(t)' # None /\ \A i \in DOMAIN buffer'[t] : buffer'[t][i].fold
      BY <1>5 DEF Sure, Deaf, Harms
    <2>1. CASE Reload(t)
      <3>1. shown[t] = None /\ loading' = loading /\ shown' = shown
        BY <1>3, <2>1, <2>s DEF Reload, Ignores
      <3>2. loading[t] \notin View
        <4>1. loading[t] \in View => "ignored" \in doubt'[t]
          BY <1>3, <2>1, <3>1 DEF Reload, Ignores
        <4> QED BY <2>s, <4>1, CutOffHarms
      <3> QED BY <2>s, <3>1, <3>2 DEF Screen
    <2>2. CASE Fold(t)
      BY <1>5, <2>2, FoldSettles
    <2>3. CASE Serve(t)
      <3>1. loading'[t] = Truth(t) /\ Truth(t) \in View
        BY <1>3, <2>3, ViewType DEF Serve, Truth, TypeInv, TypeOK, Row
      <3>2. Screen(t)' = Truth(t)
        BY <3>1 DEF Screen
      <3> QED BY <2>k, <3>2 DEF Settled
    <2>4. CASE Show(t)
      <3>1. loading[t] \in View /\ loading'[t] = None /\ shown'[t] = loading[t]
            /\ UNCHANGED <<buffer, conn, doubt>>
        BY <1>3, <2>4 DEF Show
      <3>2. Screen(t)' = loading[t] /\ Screen(t) = loading[t]
        BY <3>1, EventsAssumption DEF Screen
      <3>3. Sure(t, f)
        BY <1>5, <3>1, <3>2, EventsAssumption DEF Sure, Deaf
      <3>4. Settled(t, p, f)
        BY <3>3 DEF Fresh
      <3>5. InBuffer(t, p)' = InBuffer(t, p)
        BY <3>1 DEF InBuffer
      <3> QED BY <2>0, <2>k, <3>1, <3>2, <3>4, <3>5 DEF Settled
    <2>5. CASE Reconnect(t)
      <3>1. UNCHANGED <<buffer, loading, shown, doubt>> /\ conn \subseteq conn'
        BY <2>5 DEF Reconnect, client
      <3> QED BY <1>1, <1>5, <3>1, SameSettles
    <2>6. CASE Cut(t)
      <3>1. "cut" \in doubt'[t]
        BY <1>3, <2>6 DEF Cut
      <3> QED BY <2>s, <3>1, CutOffHarms
    <2>7. CASE Open(t)
      BY <1>3, <2>7, <2>s DEF Open
    <2>8. CASE Leave(t)
      <3>1. loading'[t] = None /\ shown'[t] = None
        BY <1>3, <2>8 DEF Leave
      <3> QED BY <2>s, <3>1, EventsAssumption DEF Screen
    <2>9. CASE LoadFails(t)
      <3>1. "failed" \in doubt'[t]
        BY <1>3, <2>9 DEF LoadFails
      <3> QED BY <2>s, <3>1, CutOffHarms
    <2> QED BY <2>1, <2>2, <2>3, <2>4, <2>5, <2>6, <2>7, <2>8, <2>9 DEF TabStep
  <1> QED BY <1>2, <1>4, <1>5 DEF Fresh

LEMMA InitFresh == Init => Fresh
  <1> SUFFICES ASSUME Init PROVE Fresh
    OBVIOUS
  <1>1. tasks = {} /\ conn = Tabs
    BY DEF Init
  <1>2. ASSUME NEW t \in Tabs, NEW p \in Plans, NEW f \in Fields, Sure(t, f) PROVE Settled(t, p, f)
    <2>1. Screen(t) = Truth(t)
      BY <1>2, EventsAssumption DEF Init, Screen, Sure
    <2> QED BY <1>1, <2>1 DEF Settled
  <1> QED BY <1>1, <1>2 DEF Fresh

\* A tab that has answered everything and missed nothing shows what its user
\* may see, its details even if payloads came out of order, its live fields
\* even if a payload left details out (notify.go:41, trackerSlice.ts:188).
THEOREM StaleOnlyWhenKnown == Spec => []StaleOnlyByKnownLoss
  <1>1. Init => Fresh
    BY InitFresh
  <1>2. TypeInv /\ Fresh /\ [Next]_vars => Fresh'
    <2> SUFFICES ASSUME TypeInv, Fresh, [Next]_vars PROVE Fresh'
      OBVIOUS
    <2>1. CASE Next
      BY <2>1, BeginFresh, PublisherFresh, BusyFresh, TabFresh DEF Next
    <2>2. CASE UNCHANGED vars
      <3>1. UNCHANGED <<server, buffer, conn, client, doubt, plan, tasks, loading, shown>>
        BY <2>2 DEF vars, server, client
      <3>2. ASSUME NEW t \in Tabs, NEW p \in Plans, NEW f \in Fields, Sure(t, f)'
            PROVE  Settled(t, p, f)'
        BY <3>1, <3>2, SameSettles
      <3> QED BY <3>1, <3>2 DEF Fresh
    <2> QED BY <2>1, <2>2
  <1>3. TypeInv /\ Fresh => StaleOnlyByKnownLoss
    <2> SUFFICES ASSUME TypeInv, Fresh, NEW t \in Tabs, NEW f \in Fields, Quiet(t),
                        doubt[t] \cap Harms(f) = {}, ~Closed(t)
                 PROVE  Shows(t, f)
      BY DEF StaleOnlyByKnownLoss, Fields
    <2>1. tasks = {} /\ loading[t] = None /\ DOMAIN buffer[t] = {}
      BY DEF Quiet
    <2>2. Sure(t, f) /\ Screen(t) = shown[t] /\ shown[t] # None
      BY <2>1, EventsAssumption DEF Sure, Deaf, Screen, Closed
    <2>3. \A p \in Plans : shown[t][p][f] = Truth(t)[p][f]
      BY <2>1, <2>2 DEF Fresh, Settled, InBuffer
    <2> QED BY <2>2, <2>3 DEF Shows, IsTrue
  <1> QED BY <1>1, <1>2, <1>3, TypeCorrect, PTL DEF Spec, TypeInv
=============================================================================
