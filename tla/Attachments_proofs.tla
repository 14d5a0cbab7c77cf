------------------------- MODULE Attachments_proofs -------------------------
(***************************************************************************)
(* Proofs about Attachments, for every set of plans, keys and requests and *)
(* any number of failures.                                                 *)
(***************************************************************************)
EXTENDS Attachments, FiniteSetTheorems, TLAPS

Steps == {"idle", "put", "insert", "cleanup", "unhang", "list", "drop"}
Job == [step : Steps, plan : Plans \cup {None}, keys : SUBSET Keys]

LEMMA JobFields ==
  ASSUME NEW x \in Job
  PROVE  /\ x.step \in Steps /\ x.plan \in Plans \cup {None} /\ x.keys \in SUBSET Keys
         /\ \A s \in Steps : [x EXCEPT !.step = s] \in Job
         /\ \A s \in Steps, ks \in SUBSET Keys : [x EXCEPT !.step = s, !.keys = ks] \in Job
         /\ \A ks \in SUBSET Keys : [x EXCEPT !.keys = ks] \in Job
  BY DEF Job

JobOK == job \in [Requests -> Job]

\* The other variables.
RestOK ==
  /\ plans \subseteq Plans
  /\ row \in [Keys -> plans \cup {None}]
  /\ blobs \subseteq issued /\ issued \subseteq Keys
  /\ live \in [Requests -> BOOLEAN] /\ served \subseteq Requests
  /\ strays \subseteq Keys
  /\ failures \in 0 .. MaxFailures /\ lost \in 0 .. failures

LEMMA TypeSplits == TypeOK <=> JobOK /\ RestOK
  BY DEF TypeOK, JobOK, RestOK, Job, Steps

\* What happens to a job in each kind of step.
LEMMA JobSteps ==
  ASSUME JobOK, NEW r \in Requests
  PROVE  /\ Answer(r) => JobOK' /\ \A q \in Requests : job'[q] = IF q = r THEN IdleJob ELSE job[q]
         /\ \A s \in Steps : GoTo(r, s) =>
              /\ JobOK' /\ job'[r].step = s /\ job'[r].plan = job[r].plan /\ job'[r].keys = job[r].keys
              /\ \A q \in Requests : q # r => job'[q] = job[q]
         /\ \A s \in Steps, p \in Plans, ks \in SUBSET Keys : Start(r, s, p, ks) =>
              /\ JobOK' /\ job'[r].step = s /\ job'[r].plan = p /\ job'[r].keys = ks
              /\ \A q \in Requests : q # r => job'[q] = job[q]
<1>1. IdleJob \in Job
  BY DEF IdleJob, Job, Steps
<1>2. ASSUME NEW x \in Job, job' = [job EXCEPT ![r] = x]
      PROVE  JobOK' /\ job'[r] = x /\ \A q \in Requests : q # r => job'[q] = job[q]
  BY <1>2 DEF JobOK
<1>3. ASSUME Answer(r) PROVE JobOK' /\ \A q \in Requests : job'[q] = IF q = r THEN IdleJob ELSE job[q]
  BY <1>1, <1>2, <1>3 DEF Answer
<1>4. ASSUME NEW s \in Steps, GoTo(r, s)
      PROVE  /\ JobOK' /\ job'[r].step = s /\ job'[r].plan = job[r].plan /\ job'[r].keys = job[r].keys
             /\ \A q \in Requests : q # r => job'[q] = job[q]
  <2>1. job[r] \in Job
    BY DEF JobOK
  <2>2. [job[r] EXCEPT !.step = s] \in Job /\ job' = [job EXCEPT ![r] = [job[r] EXCEPT !.step = s]]
    BY <2>1, <1>4, JobFields DEF GoTo
  <2>3. LET x == [job[r] EXCEPT !.step = s] IN x.step = s /\ x.plan = job[r].plan /\ x.keys = job[r].keys
    BY <2>1 DEF Job
  <2> QED
    BY <2>2, <2>3, <1>2
<1>5. ASSUME NEW s \in Steps, NEW p \in Plans, NEW ks \in SUBSET Keys, Start(r, s, p, ks)
      PROVE  /\ JobOK' /\ job'[r].step = s /\ job'[r].plan = p /\ job'[r].keys = ks
             /\ \A q \in Requests : q # r => job'[q] = job[q]
  <2>1. [step |-> s, plan |-> p, keys |-> ks] \in Job
    BY DEF Job
  <2>2. job' = [job EXCEPT ![r] = [step |-> s, plan |-> p, keys |-> ks]]
    BY <1>5 DEF Start
  <2> QED
    BY <2>1, <2>2 DEF JobOK
<1> QED
  BY <1>3, <1>4, <1>5

LEMMA Kept == ASSUME JobOK, UNCHANGED job PROVE JobOK'
  BY DEF JobOK

LEMMA JobStays == TypeOK /\ [Next]_vars => JobOK'
<1> SUFFICES ASSUME TypeOK, [Next]_vars PROVE JobOK'
  OBVIOUS
<1>t. JobOK /\ RestOK
  BY TypeSplits
<1>j. ASSUME NEW r \in Requests
      PROVE  /\ job[r] \in Job /\ job[r].step \in Steps /\ job[r].plan \in Plans \cup {None}
             /\ job[r].keys \in SUBSET Keys
  BY <1>t, JobFields DEF JobOK
<1>1. CASE UNCHANGED vars
  BY <1>1, <1>t, Kept DEF vars
<1>2. ASSUME NEW r \in Requests, NEW p \in Plans, Upload(r, p) \/ DeletePlan(r, p) PROVE JobOK'
  <2>1. "put" \in Steps /\ "list" \in Steps /\ {} \in SUBSET Keys
    BY DEF Steps
  <2> QED
    BY <2>1, <1>2, <1>t, JobSteps DEF Upload, DeletePlan
<1>3. ASSUME NEW r \in Requests, NEW k \in Keys, DeleteAttachment(r, k) PROVE JobOK'
  <2>1. "unhang" \in Steps /\ {k} \in SUBSET Keys /\ row[k] \in Plans
    BY <1>3, <1>t DEF Steps, DeleteAttachment, RestOK
  <2> QED
    BY <2>1, <1>3, <1>t, JobSteps DEF DeleteAttachment
<1>4. ASSUME NEW r \in Requests, NEW k \in Keys, Put(r, k) PROVE JobOK'
  <2>1. [job[r] EXCEPT !.step = "insert", !.keys = {k}] \in Job
    BY <1>j, JobFields DEF Steps
  <2>2. job' = [job EXCEPT ![r] = [job[r] EXCEPT !.step = "insert", !.keys = {k}]]
    BY <1>4, <1>t DEF Put, JobOK
  <2> QED
    BY <2>1, <2>2, <1>t DEF JobOK
<1>5. ASSUME NEW r \in Requests, Answer(r) PROVE JobOK'
  BY <1>5, <1>t, JobSteps
<1>6. ASSUME NEW r \in Requests, NEW s \in Steps, GoTo(r, s) PROVE JobOK'
  BY <1>6, <1>t, JobSteps
<1>7. ASSUME NEW r \in Requests, NEW k \in Keys, RemoveBlob(r, k) PROVE JobOK'
  <2>1. [job[r] EXCEPT !.keys = job[r].keys \ {k}] \in Job
    BY <1>j DEF Job
  <2>2. job' = [job EXCEPT ![r] = [job[r] EXCEPT !.keys = job[r].keys \ {k}]]
    BY <1>7, <1>t DEF RemoveBlob, JobOK
  <2> QED
    BY <2>1, <2>2, <1>t DEF JobOK
<1>8. ASSUME NEW r \in Requests, ListKeys(r) PROVE JobOK'
  <2>1. [job[r] EXCEPT !.step = "drop", !.keys = RowsOf(job[r].plan)] \in Job
        /\ [job[r] EXCEPT !.step = "drop"] \in Job
    BY <1>j DEF RowsOf, Job, Steps
  <2>2. \/ job' = [job EXCEPT ![r] = [job[r] EXCEPT !.step = "drop", !.keys = RowsOf(job[r].plan)]]
        \/ job' = [job EXCEPT ![r] = [job[r] EXCEPT !.step = "drop"]]
    BY <1>8, <1>t DEF ListKeys, JobOK
  <2> QED
    BY <2>1, <2>2, <1>t DEF JobOK
<1>9. ASSUME NEW r \in Requests, NEW k \in Keys,
             Insert(r, k) \/ InsertFails(r, k) \/ Unhang(r, k) \/ UnhangFails(r, k)
      PROVE  JobOK'
  BY <1>9, <1>5, <1>6 DEF Insert, InsertFails, Unhang, UnhangFails, Steps
<1>10. ASSUME NEW r \in Requests,
              \/ PutFails(r) \/ Cleaned(r) \/ Drop(r) \/ DropFails(r) \/ DeleteTrip(r)
              \/ \E p, q \in Plans : LinkPlans(r, p, q)
       PROVE  JobOK'
  BY <1>10, <1>5, <1>6 DEF PutFails, Cleaned, Drop, DropFails, DeleteTrip, LinkPlans, Steps
<1>11. CASE Crash \/ \E r \in Requests : Disconnect(r)
  <2>1. IdleJob \in Job
    BY DEF IdleJob, Job, Steps
  <2> QED
    BY <2>1, <1>11, <1>t DEF Crash, Disconnect, JobOK
<1> QED
  BY <1>1, <1>2, <1>3, <1>4, <1>7, <1>8, <1>9, <1>10, <1>11 DEF Next

\* No failure counter goes back, and the two move together.
LEMMA WorldStays ==
  ASSUME RestOK, NEW r \in Requests
  PROVE  /\ UNCHANGED world \/ Fails(r) \/ AnswerLost(r) \/ RowUnseen(r) =>
              /\ failures' \in 0 .. MaxFailures /\ lost' \in 0 .. failures'
              /\ failures' >= failures /\ (failures' = 0 => failures = 0 /\ lost' = lost)
         /\ Works(r) \/ Stores => UNCHANGED world
         /\ RowUnseen(r) => lost' = lost + 1
         /\ AnswerLost(r) \/ RowUnseen(r) => failures' > 0
         /\ UNCHANGED world \/ Fails(r) \/ AnswerLost(r) => lost' = lost
  BY AttachmentsAssumption DEF RestOK, Fails, AnswerLost, RowUnseen, Fault, Works, Stores, world

LEMMA CascadeKeeps ==
  ASSUME RestOK, NEW ps, ps \subseteq Plans, NEW ks, Cascade(ps, ks)
  PROVE  /\ plans' \subseteq Plans /\ row' \in [Keys -> plans' \cup {None}] /\ strays' \subseteq Keys
         /\ \A k \in Keys : row'[k] = IF row[k] \in ps THEN None ELSE row[k]
  BY DEF RestOK, Cascade

LEMMA HangKeeps ==
  ASSUME RestOK, NEW k \in Keys, NEW p \in plans \cup {None}, Hang(k, p)
  PROVE  /\ row' \in [Keys -> plans \cup {None}]
         /\ row'[k] = p /\ \A q \in Keys : q # k => row'[q] = row[q]
  BY DEF RestOK, Hang

LEMMA RestStays == TypeOK /\ [Next]_vars => RestOK'
<1> SUFFICES ASSUME TypeOK, [Next]_vars PROVE RestOK'
  OBVIOUS
<1>t. JobOK /\ RestOK
  BY TypeSplits
<1>p. \A r \in Requests : job[r].plan \in Plans \cup {None} /\ job[r].keys \in SUBSET Keys
  BY <1>t, JobFields DEF JobOK
<1>0. ASSUME UNCHANGED <<db, blobs, issued, live, strays>>, served' \subseteq Requests,
             failures' \in 0 .. MaxFailures /\ lost' \in 0 .. failures'
      PROVE  RestOK'
  BY <1>0, <1>t DEF RestOK, db
<1>a. ASSUME NEW r \in Requests, Answer(r) \/ \E s : GoTo(r, s) \/ UNCHANGED served PROVE served' \subseteq Requests
  BY <1>a, <1>t DEF Answer, GoTo, RestOK
<1>w. ASSUME NEW r \in Requests, UNCHANGED world \/ Works(r) \/ Stores \/ Fails(r) \/ AnswerLost(r) \/ RowUnseen(r)
      PROVE  failures' \in 0 .. MaxFailures /\ lost' \in 0 .. failures'
  BY <1>w, <1>t, WorldStays
<1>1. CASE UNCHANGED vars
  BY <1>1, <1>t DEF vars, RestOK, db, world
<1>2. ASSUME NEW r \in Requests, NEW p \in Plans, Upload(r, p) \/ DeletePlan(r, p) PROVE RestOK'
  BY <1>2, <1>0, <1>t, <1>w DEF Upload, DeletePlan, RestOK
<1>3. ASSUME NEW r \in Requests, NEW k \in Keys, DeleteAttachment(r, k) PROVE RestOK'
  BY <1>3, <1>0, <1>t, <1>w DEF DeleteAttachment, RestOK
<1>4. ASSUME NEW r \in Requests, NEW k \in Keys, Put(r, k) PROVE RestOK'
  BY <1>4, <1>t, <1>w DEF Put, RestOK, db
<1>5. ASSUME NEW r \in Requests, PutFails(r) PROVE RestOK'
  <2>1. failures' \in 0 .. MaxFailures /\ lost' \in 0 .. failures' /\ served' \subseteq Requests
    BY <1>5, <1>a, <1>w DEF PutFails
  <2> QED
    BY <2>1, <1>5, <1>t DEF PutFails, RestOK, db
<1>6. ASSUME NEW r \in Requests, NEW k \in Keys, Insert(r, k) \/ InsertFails(r, k) PROVE RestOK'
  <2>1. failures' \in 0 .. MaxFailures /\ lost' \in 0 .. failures' /\ served' \subseteq Requests
    BY <1>6, <1>a, <1>w DEF Insert, InsertFails
  <2>2. row' \in [Keys -> plans \cup {None}]
    BY <1>6, <1>t, HangKeeps DEF Insert, InsertFails, RestOK
  <2> QED
    BY <2>1, <2>2, <1>6, <1>t DEF Insert, InsertFails, RestOK
<1>7. ASSUME NEW r \in Requests, NEW k \in Keys, RemoveBlob(r, k) PROVE RestOK'
  <2>1. failures' \in 0 .. MaxFailures /\ lost' \in 0 .. failures'
    BY <1>7, <1>w DEF RemoveBlob
  <2> QED
    BY <2>1, <1>7, <1>t DEF RemoveBlob, RestOK, db
<1>8. ASSUME NEW r \in Requests, Cleaned(r) PROVE RestOK'
  BY <1>8, <1>0, <1>a, <1>w DEF Cleaned
<1>9. ASSUME NEW r \in Requests, NEW k \in Keys, Unhang(r, k) \/ UnhangFails(r, k) PROVE RestOK'
  <2>1. failures' \in 0 .. MaxFailures /\ lost' \in 0 .. failures' /\ served' \subseteq Requests
    BY <1>9, <1>a, <1>w DEF Unhang, UnhangFails
  <2>2. row' \in [Keys -> plans \cup {None}]
    BY <1>9, <1>t, HangKeeps DEF Unhang, UnhangFails, RestOK
  <2> QED
    BY <2>1, <2>2, <1>9, <1>t DEF Unhang, UnhangFails, RestOK
<1>10. ASSUME NEW r \in Requests, ListKeys(r) PROVE RestOK'
  <2>1. failures' \in 0 .. MaxFailures /\ lost' \in 0 .. failures'
    BY <1>10, <1>w DEF ListKeys
  <2> QED
    BY <2>1, <1>10, <1>0, <1>t DEF ListKeys, RestOK
<1>11. ASSUME NEW r \in Requests, Drop(r) \/ DropFails(r) PROVE RestOK'
  <2>1. failures' \in 0 .. MaxFailures /\ lost' \in 0 .. failures' /\ served' \subseteq Requests
    BY <1>11, <1>a, <1>w DEF Drop, DropFails
  <2>2. \/ UNCHANGED <<db, strays>>
        \/ job[r].plan \in plans /\ Cascade({job[r].plan}, job[r].keys)
    BY <1>11 DEF Drop, DropFails
  <2>3. plans' \subseteq Plans /\ row' \in [Keys -> plans' \cup {None}] /\ strays' \subseteq Keys
    <3>1. CASE UNCHANGED <<db, strays>>
      BY <3>1, <1>t DEF RestOK, db
    <3>2. CASE job[r].plan \in plans /\ Cascade({job[r].plan}, job[r].keys)
      <4>1. {job[r].plan} \subseteq Plans
        BY <3>2, <1>t DEF RestOK
      <4> QED
        BY <4>1, <3>2, <1>t, CascadeKeeps
    <3> QED
      BY <2>2, <3>1, <3>2
  <2> QED
    BY <2>1, <2>3, <1>11, <1>t DEF Drop, DropFails, RestOK
<1>12. ASSUME NEW r \in Requests, NEW ps, ps \subseteq Plans, Cascade(ps, {}), Answer(r), Works(r),
              UNCHANGED <<blobs, issued, live>>
       PROVE  RestOK'
  BY <1>12, <1>a, <1>w, <1>t, CascadeKeeps DEF RestOK
<1>13. ASSUME NEW r \in Requests, DeleteTrip(r) \/ \E p, q \in Plans : LinkPlans(r, p, q) PROVE RestOK'
  <2>1. plans \subseteq Plans /\ \A q \in Plans : {q} \subseteq Plans
    BY <1>t DEF RestOK
  <2> QED
    BY <2>1, <1>13, <1>12 DEF DeleteTrip, LinkPlans
<1>14. CASE Crash \/ \E r \in Requests : Disconnect(r)
  <2>1. failures' \in 0 .. MaxFailures /\ lost' \in 0 .. failures'
    BY <1>14, <1>t, AttachmentsAssumption DEF Crash, Disconnect, Fault, RestOK
  <2>2. live' \in [Requests -> BOOLEAN] /\ served' \subseteq Requests
    BY <1>14, <1>t DEF Crash, Disconnect, RestOK
  <2> QED
    BY <2>1, <2>2, <1>14, <1>t DEF Crash, Disconnect, RestOK, db
<1> QED
  BY <1>1, <1>2, <1>3, <1>4, <1>5, <1>6, <1>7, <1>8, <1>9, <1>10, <1>11, <1>13, <1>14 DEF Next

LEMMA TypeInit == Init => TypeOK
<1> SUFFICES ASSUME Init PROVE TypeOK
  OBVIOUS
<1>1. IdleJob \in Job
  BY DEF IdleJob, Job, Steps
<1>2. JobOK
  BY <1>1 DEF Init, JobOK
<1>3. RestOK
  BY AttachmentsAssumption DEF Init, RestOK
<1> QED
  BY <1>2, <1>3, TypeSplits

\* Whatever fails or is cut off, every value keeps its type, and every row is of
\* a plan there is.
THEOREM TypeCorrect == Spec => []TypeOK
<1>1. JobOK' /\ RestOK' => TypeOK'
  BY DEF TypeOK, JobOK, RestOK, Job, Steps
<1>2. TypeOK /\ [Next]_vars => TypeOK'
  BY <1>1, JobStays, RestStays
<1> QED
  BY TypeInit, <1>2, PTL DEF Spec

----------------------------------------------------------------------------
\* Who holds which keys.  A key just stored is in one hand only, and not hung
\* up yet; a key somebody listed is a row of that plan until it is no row.
Handling(r) ==
  /\ job[r].step \in {"idle", "put", "list"} => job[r].keys = {}
  /\ job[r].step = "list" => job[r].plan # None
  /\ job[r].step \in {"insert", "unhang"} => \A k, x \in job[r].keys : k = x
  /\ \A k \in job[r].keys : k \in issued
  /\ job[r].step = "insert" =>
       \A k \in job[r].keys :
         k \in blobs /\ row[k] = None /\ \A q \in Requests : k \in job[q].keys => q = r
  /\ job[r].step = "drop" => \A k \in job[r].keys : row[k] \in {None, job[r].plan}
HandInv ==
  /\ \A r \in Requests : Handling(r)
  /\ \A k \in Keys : row[k] # None => k \in issued

\* Nothing is stored or hung up, and nobody takes up a key.
LEMMA HandSame ==
  ASSUME JobOK, HandInv, UNCHANGED <<blobs, issued>>,
         \A k \in Keys : row'[k] \in {row[k], None},
         \A q \in Requests :
           \/ job'[q] = job[q]
           \/ /\ job'[q].keys \subseteq job[q].keys
              /\ job'[q].step \in {"idle", "cleanup"}
              /\ job'[q].step = "idle" => job'[q].keys = {}
  PROVE  HandInv'
<1>1. ASSUME NEW r \in Requests PROVE Handling(r)'
  <2>1. job[r].keys \in SUBSET Keys /\ Handling(r)
    BY JobFields DEF JobOK, HandInv
  <2>2. \A q \in Requests : job'[q].keys \subseteq job[q].keys
    OBVIOUS
  <2>3. CASE job'[r] = job[r]
    <3>1. job[r].step = "insert" =>
            \A k \in job[r].keys :
              k \in blobs /\ row'[k] = None /\ \A q \in Requests : k \in job'[q].keys => q = r
      BY <2>1, <2>2 DEF Handling
    <3>2. job[r].step = "drop" => \A k \in job[r].keys : row'[k] \in {None, job[r].plan}
      BY <2>1 DEF Handling
    <3> QED
      BY <3>1, <3>2, <2>1, <2>3 DEF Handling
  <2>4. CASE job'[r] # job[r]
    BY <2>1, <2>4 DEF Handling
  <2> QED
    BY <2>3, <2>4
<1>2. \A k \in Keys : row'[k] # None => k \in issued'
  BY DEF HandInv
<1> QED
  BY <1>1, <1>2 DEF HandInv

LEMMA HandStays == TypeOK /\ HandInv /\ [Next]_vars => HandInv'
<1> SUFFICES ASSUME TypeOK, HandInv, [Next]_vars PROVE HandInv'
  OBVIOUS
<1>t. JobOK /\ RestOK
  BY TypeSplits
<1>j. ASSUME NEW r \in Requests
      PROVE  /\ job[r] \in Job /\ job[r].step \in Steps /\ job[r].plan \in Plans \cup {None}
             /\ job[r].keys \in SUBSET Keys /\ Handling(r)
  BY <1>t, JobFields DEF JobOK, HandInv
<1>i. IdleJob.step = "idle" /\ IdleJob.keys = {}
  BY DEF IdleJob
<1>a. ASSUME NEW r \in Requests, Answer(r) \/ UNCHANGED job, UNCHANGED <<blobs, issued>>,
             \A k \in Keys : row'[k] \in {row[k], None}
      PROVE  HandInv'
  BY <1>a, <1>i, <1>t, JobSteps, HandSame
<1>g. ASSUME NEW r \in Requests, GoTo(r, "cleanup"), UNCHANGED <<blobs, issued>>,
             \A k \in Keys : row'[k] \in {row[k], None}
      PROVE  HandInv'
  <2>1. "cleanup" \in Steps
    BY DEF Steps
  <2> QED
    BY <2>1, <1>g, <1>t, JobSteps, HandSame
<1>1. CASE UNCHANGED vars
  BY <1>1, HandSame, <1>t DEF vars, db
<1>2. ASSUME NEW r \in Requests, NEW p \in Plans, Upload(r, p) \/ DeletePlan(r, p) PROVE HandInv'
  <2>1. "put" \in Steps /\ "list" \in Steps /\ {} \in SUBSET Keys /\ p # None
    BY AttachmentsAssumption DEF Steps
  <2>2. /\ job'[r].step \in {"put", "list"} /\ job'[r].keys = {} /\ job'[r].plan # None
        /\ \A q \in Requests : q # r => job'[q] = job[q]
    BY <2>1, <1>2, <1>t, JobSteps DEF Upload, DeletePlan
  <2>3. UNCHANGED <<row, blobs, issued>>
    BY <1>2 DEF Upload, DeletePlan, db
  <2> QED
    <3>1. ASSUME NEW q \in Requests PROVE Handling(q)'
      <4>1. \A x \in Requests : job'[x].keys \subseteq job[x].keys
        BY <2>2, <1>j DEF Handling
      <4>2. CASE q = r
        BY <4>2, <2>2 DEF Handling
      <4>3. CASE q # r
        BY <4>1, <4>3, <2>2, <2>3, <1>j DEF Handling
      <4> QED
        BY <4>2, <4>3
    <3> QED
      BY <3>1, <2>3 DEF HandInv
<1>3. ASSUME NEW r \in Requests, NEW k \in Keys, DeleteAttachment(r, k) PROVE HandInv'
  <2>1. "unhang" \in Steps /\ {k} \in SUBSET Keys /\ row[k] \in Plans /\ row[k] # None /\ k \in issued
    BY <1>3, <1>t DEF Steps, DeleteAttachment, RestOK, HandInv
  <2>2. /\ job'[r].step = "unhang" /\ job'[r].keys = {k}
        /\ \A q \in Requests : q # r => job'[q] = job[q]
    BY <2>1, <1>3, <1>t, JobSteps DEF DeleteAttachment
  <2>3. UNCHANGED <<row, blobs, issued>>
    BY <1>3 DEF DeleteAttachment, db
  <2>4. ASSUME NEW q \in Requests PROVE Handling(q)'
    <3>1. CASE q = r
      BY <3>1, <2>1, <2>2, <2>3 DEF Handling
    <3>2. CASE q # r
      BY <3>2, <2>1, <2>2, <2>3, <1>j DEF Handling
    <3> QED
      BY <3>1, <3>2
  <2> QED
    BY <2>3, <2>4 DEF HandInv
<1>4. ASSUME NEW r \in Requests, NEW k \in Keys, Put(r, k) PROVE HandInv'
  <2>1. /\ job'[r].step = "insert" /\ job'[r].keys = {k}
        /\ \A q \in Requests : q # r => job'[q] = job[q]
    BY <1>4, <1>j, <1>t DEF Put, JobOK, Job
  <2>2. /\ UNCHANGED row /\ blobs' = blobs \cup {k} /\ issued' = issued \cup {k} /\ k \notin issued
        /\ row[k] = None
    BY <1>4 DEF Put, db, HandInv
  <2>3. ASSUME NEW q \in Requests PROVE Handling(q)'
    <3>1. CASE q = r
      BY <3>1, <2>1, <2>2, <1>j DEF Handling
    <3>2. CASE q # r
      BY <3>2, <2>1, <2>2, <1>j DEF Handling
    <3> QED
      BY <3>1, <3>2
  <2> QED
    BY <2>2, <2>3 DEF HandInv
<1>5. ASSUME NEW r \in Requests, PutFails(r) PROVE HandInv'
  <2>1. /\ \A q \in Requests : job'[q] = IF q = r THEN IdleJob ELSE job[q]
        /\ UNCHANGED row /\ blobs \subseteq blobs' /\ issued \subseteq issued'
    BY <1>5, <1>t, JobSteps DEF PutFails, db
  <2>2. ASSUME NEW q \in Requests PROVE Handling(q)'
    <3>1. CASE q = r
      BY <3>1, <2>1, <1>i DEF Handling
    <3>2. CASE q # r
      BY <3>2, <2>1, <1>i, <1>j DEF Handling
    <3> QED
      BY <3>1, <3>2
  <2> QED
    BY <2>1, <2>2 DEF HandInv
<1>6. ASSUME NEW r \in Requests, NEW k \in Keys, NEW p \in plans, At(r, "insert"), InHand(r, k), Hang(k, p),
             UNCHANGED <<blobs, issued>>, Answer(r) \/ GoTo(r, "cleanup")
      PROVE  HandInv'
  <2>1. /\ k \in issued /\ row[k] = None /\ \A q \in Requests : k \in job[q].keys => q = r
    BY <1>6, <1>j DEF Handling, At, InHand
  <2>2. \A q \in Keys : q # k => row'[q] = row[q]
    BY <1>6, <1>t, HangKeeps
  <2>3. /\ \A q \in Requests : q # r => job'[q] = job[q]
        /\ job'[r].step \in {"idle", "cleanup"} /\ job'[r].keys \subseteq job[r].keys
        /\ job'[r].step = "idle" => job'[r].keys = {}
    <3>1. "cleanup" \in Steps
      BY DEF Steps
    <3> QED
      BY <3>1, <1>6, <1>i, <1>t, JobSteps
  <2>4. ASSUME NEW q \in Requests PROVE Handling(q)'
    <3>1. CASE q = r
      BY <3>1, <2>3, <1>6, <1>j DEF Handling
    <3>2. CASE q # r
      <4>1. Handling(q) /\ job'[q] = job[q] /\ k \notin job[q].keys /\ job[q].keys \in SUBSET Keys
        BY <3>2, <2>1, <2>3, <1>j
      <4>2. \A x \in job[q].keys : row'[x] = row[x]
        BY <4>1, <2>2
      <4>3. \A x \in Requests : job'[x].keys \subseteq job[x].keys
        BY <2>3
      <4> QED
        BY <4>1, <4>2, <4>3, <1>6 DEF Handling
    <3> QED
      BY <3>1, <3>2
  <2> QED
    BY <2>1, <2>2, <2>4, <1>6 DEF HandInv
<1>7. ASSUME NEW r \in Requests, NEW k \in Keys, Insert(r, k) \/ InsertFails(r, k) PROVE HandInv'
  <2>1. CASE UNCHANGED row
    <3>1. CASE InsertFails(r, k)
      BY <2>1, <3>1, <1>g DEF InsertFails
    <3>2. CASE Insert(r, k)
      BY <3>2, <1>6 DEF Insert
    <3> QED
      BY <3>1, <3>2, <1>7
  <2>2. CASE job[r].plan \in plans /\ Hang(k, job[r].plan)
    BY <2>2, <1>7, <1>6 DEF Insert, InsertFails
  <2> QED
    BY <2>1, <2>2, <1>7 DEF Insert, InsertFails
<1>8. ASSUME NEW r \in Requests, NEW k \in Keys, RemoveBlob(r, k) PROVE HandInv'
  <2>1. /\ \A q \in Requests : q # r => job'[q] = job[q]
        /\ job'[r].step = "cleanup" /\ job'[r].keys = job[r].keys \ {k}
    BY <1>8, <1>j, <1>t DEF RemoveBlob, At, JobOK, Job
  <2>2. UNCHANGED <<row, issued>> /\ blobs' \in {blobs, blobs \ {k}} /\ k \in job[r].keys /\ job[r].step = "cleanup"
    BY <1>8 DEF RemoveBlob, db, InHand, At
  <2>3. ASSUME NEW q \in Requests PROVE Handling(q)'
    <3>1. CASE q = r
      BY <3>1, <2>1, <2>2, <1>j DEF Handling
    <3>2. CASE q # r
      <4>1. job[q].step = "insert" => k \notin job[q].keys
        BY <3>2, <2>2, <1>j DEF Handling
      <4>2. \A x \in Requests : job'[x].keys \subseteq job[x].keys
        BY <2>1
      <4> QED
        BY <4>1, <4>2, <3>2, <2>1, <2>2, <1>j DEF Handling
    <3> QED
      BY <3>1, <3>2
  <2> QED
    BY <2>2, <2>3 DEF HandInv
<1>9. ASSUME NEW r \in Requests, Cleaned(r) PROVE HandInv'
  BY <1>9, <1>a DEF Cleaned, db
<1>10. ASSUME NEW r \in Requests, NEW k \in Keys, Unhang(r, k) \/ UnhangFails(r, k) PROVE HandInv'
  <2>1. \A x \in Keys : row'[x] \in {row[x], None}
    BY <1>10, <1>t, HangKeeps DEF Unhang, UnhangFails
  <2> QED
    BY <2>1, <1>10, <1>a, <1>g DEF Unhang, UnhangFails
<1>11. ASSUME NEW r \in Requests, ListKeys(r) PROVE HandInv'
  <2>1. /\ \A q \in Requests : q # r => job'[q] = job[q]
        /\ job'[r].step = "drop" /\ job'[r].plan = job[r].plan
        /\ job'[r].keys \in {RowsOf(job[r].plan), {}}
    <3>1. job[r].keys = {}
      BY <1>11, <1>j DEF ListKeys, At, Handling
    <3> QED
      BY <3>1, <1>11, <1>j, <1>t DEF ListKeys, JobOK, Job
  <2>2. UNCHANGED <<row, blobs, issued>>
    BY <1>11 DEF ListKeys, db
  <2>3. job[r].plan # None
    BY <1>11, <1>j DEF ListKeys, At, Handling
  <2>4. \A k \in job'[r].keys : row[k] = job[r].plan /\ row[k] # None /\ k \in issued
    BY <2>1, <2>3 DEF RowsOf, HandInv
  <2>5. ASSUME NEW q \in Requests PROVE Handling(q)'
    <3>1. CASE q = r
      BY <3>1, <2>1, <2>2, <2>4 DEF Handling
    <3>2. CASE q # r
      BY <3>2, <2>1, <2>2, <2>4, <1>j DEF Handling
    <3> QED
      BY <3>1, <3>2
  <2> QED
    BY <2>2, <2>5 DEF HandInv
<1>12. ASSUME NEW ps, ps \subseteq Plans, NEW ks, Cascade(ps, ks) PROVE \A k \in Keys : row'[k] \in {row[k], None}
  BY <1>12, <1>t, CascadeKeeps
<1>13. ASSUME NEW r \in Requests, Drop(r) \/ DropFails(r) PROVE HandInv'
  <2>1. \A k \in Keys : row'[k] \in {row[k], None}
    <3>1. CASE UNCHANGED db
      BY <3>1 DEF db
    <3>2. CASE job[r].plan \in plans /\ Cascade({job[r].plan}, job[r].keys)
      <4>1. {job[r].plan} \subseteq Plans
        BY <3>2, <1>t DEF RestOK
      <4> QED
        BY <4>1, <3>2, <1>12
    <3> QED
      BY <3>1, <3>2, <1>13 DEF Drop, DropFails
  <2> QED
    BY <2>1, <1>13, <1>a, <1>g DEF Drop, DropFails
<1>14. ASSUME NEW r \in Requests, DeleteTrip(r) \/ \E p, q \in Plans : LinkPlans(r, p, q) PROVE HandInv'
  <2>1. plans \subseteq Plans /\ \A q \in Plans : {q} \subseteq Plans
    BY <1>t DEF RestOK
  <2>2. \A k \in Keys : row'[k] \in {row[k], None}
    BY <2>1, <1>14, <1>12 DEF DeleteTrip, LinkPlans
  <2> QED
    BY <2>2, <1>14, <1>a DEF DeleteTrip, LinkPlans
<1>15. CASE Crash \/ \E r \in Requests : Disconnect(r)
  <2>1. UNCHANGED <<row, blobs, issued>>
    BY <1>15 DEF Crash, Disconnect, db
  <2>2. \A q \in Requests : job'[q] \in {job[q], IdleJob}
    BY <1>15 DEF Crash, Disconnect
  <2> QED
    BY <2>1, <2>2, <1>i, <1>j, <1>t, HandSame
<1> QED
  BY <1>1, <1>2, <1>3, <1>4, <1>5, <1>7, <1>8, <1>9, <1>10, <1>11, <1>13, <1>14, <1>15 DEF Next

----------------------------------------------------------------------------
\* Rows that have lost their bytes, or are about to: each cost the answer to
\* its insert.
Bad ==
  {k \in Keys : row[k] # None /\ (k \notin blobs \/ \E r \in Requests : At(r, "cleanup") /\ InHand(r, k))}
BadInv == IsFiniteSet(Bad) /\ Cardinality(Bad) <= lost

LEMMA Fewer ==
  ASSUME BadInv, RestOK, Bad' \subseteq Bad, lost' \in Nat, lost' >= lost
  PROVE  BadInv'
<1>1. IsFiniteSet(Bad') /\ Cardinality(Bad') <= Cardinality(Bad)
  BY FS_Subset DEF BadInv
<1>2. Cardinality(Bad) \in Nat /\ Cardinality(Bad') \in Nat /\ lost \in Nat
  BY <1>1, FS_CardinalityType DEF BadInv, RestOK
<1> QED
  BY <1>1, <1>2 DEF BadInv

LEMMA OneMore ==
  ASSUME BadInv, RestOK, NEW k, Bad' \subseteq Bad \cup {k}, lost' = lost + 1
  PROVE  BadInv'
<1>1. IsFiniteSet(Bad \cup {k}) /\ Cardinality(Bad \cup {k}) <= Cardinality(Bad) + 1
  <2>1. Cardinality(Bad) \in Nat
    BY FS_CardinalityType DEF BadInv
  <2>2. /\ IsFiniteSet(Bad \cup {k})
        /\ Cardinality(Bad \cup {k}) = IF k \in Bad THEN Cardinality(Bad) ELSE Cardinality(Bad) + 1
    BY FS_AddElement DEF BadInv
  <2> QED
    BY <2>1, <2>2
<1>2. IsFiniteSet(Bad') /\ Cardinality(Bad') <= Cardinality(Bad \cup {k})
  BY <1>1, FS_Subset
<1>3. /\ Cardinality(Bad) \in Nat /\ Cardinality(Bad') \in Nat /\ lost \in Nat
      /\ Cardinality(Bad \cup {k}) \in Nat
  BY <1>1, <1>2, FS_CardinalityType DEF BadInv, RestOK
<1> QED
  BY <1>1, <1>2, <1>3 DEF BadInv

\* Whoever cleans up a key now did so before, or the key has no row.
LEMMA NoWorse ==
  ASSUME blobs \subseteq blobs', \A k \in Keys : row'[k] \in {row[k], None},
         \A q \in Requests, k \in Keys :
           At(q, "cleanup")' /\ InHand(q, k)' => (At(q, "cleanup") /\ InHand(q, k)) \/ row'[k] = None
  PROVE  Bad' \subseteq Bad
  BY DEF Bad

LEMMA BadStays == TypeOK /\ HandInv /\ BadInv /\ [Next]_vars => BadInv'
<1> SUFFICES ASSUME TypeOK, HandInv, BadInv, [Next]_vars PROVE BadInv'
  OBVIOUS
<1>t. JobOK /\ RestOK
  BY TypeSplits
<1>j. ASSUME NEW r \in Requests
      PROVE  job[r] \in Job /\ job[r].keys \in SUBSET Keys /\ Handling(r)
  BY <1>t, JobFields DEF JobOK, HandInv
<1>i. IdleJob.step = "idle"
  BY DEF IdleJob
<1>c. "cleanup" \in Steps
  BY DEF Steps
<1>w. ASSUME NEW r \in Requests, UNCHANGED world \/ Works(r) \/ Stores \/ Fails(r) \/ AnswerLost(r)
      PROVE  lost' \in Nat /\ lost' >= lost
  <2>1. lost \in Nat
    BY <1>t DEF RestOK
  <2>2. lost' = lost
    BY <1>w, <1>t, WorldStays DEF world
  <2> QED
    BY <2>1, <2>2
<1>0. ASSUME NEW r \in Requests, UNCHANGED world \/ Works(r) \/ Stores \/ Fails(r) \/ AnswerLost(r),
             blobs \subseteq blobs', \A k \in Keys : row'[k] \in {row[k], None},
             \A q \in Requests : q # r => job'[q] = job[q],
             \/ job'[r].step # "cleanup"
             \/ \A k \in job'[r].keys : row'[k] = None
      PROVE  BadInv'
  <2>1. \A q \in Requests, k \in Keys :
          At(q, "cleanup")' /\ InHand(q, k)' => (At(q, "cleanup") /\ InHand(q, k)) \/ row'[k] = None
    BY <1>0 DEF At, InHand
  <2>2. Bad' \subseteq Bad
    BY <2>1, <1>0, NoWorse
  <2> QED
    BY <2>2, <1>0, <1>w, <1>t, Fewer
<1>a. ASSUME NEW r \in Requests, Answer(r),
             UNCHANGED world \/ Works(r) \/ Stores \/ Fails(r) \/ AnswerLost(r),
             blobs \subseteq blobs', \A k \in Keys : row'[k] \in {row[k], None}
      PROVE  BadInv'
  <2>1. \A q \in Requests : job'[q] = IF q = r THEN IdleJob ELSE job[q]
    BY <1>a, <1>t, JobSteps
  <2> QED
    BY <2>1, <1>a, <1>i, <1>0
<1>1. CASE UNCHANGED vars
  <2>1. Bad' = Bad /\ lost' = lost
    BY <1>1 DEF vars, db, world, Bad, At, InHand
  <2> QED
    BY <2>1, <1>t, Fewer DEF RestOK
<1>2. ASSUME NEW r \in Requests, NEW p \in Plans, Upload(r, p) \/ DeletePlan(r, p) PROVE BadInv'
  <2>1. "put" \in Steps /\ "list" \in Steps /\ {} \in SUBSET Keys
    BY DEF Steps
  <2>2. job'[r].step \in {"put", "list"} /\ \A q \in Requests : q # r => job'[q] = job[q]
    BY <2>1, <1>2, <1>t, JobSteps DEF Upload, DeletePlan
  <2> QED
    BY <2>2, <1>2, <1>0 DEF Upload, DeletePlan, db
<1>3. ASSUME NEW r \in Requests, NEW k \in Keys, DeleteAttachment(r, k) PROVE BadInv'
  <2>1. "unhang" \in Steps /\ {k} \in SUBSET Keys /\ row[k] \in Plans
    BY <1>3, <1>t DEF Steps, DeleteAttachment, RestOK
  <2>2. job'[r].step = "unhang" /\ \A q \in Requests : q # r => job'[q] = job[q]
    BY <2>1, <1>3, <1>t, JobSteps DEF DeleteAttachment
  <2> QED
    BY <2>2, <1>3, <1>0 DEF DeleteAttachment, db
<1>4. ASSUME NEW r \in Requests, NEW k \in Keys, Put(r, k) PROVE BadInv'
  <2>1. job'[r].step = "insert" /\ \A q \in Requests : q # r => job'[q] = job[q]
    BY <1>4, <1>j, <1>t DEF Put, JobOK, Job
  <2> QED
    BY <2>1, <1>4, <1>0 DEF Put, db
<1>5. ASSUME NEW r \in Requests, PutFails(r) PROVE BadInv'
  BY <1>5, <1>a DEF PutFails, db
<1>6. ASSUME NEW r \in Requests, NEW k \in Keys, Insert(r, k) PROVE BadInv'
  <2>1. job[r].plan \in plans /\ Hang(k, job[r].plan) /\ k \in job[r].keys /\ job[r].step = "insert"
    BY <1>6 DEF Insert, InHand, At
  <2>2. k \in blobs /\ \A q \in Requests : k \in job[q].keys => q = r
    BY <2>1, <1>j DEF Handling
  <2>3. row'[k] # None => \A q \in Keys : q # k => row'[q] = row[q]
    BY <2>1, <1>t, HangKeeps
  <2>4. \A q \in Keys : q # k => row'[q] = row[q]
    BY <2>1, <1>t, HangKeeps
  <2>5. \A q \in Requests : job'[q] = IF q = r THEN IdleJob ELSE job[q]
    BY <1>6, <1>t, JobSteps DEF Insert
  <2>6. Bad' \subseteq Bad
    BY <2>2, <2>4, <2>5, <1>6, <1>i DEF Bad, At, InHand, Insert
  <2> QED
    BY <2>6, <1>6, <1>w, <1>t, Fewer DEF Insert
<1>7. ASSUME NEW r \in Requests, NEW k \in Keys, InsertFails(r, k) PROVE BadInv'
  <2>1. /\ k \in job[r].keys /\ job[r].step = "insert" /\ GoTo(r, "cleanup") /\ UNCHANGED blobs
        /\ k \in blobs /\ \A q \in Requests : k \in job[q].keys => q = r
        /\ \A x \in job[r].keys : row[x] = None
    BY <1>7, <1>j DEF InsertFails, InHand, At, Handling
  <2>2. /\ job'[r].step = "cleanup" /\ job'[r].keys = job[r].keys
        /\ \A q \in Requests : q # r => job'[q] = job[q]
    BY <2>1, <1>c, <1>t, JobSteps
  <2>3. CASE UNCHANGED row /\ (Works(r) \/ Fails(r))
    BY <2>1, <2>2, <2>3, <1>0
  <2>4. CASE job[r].plan \in plans /\ RowUnseen(r) /\ Hang(k, job[r].plan)
    <3>1. \A q \in Keys : q # k => row'[q] = row[q]
      BY <2>4, <1>t, HangKeeps
    <3>2. \A q \in Requests : q # r => (At(q, "cleanup")' <=> At(q, "cleanup")) /\ \A x : InHand(q, x)' <=> InHand(q, x)
      BY <2>2 DEF At, InHand
    <3>3. \A x \in Keys : x # k /\ row'[x] # None => ~InHand(r, x)'
      BY <3>1, <2>1, <2>2 DEF InHand
    <3>4. Bad' \subseteq Bad \cup {k}
      BY <3>1, <3>2, <3>3, <2>1 DEF Bad
    <3> QED
      BY <3>4, <2>4, <1>t, WorldStays, OneMore
  <2> QED
    BY <2>3, <2>4, <1>7 DEF InsertFails
<1>8. ASSUME NEW r \in Requests, NEW k \in Keys, RemoveBlob(r, k) PROVE BadInv'
  <2>1. /\ \A q \in Requests : q # r => job'[q] = job[q]
        /\ job'[r].step = "cleanup" /\ job'[r].keys = job[r].keys \ {k}
    BY <1>8, <1>j, <1>t DEF RemoveBlob, At, JobOK, Job
  <2>2. UNCHANGED row /\ blobs' \in {blobs, blobs \ {k}} /\ k \in job[r].keys /\ job[r].step = "cleanup"
    BY <1>8 DEF RemoveBlob, db, InHand, At
  <2>3. \A q \in Requests, x \in Keys : At(q, "cleanup")' /\ InHand(q, x)' => At(q, "cleanup") /\ InHand(q, x)
    BY <2>1, <2>2 DEF At, InHand
  <2>4. Bad' \subseteq Bad
    BY <2>2, <2>3 DEF Bad, At, InHand
  <2> QED
    BY <2>4, <1>8, <1>w, <1>t, Fewer DEF RemoveBlob
<1>9. ASSUME NEW r \in Requests, Cleaned(r) PROVE BadInv'
  BY <1>9, <1>a DEF Cleaned, db
<1>10. ASSUME NEW r \in Requests, NEW k \in Keys, Unhang(r, k) PROVE BadInv'
  <2>2. Hang(k, None) /\ GoTo(r, "cleanup") /\ UNCHANGED blobs /\ Works(r)
    BY <1>10 DEF Unhang
  <2>3. row'[k] = None /\ \A q \in Keys : q # k => row'[q] = row[q]
    BY <2>2, <1>t, HangKeeps
  <2>4. /\ job'[r].step = "cleanup" /\ job'[r].keys = job[r].keys
        /\ \A q \in Requests : q # r => job'[q] = job[q]
    BY <2>2, <1>c, <1>t, JobSteps
  <2>5. job[r].keys = {k}
    BY <1>10, <1>j DEF Unhang, At, InHand, Handling
  <2> QED
    BY <2>2, <2>3, <2>4, <2>5, <1>0
<1>11. ASSUME NEW r \in Requests, NEW k \in Keys, UnhangFails(r, k) PROVE BadInv'
  <2>1. \A x \in Keys : row'[x] \in {row[x], None}
    BY <1>11, <1>t, HangKeeps DEF UnhangFails
  <2> QED
    BY <2>1, <1>11, <1>a DEF UnhangFails
<1>12. ASSUME NEW r \in Requests, ListKeys(r) PROVE BadInv'
  <2>1. (\A q \in Requests : q # r => job'[q] = job[q]) /\ job'[r].step = "drop"
    BY <1>12, <1>j, <1>t DEF ListKeys, JobOK, Job
  <2> QED
    BY <2>1, <1>12, <1>0 DEF ListKeys, db
<1>13. ASSUME NEW r \in Requests, Drop(r) PROVE BadInv'
  <2>1. /\ job[r].plan \in plans /\ Cascade({job[r].plan}, job[r].keys) /\ job[r].step = "drop"
        /\ GoTo(r, "cleanup") /\ Works(r) /\ UNCHANGED blobs
    BY <1>13 DEF Drop, At
  <2>2. {job[r].plan} \subseteq Plans
    BY <2>1, <1>t DEF RestOK
  <2>3. \A k \in Keys : row'[k] = IF row[k] \in {job[r].plan} THEN None ELSE row[k]
    BY <2>1, <2>2, <1>t, CascadeKeeps
  <2>4. /\ job'[r].step = "cleanup" /\ job'[r].keys = job[r].keys
        /\ \A q \in Requests : q # r => job'[q] = job[q]
    BY <2>1, <1>c, <1>t, JobSteps
  <2>5. \A k \in job[r].keys : row'[k] = None
    BY <2>1, <2>3, <1>j DEF Handling
  <2> QED
    BY <2>1, <2>3, <2>4, <2>5, <1>0
<1>14. ASSUME NEW ps, ps \subseteq Plans, NEW ks, Cascade(ps, ks) PROVE \A k \in Keys : row'[k] \in {row[k], None}
  BY <1>14, <1>t, CascadeKeeps
<1>15. ASSUME NEW r \in Requests, DropFails(r) PROVE BadInv'
  <2>1. \A k \in Keys : row'[k] \in {row[k], None}
    <3>1. CASE UNCHANGED db
      BY <3>1 DEF db
    <3>2. CASE job[r].plan \in plans /\ Cascade({job[r].plan}, job[r].keys)
      <4>1. {job[r].plan} \subseteq Plans
        BY <3>2, <1>t DEF RestOK
      <4> QED
        BY <4>1, <3>2, <1>14
    <3> QED
      BY <3>1, <3>2, <1>15 DEF DropFails
  <2> QED
    BY <2>1, <1>15, <1>a DEF DropFails
<1>16. ASSUME NEW r \in Requests, DeleteTrip(r) \/ \E p, q \in Plans : LinkPlans(r, p, q) PROVE BadInv'
  <2>1. plans \subseteq Plans /\ \A q \in Plans : {q} \subseteq Plans
    BY <1>t DEF RestOK
  <2>2. \A k \in Keys : row'[k] \in {row[k], None}
    BY <2>1, <1>16, <1>14 DEF DeleteTrip, LinkPlans
  <2> QED
    BY <2>2, <1>16, <1>a DEF DeleteTrip, LinkPlans
<1>17. CASE Crash \/ \E r \in Requests : Disconnect(r)
  <2>1. UNCHANGED <<row, blobs, lost>> /\ \A q \in Requests : job'[q] \in {job[q], IdleJob}
    BY <1>17 DEF Crash, Disconnect, db
  <2>2. Bad' \subseteq Bad
    BY <2>1, <1>i DEF Bad, At, InHand
  <2> QED
    BY <2>1, <2>2, <1>t, Fewer DEF RestOK
<1> QED
  BY <1>1, <1>2, <1>3, <1>4, <1>5, <1>6, <1>7, <1>8, <1>9, <1>10, <1>11, <1>12, <1>13, <1>15, <1>16, <1>17
     DEF Next

\* A row without its bytes costs an answer: no sequence of uploads, deletions,
\* failed calls, disconnects and crashes leaves more of them than there were
\* inserts whose answer was lost.
THEOREM RowsAlwaysHaveBlobs == Spec => []RowsHaveBlobs
<1>1. Init => HandInv /\ BadInv
  <2> SUFFICES ASSUME Init PROVE HandInv /\ BadInv
    OBVIOUS
  <2>1. HandInv
    BY DEF Init, HandInv, Handling, IdleJob
  <2>2. Bad = {}
    BY DEF Init, Bad
  <2>3. BadInv
    BY <2>2, FS_EmptySet DEF Init, BadInv
  <2> QED
    BY <2>1, <2>3
<1>2. TypeOK /\ BadInv => RowsHaveBlobs
  <2> SUFFICES ASSUME TypeOK, BadInv PROVE RowsHaveBlobs
    OBVIOUS
  <2>1. Rows \ blobs \subseteq Bad /\ lost \in Nat
    BY TypeSplits DEF Rows, Bad, RestOK
  <2>2. IsFiniteSet(Rows \ blobs) /\ Cardinality(Rows \ blobs) <= Cardinality(Bad)
    BY <2>1, FS_Subset DEF BadInv
  <2>3. Cardinality(Bad) \in Nat /\ Cardinality(Rows \ blobs) \in Nat
    BY <2>2, FS_CardinalityType DEF BadInv
  <2> QED
    BY <2>1, <2>2, <2>3 DEF BadInv, RowsHaveBlobs
<1> QED
  BY <1>1, <1>2, HandStays, BadStays, TypeCorrect, PTL DEF Spec

----------------------------------------------------------------------------
\* As long as nothing failed, bytes without a row are in the hand of whoever
\* stored them or unhung the row, or the row went in a way nobody sweeps.
Holder(k) == \E r \in Requests : job[r].step \in {"insert", "cleanup"} /\ k \in job[r].keys
CauseInv ==
  failures = 0 =>
    /\ \A r \in Requests : live[r]
    /\ \A k \in blobs : row[k] # None \/ k \in strays \/ Holder(k)

LEMMA CauseStays == TypeOK /\ HandInv /\ CauseInv /\ [Next]_vars => CauseInv'
<1> SUFFICES ASSUME TypeOK, HandInv, CauseInv, [Next]_vars, failures' = 0
             PROVE  /\ \A r \in Requests : live'[r]
                    /\ \A k \in blobs' : row'[k] # None \/ k \in strays' \/ Holder(k)'
  BY DEF CauseInv
<1>t. JobOK /\ RestOK
  BY TypeSplits
<1>j. ASSUME NEW r \in Requests
      PROVE  job[r] \in Job /\ job[r].keys \in SUBSET Keys /\ Handling(r)
  BY <1>t, JobFields DEF JobOK, HandInv
<1>c. "cleanup" \in Steps
  BY DEF Steps
<1>k. blobs \subseteq Keys
  BY <1>t DEF RestOK
<1>w. ASSUME NEW r \in Requests
      PROVE  UNCHANGED world \/ Works(r) \/ Stores \/ Fails(r) \/ AnswerLost(r) \/ RowUnseen(r) =>
               failures = 0 /\ live[r] /\ ~Fails(r) /\ ~AnswerLost(r) /\ ~RowUnseen(r)
  <2>1. UNCHANGED world \/ Works(r) \/ Stores \/ Fails(r) \/ AnswerLost(r) \/ RowUnseen(r) => failures = 0
    BY <1>t, WorldStays
  <2>2. ~AnswerLost(r) /\ ~RowUnseen(r)
    BY <1>t, WorldStays
  <2>3. ~Fault
    BY <1>t DEF Fault, RestOK
  <2>4. failures = 0 => live[r]
    BY DEF CauseInv
  <2> QED
    BY <2>1, <2>2, <2>3, <2>4 DEF Fails
<1>0. ASSUME failures = 0, UNCHANGED live, strays \subseteq strays',
             \A k \in blobs' : \/ k \in blobs /\ row'[k] = row[k] /\ (Holder(k) => Holder(k)')
                               \/ row'[k] # None \/ k \in strays' \/ Holder(k)'
      PROVE  /\ \A r \in Requests : live'[r]
             /\ \A k \in blobs' : row'[k] # None \/ k \in strays' \/ Holder(k)'
  BY <1>0 DEF CauseInv
<1>h. ASSUME NEW r \in Requests, \A q \in Requests : q # r => job'[q] = job[q],
             NEW k, Holder(k),
             job[r].step \in {"insert", "cleanup"} /\ k \in job[r].keys =>
               job'[r].step \in {"insert", "cleanup"} /\ k \in job'[r].keys
      PROVE  Holder(k)'
  BY <1>h DEF Holder
<1>a. ASSUME NEW r \in Requests, job[r].step \notin {"insert", "cleanup"} \/ job[r].keys = {},
             \A q \in Requests : q # r => job'[q] = job[q], failures = 0,
             UNCHANGED <<live, blobs>>, strays \subseteq strays',
             \A k \in blobs : row'[k] = row[k] \/ k \in strays'
      PROVE  /\ \A q \in Requests : live'[q]
             /\ \A k \in blobs' : row'[k] # None \/ k \in strays' \/ Holder(k)'
  BY <1>a, <1>0, <1>h
<1>an. ASSUME NEW r \in Requests, Answer(r) PROVE \A q \in Requests : q # r => job'[q] = job[q]
  BY <1>an, <1>t, JobSteps
<1>1. CASE UNCHANGED vars
  BY <1>1, <1>0 DEF vars, db, world, Holder
<1>2. ASSUME NEW r \in Requests, NEW p \in Plans, Upload(r, p) \/ DeletePlan(r, p)
      PROVE  /\ \A q \in Requests : live'[q]
             /\ \A k \in blobs' : row'[k] # None \/ k \in strays' \/ Holder(k)'
  <2>1. "put" \in Steps /\ "list" \in Steps /\ {} \in SUBSET Keys
    BY DEF Steps
  <2>2. \A q \in Requests : q # r => job'[q] = job[q]
    BY <2>1, <1>2, <1>t, JobSteps DEF Upload, DeletePlan
  <2> QED
    BY <2>2, <1>2, <1>a, <1>w DEF Upload, DeletePlan, db, Fresh, At
<1>3. ASSUME NEW r \in Requests, NEW k \in Keys, DeleteAttachment(r, k)
      PROVE  /\ \A q \in Requests : live'[q]
             /\ \A x \in blobs' : row'[x] # None \/ x \in strays' \/ Holder(x)'
  <2>1. "unhang" \in Steps /\ {k} \in SUBSET Keys /\ row[k] \in Plans
    BY <1>3, <1>t DEF Steps, DeleteAttachment, RestOK
  <2>2. \A q \in Requests : q # r => job'[q] = job[q]
    BY <2>1, <1>3, <1>t, JobSteps DEF DeleteAttachment
  <2> QED
    BY <2>2, <1>3, <1>a, <1>w DEF DeleteAttachment, db, Fresh, At
<1>4. ASSUME NEW r \in Requests, NEW k \in Keys, Put(r, k)
      PROVE  /\ \A q \in Requests : live'[q]
             /\ \A x \in blobs' : row'[x] # None \/ x \in strays' \/ Holder(x)'
  <2>1. /\ job'[r].step = "insert" /\ job'[r].keys = {k} /\ job[r].step = "put"
        /\ \A q \in Requests : q # r => job'[q] = job[q]
    BY <1>4, <1>j, <1>t DEF Put, JobOK, Job, At
  <2>2. Holder(k)'
    BY <2>1 DEF Holder
  <2>3. \A x \in blobs : Holder(x) => Holder(x)'
    BY <2>1, <1>h
  <2>4. UNCHANGED <<row, strays, live>> /\ blobs' = blobs \cup {k} /\ failures = 0
    BY <1>4, <1>w DEF Put, db
  <2> QED
    BY <2>2, <2>3, <2>4, <1>0
<1>5. ASSUME NEW r \in Requests, PutFails(r) PROVE FALSE
  BY <1>5, <1>w DEF PutFails
<1>6. ASSUME NEW r \in Requests, NEW k \in Keys, Insert(r, k)
      PROVE  /\ \A q \in Requests : live'[q]
             /\ \A x \in blobs' : row'[x] # None \/ x \in strays' \/ Holder(x)'
  <2>1. job[r].plan \in plans /\ Hang(k, job[r].plan) /\ k \in job[r].keys /\ job[r].step = "insert"
    BY <1>6 DEF Insert, InHand, At
  <2>2. row'[k] = job[r].plan /\ \A q \in Keys : q # k => row'[q] = row[q]
    BY <2>1, <1>t, HangKeeps
  <2>3. job[r].plan # None
    BY <2>1, <1>t, AttachmentsAssumption DEF RestOK
  <2>4. \A x \in job[r].keys : x = k
    BY <2>1, <1>j DEF Handling
  <2>5. \A q \in Requests : q # r => job'[q] = job[q]
    BY <1>6, <1>an DEF Insert
  <2>6. \A x \in blobs : x # k /\ Holder(x) => Holder(x)'
    BY <2>4, <2>5, <1>h
  <2>7. UNCHANGED <<blobs, strays, live>> /\ failures = 0
    BY <1>6, <1>w DEF Insert
  <2> QED
    BY <2>2, <2>3, <2>6, <2>7, <1>0, <1>k
<1>g. ASSUME NEW r \in Requests, GoTo(r, "cleanup"), failures = 0, UNCHANGED <<blobs, live>>, strays \subseteq strays',
             \A k \in blobs : row'[k] = row[k] \/ k \in strays' \/ k \in job[r].keys
      PROVE  /\ \A q \in Requests : live'[q]
             /\ \A k \in blobs' : row'[k] # None \/ k \in strays' \/ Holder(k)'
  <2>1. /\ job'[r].step = "cleanup" /\ job'[r].keys = job[r].keys
        /\ \A q \in Requests : q # r => job'[q] = job[q]
    BY <1>g, <1>c, <1>t, JobSteps
  <2>2. \A k \in blobs : Holder(k) \/ k \in job[r].keys => Holder(k)'
    BY <2>1 DEF Holder
  <2> QED
    BY <2>2, <1>g, <1>0
<1>7. ASSUME NEW r \in Requests, NEW k \in Keys, InsertFails(r, k)
      PROVE  /\ \A q \in Requests : live'[q]
             /\ \A x \in blobs' : row'[x] # None \/ x \in strays' \/ Holder(x)'
  <2>1. failures = 0 /\ UNCHANGED <<row, blobs, live, strays>> /\ GoTo(r, "cleanup")
    BY <1>7, <1>w DEF InsertFails
  <2> QED
    BY <2>1, <1>g
<1>8. ASSUME NEW r \in Requests, NEW k \in Keys, RemoveBlob(r, k)
      PROVE  /\ \A q \in Requests : live'[q]
             /\ \A x \in blobs' : row'[x] # None \/ x \in strays' \/ Holder(x)'
  <2>1. /\ \A q \in Requests : q # r => job'[q] = job[q]
        /\ job'[r].step = "cleanup" /\ job'[r].keys = job[r].keys \ {k}
    BY <1>8, <1>j, <1>t DEF RemoveBlob, At, JobOK, Job
  <2>2. UNCHANGED <<row, strays, live>> /\ blobs' = blobs \ {k} /\ failures = 0
    BY <1>8, <1>w DEF RemoveBlob, db
  <2>3. \A x \in blobs' : Holder(x) => Holder(x)'
    BY <2>1, <2>2, <1>h
  <2> QED
    BY <2>2, <2>3, <1>0
<1>9. ASSUME NEW r \in Requests, Cleaned(r)
      PROVE  /\ \A q \in Requests : live'[q]
             /\ \A k \in blobs' : row'[k] # None \/ k \in strays' \/ Holder(k)'
  BY <1>9, <1>a, <1>an, <1>w DEF Cleaned, db
<1>10. ASSUME NEW r \in Requests, NEW k \in Keys, Unhang(r, k)
       PROVE  /\ \A q \in Requests : live'[q]
              /\ \A x \in blobs' : row'[x] # None \/ x \in strays' \/ Holder(x)'
  <2>1. \A x \in Keys : x # k => row'[x] = row[x]
    BY <1>10, <1>t, HangKeeps DEF Unhang
  <2>2. k \in job[r].keys /\ GoTo(r, "cleanup") /\ UNCHANGED <<blobs, live, strays>> /\ failures = 0
    BY <1>10, <1>w DEF Unhang, InHand
  <2> QED
    BY <2>1, <2>2, <1>g, <1>k
<1>11. ASSUME NEW r \in Requests, NEW k \in Keys, UnhangFails(r, k)
       PROVE  /\ \A q \in Requests : live'[q]
              /\ \A x \in blobs' : row'[x] # None \/ x \in strays' \/ Holder(x)'
  <2>1. /\ UNCHANGED <<row, blobs, live, strays>> /\ failures = 0 /\ job[r].step = "unhang"
    BY <1>11, <1>w DEF UnhangFails, At
  <2> QED
    BY <2>1, <1>11, <1>a, <1>an DEF UnhangFails
<1>12. ASSUME NEW r \in Requests, ListKeys(r)
       PROVE  /\ \A q \in Requests : live'[q]
              /\ \A k \in blobs' : row'[k] # None \/ k \in strays' \/ Holder(k)'
  <2>1. (\A q \in Requests : q # r => job'[q] = job[q]) /\ job[r].step = "list"
    BY <1>12, <1>j, <1>t DEF ListKeys, JobOK, Job, At
  <2> QED
    BY <2>1, <1>12, <1>a, <1>w DEF ListKeys, db
<1>13. ASSUME NEW r \in Requests, Drop(r)
       PROVE  /\ \A q \in Requests : live'[q]
              /\ \A k \in blobs' : row'[k] # None \/ k \in strays' \/ Holder(k)'
  <2>1. /\ Cascade({job[r].plan}, job[r].keys) /\ GoTo(r, "cleanup") /\ UNCHANGED <<blobs, live>> /\ failures = 0
    BY <1>13, <1>w DEF Drop
  <2>2. \A k \in Keys : row'[k] = row[k] \/ k \in strays' \/ k \in job[r].keys
    BY <2>1 DEF Cascade
  <2>3. strays \subseteq strays'
    BY <2>1 DEF Cascade
  <2> QED
    BY <2>1, <2>2, <2>3, <1>g, <1>k
<1>14. ASSUME NEW r \in Requests, DropFails(r)
       PROVE  /\ \A q \in Requests : live'[q]
              /\ \A k \in blobs' : row'[k] # None \/ k \in strays' \/ Holder(k)'
  <2>1. /\ UNCHANGED <<row, blobs, live, strays>> /\ failures = 0 /\ job[r].step = "drop"
    BY <1>14, <1>w DEF DropFails, At, db
  <2> QED
    BY <2>1, <1>14, <1>a, <1>an DEF DropFails
<1>15. ASSUME NEW r \in Requests, DeleteTrip(r) \/ \E p, q \in Plans : LinkPlans(r, p, q)
       PROVE  /\ \A q \in Requests : live'[q]
              /\ \A k \in blobs' : row'[k] # None \/ k \in strays' \/ Holder(k)'
  <2>1. /\ UNCHANGED <<blobs, live>> /\ failures = 0 /\ job[r].step = "idle" /\ Answer(r)
    BY <1>15, <1>w DEF DeleteTrip, LinkPlans, Fresh, At
  <2>2. strays \subseteq strays' /\ \A k \in Keys : row'[k] = row[k] \/ k \in strays'
    BY <1>15 DEF DeleteTrip, LinkPlans, Cascade
  <2> QED
    BY <2>1, <2>2, <1>a, <1>an, <1>k
<1>16. CASE Crash \/ \E r \in Requests : Disconnect(r)
  <2>1. ~Fault
    BY <1>t DEF Fault, RestOK
  <2> QED
    BY <2>1, <1>16 DEF Crash, Disconnect
<1> QED
  BY <1>1, <1>2, <1>3, <1>4, <1>5, <1>6, <1>7, <1>8, <1>9, <1>10, <1>11, <1>12, <1>13, <1>14, <1>15, <1>16
     DEF Next

\* Bytes nobody lists were left by a failure, or by a plan that went without a
\* sweep of their key: nothing else strands them.
THEOREM OrphansAlwaysHaveACause == Spec => []OrphansHaveACause
<1>1. Init => HandInv /\ CauseInv
  BY DEF Init, HandInv, Handling, IdleJob, CauseInv
<1>2. TypeOK /\ CauseInv => OrphansHaveACause
  <2> SUFFICES ASSUME TypeOK, CauseInv, NEW k \in Orphans, k \notin strays, failures = 0 PROVE FALSE
    BY TypeSplits DEF OrphansHaveACause, RestOK
  <2>1. k \in blobs /\ row[k] = None /\ \A r \in Requests : k \notin job[r].keys
    BY TypeSplits DEF Orphans, Rows, InHand, RestOK
  <2> QED
    BY <2>1 DEF CauseInv, Holder
<1> QED
  BY <1>1, <1>2, HandStays, CauseStays, TypeCorrect, PTL DEF Spec
=============================================================================
