--------------------------- MODULE NoticePromise ---------------------------
(***************************************************************************)
(* What the poller promises about one-off notices, whatever fails, panics  *)
(* or restarts: a notice is closed only after its traveller was told, or   *)
(* when they had switched every channel off; a closed notice is never told *)
(* again; and the push that echoes it goes out at most once, and only once *)
(* it is closed.                                                           *)
(***************************************************************************)
CONSTANT Notices
VARIABLES told, muted, closed, echoes

promise == <<told, muted, closed, echoes>>

Init == told = {} /\ muted = {} /\ closed = {} /\ echoes = [n \in Notices |-> 0]

Tell(n) ==
  /\ n \notin closed
  /\ told' = told \cup {n}
  /\ UNCHANGED <<muted, closed, echoes>>

Mute(n) ==
  /\ n \notin closed
  /\ muted' = muted \cup {n}
  /\ UNCHANGED <<told, closed, echoes>>

Close(n) ==
  /\ n \in told \cup muted
  /\ closed' = closed \cup {n}
  /\ UNCHANGED <<told, muted, echoes>>

Echo(n) ==
  /\ n \in closed /\ echoes[n] = 0
  /\ echoes' = [echoes EXCEPT ![n] = 1]
  /\ UNCHANGED <<told, muted, closed>>

Next == \E n \in Notices : Tell(n) \/ Mute(n) \/ Close(n) \/ Echo(n)

Spec == Init /\ [][Next]_promise
============================================================================
