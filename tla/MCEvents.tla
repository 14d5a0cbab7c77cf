------------------------------ MODULE MCEvents ------------------------------
(* Instances of Events for TLC. *)
EXTENDS Events, TLC
CONSTANTS ann, eve, outbound, inbound, eveTab

Sessions == eveTab :> eve
\* Eve is on the trip, and the outbound flight is hidden from her.
Audiences == outbound :> {ann} @@ inbound :> {ann, eve}
=============================================================================
