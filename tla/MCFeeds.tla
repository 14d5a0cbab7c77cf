------------------------------ MODULE MCFeeds ------------------------------
(* Instances of Feeds for TLC. *)
EXTENDS Feeds
CONSTANTS here, there, utc, local
Pairs == {<<here, utc>>, <<here, local>>}
FirstVersion == [u \in Urls |-> 1]
=============================================================================
