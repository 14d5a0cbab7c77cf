--------------------------- MODULE MCAttachments ---------------------------
(* Instances of Attachments for TLC. *)
EXTENDS Attachments, TLC
Interchangeable == Permutations(Plans) \cup Permutations(Keys) \cup Permutations(Requests)
=============================================================================
