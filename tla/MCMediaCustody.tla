--------------------------- MODULE MCMediaCustody ---------------------------
(* Small instances of MediaCustody for TLC. *)
EXTENDS MediaCustody, TLC

\* Sweeps and deletions are interchangeable.
ActorSymmetry == Permutations(Sweepers) \cup Permutations(Purgers)
=============================================================================
