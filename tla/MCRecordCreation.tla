-------------------------- MODULE MCRecordCreation --------------------------
(* RecordCreation on small instances. *)
EXTENDS RecordCreation, TLC

Symmetry == Permutations(Keyed \ Misusers) \cup Permutations(Keyless)
=============================================================================
