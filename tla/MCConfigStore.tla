----------------------------- MODULE MCConfigStore -----------------------------
(***************************************************************************)
(* ConfigStore on small instances.  Processes, keys and names are each     *)
(* interchangeable.                                                        *)
(***************************************************************************)
EXTENDS ConfigStore, TLC

Symmetry == Permutations(Proc) \cup Permutations(Key) \cup Permutations(Name)

=============================================================================
