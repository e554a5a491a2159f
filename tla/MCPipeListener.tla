----------------------------- MODULE MCPipeListener -----------------------------
(***************************************************************************)
(* PipeListener on small instances; clients are interchangeable.           *)
(***************************************************************************)
EXTENDS PipeListener, TLC

Symmetry == Permutations(Client)

=============================================================================
