---------------------------- MODULE MCAgentService ----------------------------
(***************************************************************************)
(* AgentService on small instances.  Connections are interchangeable, and  *)
(* so are keys: no definition of AgentService names one of them.           *)
(***************************************************************************)
EXTENDS AgentService, TLC

Symmetry == Permutations(Conn) \cup Permutations(Key)

=============================================================================
