---------------------------- MODULE MCPageantChannel ----------------------------
(***************************************************************************)
(* PageantChannel with three keys to the base 4.                           *)
(*                                                                         *)
(* The numbers 2 and 3 have their sign bit set, k1 and k3 share their      *)
(* modulus, the listing of k1 and any other key fills a mapping of 24      *)
(* cells, and that of the two others does not fit.  With the longer of the *)
(* two data the request to sign with k1 fills the mapping as well.         *)
(***************************************************************************)
EXTENDS PageantChannel

k1 == [e |-> << 1 >>, n |-> << 2 >>]
k2 == [e |-> << 3 >>, n |-> << 1, 2 >>]
k3 == [e |-> << 3 >>, n |-> << 2 >>]

MCKey == {k1, k2, k3}

\* Additions of each key, one of another type, and one with a garbled comment.
MCAdded ==
  {[op |-> "add", type |-> SshRsa, key |-> k, name |-> 1] : k \in MCKey}
    \cup {[op |-> "add", type |-> << 8 >>, key |-> k1, name |-> 1],
          [op |-> "add", type |-> SshRsa, key |-> k2, name |-> 9]}

MCData == {<< 1 >>, [i \in 1..12 |-> 1]}

Pair(k) == [key |-> k, name |-> 1]

MCRings == {<< >>, << Pair(k3), Pair(k1) >>, << Pair(k2), Pair(k3) >>,
            << Pair(k1), Pair(k2), Pair(k3) >>}

=============================================================================
