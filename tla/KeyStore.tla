-------------------------------- MODULE KeyStore --------------------------------
(***************************************************************************)
(* "Permanent key storage" (README.md): ssh-add is acknowledged only for   *)
(* keys that are stored, a key leaves the store only when the user removes *)
(* it, and the agent being started, stopped, killed or told to reload does *)
(* not affect the store.  A save that is interrupted breaks the promise.   *)
(***************************************************************************)
CONSTANT Key

VARIABLES
  stored,  \* keys the next launch finds
  acked,   \* keys ssh-add was told SUCCESS for, and not removed
  broken   \* a save was interrupted: nothing is promised any more

vars == <<stored, acked, broken>>

TypeOK ==
  /\ stored \subseteq Key
  /\ acked \subseteq Key
  /\ broken \in BOOLEAN

Init ==
  /\ stored = {}
  /\ acked = {}
  /\ broken = FALSE

Add(k) ==
  /\ stored' = stored \cup {k}
  /\ UNCHANGED <<acked, broken>>

Acknowledge(k) ==
  /\ k \in stored
  /\ acked' = acked \cup {k}
  /\ UNCHANGED <<stored, broken>>

Remove(k) ==
  /\ stored' = stored \ {k}
  /\ acked' = acked \ {k}
  /\ UNCHANGED broken

Break ==
  /\ stored' \in SUBSET Key
  /\ acked' \in SUBSET Key
  /\ broken' = TRUE

Next == (\E k \in Key : Add(k) \/ Acknowledge(k) \/ Remove(k)) \/ Break

Spec == Init /\ [][Next]_vars

=============================================================================
