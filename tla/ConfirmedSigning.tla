---------------------------- MODULE ConfirmedSigning ----------------------------
(***************************************************************************)
(* What the agent promises a user about signatures ("Confirmation for key  *)
(* operations", README.md): each sign request of a connection is consented *)
(* to or refused, a signature is made only after a consent, a consent is   *)
(* never dropped (it ends in a signature or in a failure response), and    *)
(* the user is asked about one request at a time.                          *)
(***************************************************************************)
CONSTANT Conn   \* the connections

VARIABLE phase  \* how far the current sign request of each connection is

Phases == {"idle", "asked", "consented", "refused", "signed"}

TypeOK == phase \in [Conn -> Phases]

Init == phase = [c \in Conn |-> "idle"]

Step(c, from, to) ==
  /\ phase[c] \in from
  /\ phase' = [phase EXCEPT ![c] = to]

\* A sign request arrives.
Ask(c) == Step(c, {"idle"}, "asked")

\* The user approves the request; no other approval is outstanding.
Consent(c) ==
  /\ \A d \in Conn : phase[d] # "consented"
  /\ Step(c, {"asked"}, "consented")

\* The user declines, the key is unknown, or the signing itself fails.
Refuse(c) == Step(c, {"asked", "consented"}, "refused")

Sign(c) == Step(c, {"consented"}, "signed")

\* The outcome is delivered, or the connection ends before any consent.
Close(c) == Step(c, {"asked", "refused", "signed"}, "idle")

Next ==
  \E c \in Conn : Ask(c) \/ Consent(c) \/ Refuse(c) \/ Sign(c) \/ Close(c)

Spec == Init /\ [][Next]_phase

=============================================================================
