------------------------------ MODULE AtomicServer ------------------------------
(***************************************************************************)
(* What a client may expect of a server with a shared state: its request   *)
(* takes effect in one step, at some moment between the call and the       *)
(* return, once at most, and it is told the outcome of that step or learns *)
(* that there is none.  In Spec a client has one request; in SessionSpec   *)
(* it may come back with another one when it is through with the first.    *)
(***************************************************************************)
CONSTANTS
  Client,           \* clients
  Request,          \* what they may ask for
  States,           \* states that others leave behind
  After(_, _),      \* the state after a request, from the request and the state before
  Outcome(_, _, _), \* its outcome, from the request, the state before, and whether all went well
  Fits(_),          \* an outcome that can be delivered
  None,             \* no request
  NoOutcome         \* no outcome

VARIABLES
  state,    \* the shared state
  phase,    \* each client: idle, waiting, served, answered or failed
  asked,    \* its request
  outcome   \* the outcome of its request, from the moment it took effect

vars == <<state, phase, asked, outcome>>

Init ==
  /\ state \in States
  /\ phase = [c \in Client |-> "idle"]
  /\ asked = [c \in Client |-> None]
  /\ outcome = [c \in Client |-> NoOutcome]

Ask(c, r) ==
  /\ phase[c] = "idle"
  /\ phase' = [phase EXCEPT ![c] = "waiting"]
  /\ asked' = [asked EXCEPT ![c] = r]
  /\ UNCHANGED <<state, outcome>>

\* The request takes effect.
Serve(c) ==
  /\ phase[c] = "waiting"
  /\ phase' = [phase EXCEPT ![c] = "served"]
  /\ state' = After(asked[c], state)
  /\ \E ok \in BOOLEAN : outcome' = [outcome EXCEPT ![c] = Outcome(asked[c], state, ok)]
  /\ UNCHANGED asked

\* The client is told the outcome, or that there is none to read.
Deliver(c) ==
  /\ phase[c] = "served"
  /\ phase' = [phase EXCEPT ![c] = "answered"]
  /\ outcome' = IF Fits(outcome[c]) THEN outcome ELSE [outcome EXCEPT ![c] = NoOutcome]
  /\ UNCHANGED <<state, asked>>

\* Some clients learn that they will not be served.  The request of one of them
\* may have taken effect all the same.
Fail(clients) ==
  /\ \A c \in clients : phase[c] = "waiting"
  /\ phase' = [c \in Client |-> IF c \in clients THEN "failed" ELSE phase[c]]
  /\ state' \in {state} \cup {After(asked[c], state) : c \in clients}
  /\ UNCHANGED <<asked, outcome>>

\* Somebody else changes the state.
Interfere ==
  /\ state' \in States
  /\ UNCHANGED <<phase, asked, outcome>>

Next ==
  \/ \E c \in Client : (\E r \in Request : Ask(c, r)) \/ Serve(c) \/ Deliver(c)
  \/ \E clients \in SUBSET Client : Fail(clients)
  \/ Interfere

Spec == Init /\ [][Next]_vars

-----------------------------------------------------------------------------
\* The client has been told the outcome, or is gone, and is through.
Return(c) ==
  /\ phase[c] = "served"
  /\ phase' = [phase EXCEPT ![c] = "idle"]
  /\ asked' = [asked EXCEPT ![c] = None]
  /\ outcome' = [outcome EXCEPT ![c] = NoOutcome]
  /\ UNCHANGED state

\* It will not be served, and is through; its request may have taken effect.
GiveUp(c) ==
  /\ phase[c] = "waiting"
  /\ phase' = [phase EXCEPT ![c] = "idle"]
  /\ asked' = [asked EXCEPT ![c] = None]
  /\ outcome' = [outcome EXCEPT ![c] = NoOutcome]
  /\ state' \in {state, After(asked[c], state)}

SessionSpec == Init /\ [][Next \/ \E c \in Client : Return(c) \/ GiveUp(c)]_vars

=============================================================================
