--------------------------- MODULE PipeListenerProofs ---------------------------
(***************************************************************************)
(* Proofs about PipeListener, for any clients and bounds.                  *)
(***************************************************************************)
EXTENDS PipeListener, TLAPS

USE PipeAssumption DEF PipeAssumption

\* Every step of the listener keeps the state consistent.
LEMMA ListenerStep == Consistent /\ ListenerThread => Consistent'
<1> SUFFICES ASSUME Consistent, ListenerThread PROVE Consistent'
  OBVIOUS
<1> USE DEF Consistent, TypeOK, MutexConsistent, InstanceConsistent, HandedOverOnce, Goto
<1>1. CASE CreateInstance
  BY <1>1 DEF CreateInstance
<1>2. CASE ConnectInstance
  BY <1>2 DEF ConnectInstance
<1>3. CASE ConnectTooLate
  BY <1>3 DEF ConnectTooLate
<1>4. CASE ExitProcess
  BY <1>4 DEF ExitProcess
<1>5. CASE Connected
  BY <1>5 DEF Connected
<1>6. CASE Identify
  BY <1>6 DEF Identify
<1>7. CASE LockForRequester
  BY <1>7 DEF LockForRequester
<1>8. CASE ListenerDies
  BY <1>8 DEF ListenerDies
<1>9. CASE CollectRequester
  BY <1>9 DEF CollectRequester
<1>10. CASE CollectPanics
  BY <1>10 DEF CollectPanics
<1>11. CASE SpawnHandler
  BY <1>11 DEF SpawnHandler
<1> QED
  BY <1>1, <1>2, <1>3, <1>4, <1>5, <1>6, <1>7, <1>8, <1>9, <1>10, <1>11 DEF ListenerThread

\* So does every step of a client or of the thread that serves it.
LEMMA HandlerStep ==
  ASSUME Consistent, NEW c \in Client, Handler(c)
  PROVE  Consistent'
<1> USE DEF Consistent, TypeOK, MutexConsistent, InstanceConsistent, HandedOverOnce, Serve
<1>1. CASE OpenPipe(c)
  BY <1>1 DEF OpenPipe
<1>2. CASE ClosePipe(c)
  BY <1>2 DEF ClosePipe
<1>3. CASE ReadRequest(c)
  BY <1>3 DEF ReadRequest
<1>4. CASE Hangup(c)
  BY <1>4 DEF Hangup
<1>5. CASE LockForRequest(c)
  BY <1>5 DEF LockForRequest
<1>6. CASE LockPanics(c)
  BY <1>6 DEF LockPanics
<1>7. CASE Respond(c)
  BY <1>7 DEF Respond
<1>8. CASE HandlerPanics(c)
  BY <1>8 DEF HandlerPanics
<1> QED
  BY <1>1, <1>2, <1>3, <1>4, <1>5, <1>6, <1>7, <1>8 DEF Handler

\* The invariant of the pipe listener.
THEOREM PipeIsConsistent == Spec => []Consistent
<1>1. Init => Consistent
  <2> SUFFICES ASSUME Init PROVE Consistent
    OBVIOUS
  <2>1. TypeOK
    <3>1. client \in [Client -> {"idle", "open", "closed"}]
      BY DEF Init
    <3>2. thread \in [Client -> {"none", "read", "lock", "handle", "done", "panicked"}]
      BY DEF Init
    <3>3. requests \in [Client -> 0..MaxRequests]
      BY DEF Init
    <3>4. lpc = "create" /\ pipe = None /\ lock = None /\ others \in 0..MaxOther
      BY DEF Init
    <3>5. poisoned \in BOOLEAN /\ up \in BOOLEAN
      BY Zenon DEF Init
    <3> QED
      BY <3>1, <3>2, <3>3, <3>4, <3>5 DEF TypeOK
  <2>2. MutexConsistent /\ InstanceConsistent /\ HandedOverOnce
    BY DEF Init, MutexConsistent, InstanceConsistent, HandedOverOnce
  <2> QED
    BY <2>1, <2>2 DEF Consistent
<1>2. Consistent /\ [Next]_vars => Consistent'
  <2>1. Consistent /\ (UNCHANGED vars \/ Finished) => Consistent'
    BY DEF vars, Finished, Consistent, TypeOK, MutexConsistent, InstanceConsistent, HandedOverOnce
  <2>2. Consistent /\ (OtherLocks \/ OtherUnlocks) => Consistent'
    <3> SUFFICES ASSUME Consistent, OtherLocks \/ OtherUnlocks PROVE Consistent'
      OBVIOUS
    <3> USE DEF Consistent, TypeOK, MutexConsistent, InstanceConsistent, HandedOverOnce
    <3>1. CASE OtherLocks
      BY <3>1 DEF OtherLocks
    <3>2. CASE OtherUnlocks
      BY <3>2 DEF OtherUnlocks
    <3> QED
      BY <3>1, <3>2
  <2> QED
    BY <2>1, <2>2, ListenerStep, HandlerStep DEF Next
<1> QED
  BY <1>1, <1>2, PTL DEF Spec

\* No instance is served by two threads, and none is lost between the listener
\* and the threads.
THEOREM InstancesAreHandedOverOnce == Spec => []HandedOverOnce
<1>1. Consistent => HandedOverOnce
  BY DEF Consistent
<1> QED
  BY <1>1, PipeIsConsistent, PTL

=============================================================================
