--------------------------- MODULE AgentServiceProofs ---------------------------
(***************************************************************************)
(* Proofs about AgentService, for any connections, keys and bounds.        *)
(*                                                                         *)
(* Consistent is inductive: ThreadStep and MainStep show that every action *)
(* keeps it.  The safety properties follow from it.                        *)
(***************************************************************************)
EXTENDS AgentService, TLAPS

USE ServiceAssumption DEF ServiceAssumption, agentVars, threadVars, windowVars, historyVars,
      Request, Ops, Responses, Window, Event

\* The initial states are consistent.
LEMMA InitIsConsistent == Init => Consistent
<1> SUFFICES ASSUME Init PROVE Consistent
  OBVIOUS
<1>1. TypeOK
  <2>1. /\ wpc \in [Conn -> {"read", "lock", "handle", "recv", "decided", "write", "closed"}]
        /\ req \in [Conn -> Request \cup {None}]
        /\ served \in [Conn -> 0..MaxRequests]
        /\ resp \in [Conn -> Responses \cup {None}]
        /\ answer \in [Conn -> {"none", "yes", "no"}]
    BY DEF Init
  <2>2. window \in [Conn -> Window \cup {None}] /\ menus \in 0..MaxMenus /\ queue \in Seq(Conn)
    BY DEF Init
  <2> QED
    BY <2>1, <2>2 DEF Init, TypeOK
<1>2. MutexConsistent /\ ThreadConsistent /\ AskConsistent
  BY DEF Init, MutexConsistent, ThreadConsistent, AskConsistent
<1>3. QueueConsistent /\ WindowConsistent /\ UnheardConsistent /\ ConsentPerSignature
  BY DEF Init, QueueConsistent, WindowConsistent, UnheardConsistent, ConsentPerSignature
<1> QED
  BY <1>1, <1>2, <1>3 DEF Consistent

\* A thread that Windows did not hear goes nowhere, and no other thread does
\* anything about it.
LEMMA ThreadKeepsUnheard ==
  ASSUME Consistent, NEW c \in Conn, Thread(c)
  PROVE  UnheardConsistent'
<1> SUFFICES ASSUME NEW d \in Conn, d \in unheard'
             PROVE  /\ wpc'[d] = "recv" /\ answer'[d] = "none"
                    /\ \A i \in 1..Len(queue') : queue'[i] # d
                    /\ window'[d] # None => window'[d].pressed
  <2>1. unheard' \in SUBSET Conn
    BY DEF Consistent, TypeOK, Thread, ReadRequest, Hangup, Acquire, AcquirePoisoned,
           RequestIdentities, AddIdentity, Reject, AskConfirmation, AskUnheard, HandlerPanics,
           ReturnFromAsk, Conclude, WriteResponse
  <2> QED
    BY <2>1 DEF UnheardConsistent
<1>1. CASE AskUnheard(c)
  <2>1. CASE d = c
    <3>1. wpc[c] = "handle" /\ wpc'[c] = "recv" /\ UNCHANGED <<answer, queue, window>>
      BY <1>1 DEF Consistent, TypeOK, AskUnheard, Goto
    <3>2. answer[c] = "none" /\ (\A i \in 1..Len(queue) : queue[i] # c)
      BY <3>1 DEF Consistent, TypeOK, ThreadConsistent, QueueConsistent
    <3>3. window[c] # None => window[c].pressed
      BY <3>1 DEF Consistent, WindowConsistent
    <3> QED
      BY <2>1, <3>1, <3>2, <3>3
  <2>2. CASE d # c
    BY <1>1, <2>2 DEF Consistent, TypeOK, UnheardConsistent, AskUnheard, Goto
  <2> QED
    BY <2>1, <2>2
<1>2. CASE ~AskUnheard(c)
  <2>1. d \in unheard
    BY <1>2 DEF Thread, ReadRequest, Hangup, Acquire, AcquirePoisoned, RequestIdentities,
                AddIdentity, Reject, AskConfirmation, HandlerPanics, ReturnFromAsk, Conclude,
                WriteResponse
  <2>2. /\ wpc[d] = "recv" /\ answer[d] = "none"
        /\ \A i \in 1..Len(queue) : queue[i] # d
        /\ window[d] # None => window[d].pressed
    BY <2>1 DEF Consistent, UnheardConsistent
  <2>3. c # d
    BY <1>2, <2>2 DEF Thread, ReadRequest, Hangup, Acquire, AcquirePoisoned, RequestIdentities,
                AddIdentity, Reject, AskConfirmation, HandlerPanics, ReturnFromAsk, Conclude,
                WriteResponse, Goto
  <2>4. wpc'[d] = wpc[d] /\ answer'[d] = answer[d]
    BY <1>2, <2>3 DEF Consistent, TypeOK, Thread, ReadRequest, Hangup, Acquire, AcquirePoisoned,
                RequestIdentities, AddIdentity, Reject, AskConfirmation, HandlerPanics,
                ReturnFromAsk, Conclude, WriteResponse, Respond, Goto
  <2>5. window'[d] = window[d]
    BY <1>2, <2>3 DEF Consistent, TypeOK, Thread, ReadRequest, Hangup, Acquire, AcquirePoisoned,
                RequestIdentities, AddIdentity, Reject, AskConfirmation, HandlerPanics,
                ReturnFromAsk, Conclude, WriteResponse, Respond, Goto, Unlink
  <2>6. \A i \in 1..Len(queue') : queue'[i] # d
    <3>1. CASE AskConfirmation(c)
      <4>1. queue' = Append(queue, c) /\ queue \in Seq(Conn)
        BY <3>1 DEF AskConfirmation, Consistent, TypeOK
      <4> QED
        BY <2>2, <2>3, <4>1
    <3>2. CASE ~AskConfirmation(c)
      <4>1. queue' = queue
        BY <1>2, <3>2 DEF Thread, ReadRequest, Hangup, Acquire, AcquirePoisoned,
                    RequestIdentities, AddIdentity, Reject, HandlerPanics, ReturnFromAsk,
                    Conclude, WriteResponse, Respond
      <4> QED
        BY <2>2, <4>1
    <3> QED
      BY <3>1, <3>2
  <2> QED
    BY <2>2, <2>4, <2>5, <2>6
<1> QED
  BY <1>1, <1>2

\* The main thread has nothing of such a thread, except the dialog of its last
\* request that is about to be destroyed.
LEMMA MainKeepsUnheard ==
  ASSUME Consistent, MainThread
  PROVE  UnheardConsistent'
<1>1. CASE ShowConfirmation
  <2>1. /\ queue \in Seq(Conn) /\ queue # << >> /\ Len(queue) <= 1 /\ queue' = Tail(queue)
        /\ UNCHANGED <<wpc, answer, unheard>>
    BY <1>1 DEF Consistent, TypeOK, QueueConsistent, ShowConfirmation
  <2>2. queue' = << >> /\ Head(queue) = queue[1] /\ 1 \in 1..Len(queue)
    BY <2>1
  <2>3. \A d \in unheard : window'[d] = window[d]
    <3>1. Head(queue) \notin unheard
      BY <2>2 DEF Consistent, UnheardConsistent
    <3> QED
      BY <1>1, <3>1 DEF Consistent, TypeOK, ShowConfirmation
  <2> QED
    BY <2>1, <2>2, <2>3 DEF Consistent, UnheardConsistent
<1>2. CASE DialogRefused
  <2>1. /\ queue \in Seq(Conn) /\ queue # << >> /\ Len(queue) <= 1 /\ queue' = Tail(queue)
        /\ UNCHANGED <<wpc, answer, window>> /\ unheard' = unheard \cup {Head(queue)}
    BY <1>2 DEF Consistent, TypeOK, QueueConsistent, DialogRefused
  <2>2. queue' = << >> /\ Head(queue) = queue[1] /\ 1 \in 1..Len(queue)
    BY <2>1
  <2>3. /\ wpc[Head(queue)] = "recv" /\ answer[Head(queue)] = "none"
        /\ window[Head(queue)] # None => window[Head(queue)].pressed
    BY <2>2 DEF Consistent, QueueConsistent
  <2> QED
    BY <2>1, <2>2, <2>3 DEF Consistent, UnheardConsistent
<1>3. ASSUME NEW c \in Conn, NEW button \in {"yes", "no"}, PressButton(c, button)
      PROVE  UnheardConsistent'
  <2>1. c \notin unheard /\ UNCHANGED <<wpc, queue, unheard>>
    BY <1>3 DEF Consistent, UnheardConsistent, PressButton
  <2>2. \A d \in unheard : answer'[d] = answer[d] /\ window'[d] = window[d]
    BY <1>3, <2>1 DEF Consistent, TypeOK, PressButton
  <2> QED
    BY <2>1, <2>2 DEF Consistent, UnheardConsistent
<1>4. ASSUME NEW c \in Conn, DestroyDialog(c)
      PROVE  UnheardConsistent'
  BY <1>4 DEF Consistent, TypeOK, UnheardConsistent, DestroyDialog
<1>5. CASE MenuLoopDropsMessage
  <2>1. /\ queue \in Seq(Conn) /\ queue # << >> /\ Len(queue) <= 1 /\ queue' = Tail(queue)
        /\ UNCHANGED <<wpc, answer, window, unheard>>
    BY <1>5 DEF Consistent, TypeOK, QueueConsistent, MenuLoopDropsMessage
  <2>2. queue' = << >>
    BY <2>1
  <2> QED
    BY <2>1, <2>2 DEF Consistent, UnheardConsistent
<1>6. CASE \/ MainStarts \/ StartFails \/ OpenMenu \/ CloseMenu \/ CloseBoxMenu \/ ReloadConfig
           \/ ReloadFails \/ DismissError \/ ReloadPoisoned \/ Quit
  <2>1. UNCHANGED <<wpc, answer, queue, window, unheard>>
    BY <1>6 DEF MainStarts, StartFails, OpenMenu, CloseMenu, CloseBoxMenu, ReloadConfig,
                ReloadFails, DismissError, ReloadPoisoned, Quit
  <2> QED
    BY <2>1 DEF Consistent, UnheardConsistent
<1> QED
  BY <1>1, <1>2, <1>3, <1>4, <1>5, <1>6 DEF MainThread

\* Every step of a serving thread keeps the state consistent.
LEMMA ThreadStep ==
  ASSUME Consistent, NEW c \in Conn, Thread(c)
  PROVE  Consistent'
<1>u. UnheardConsistent'
  BY ThreadKeepsUnheard
<1>1. CASE \E r \in Request : ReadRequest(c, r)
  <2>1. TypeOK'
    BY <1>1 DEF Consistent, TypeOK, ReadRequest, Goto
  <2>2. MutexConsistent' /\ ThreadConsistent'
    BY <1>1 DEF Consistent, TypeOK, MutexConsistent, ThreadConsistent, ReadRequest, Goto
  <2>3. AskConsistent' /\ ConsentPerSignature'
    BY <1>1 DEF Consistent, TypeOK, AskConsistent, ConsentPerSignature, EventOf, ReadRequest, Goto
  <2>4. QueueConsistent' /\ WindowConsistent'
    BY <1>1 DEF Consistent, TypeOK, QueueConsistent, WindowConsistent, ReadRequest, Goto
  <2> QED
    BY <1>u, <2>1, <2>2, <2>3, <2>4 DEF Consistent
<1>2. CASE Hangup(c)
  <2>1. TypeOK'
    BY <1>2 DEF Consistent, TypeOK, Hangup, Goto
  <2>2. MutexConsistent' /\ ThreadConsistent'
    BY <1>2 DEF Consistent, TypeOK, MutexConsistent, ThreadConsistent, Hangup, Goto
  <2>3. AskConsistent' /\ ConsentPerSignature'
    BY <1>2 DEF Consistent, TypeOK, AskConsistent, ConsentPerSignature, EventOf, Hangup, Goto
  <2>4. QueueConsistent' /\ WindowConsistent'
    BY <1>2 DEF Consistent, TypeOK, QueueConsistent, WindowConsistent, Hangup, Goto
  <2> QED
    BY <1>u, <2>1, <2>2, <2>3, <2>4 DEF Consistent
<1>3. CASE Acquire(c)
  <2>1. TypeOK'
    BY <1>3 DEF Consistent, TypeOK, Acquire, Goto
  <2>2. MutexConsistent' /\ ThreadConsistent'
    BY <1>3 DEF Consistent, TypeOK, MutexConsistent, ThreadConsistent, Acquire, Goto
  <2>3. AskConsistent' /\ ConsentPerSignature'
    BY <1>3 DEF Consistent, TypeOK, AskConsistent, ConsentPerSignature, EventOf, Acquire, Goto
  <2>4. QueueConsistent' /\ WindowConsistent'
    BY <1>3 DEF Consistent, TypeOK, QueueConsistent, WindowConsistent, Acquire, Goto
  <2> QED
    BY <1>u, <2>1, <2>2, <2>3, <2>4 DEF Consistent
<1>4. CASE AcquirePoisoned(c)
  <2>1. TypeOK'
    BY <1>4 DEF Consistent, TypeOK, AcquirePoisoned, Goto, Forget
  <2>2. MutexConsistent' /\ ThreadConsistent'
    BY <1>4 DEF Consistent, TypeOK, MutexConsistent, ThreadConsistent, AcquirePoisoned, Goto, Forget
  <2>3. AskConsistent' /\ ConsentPerSignature'
    BY <1>4 DEF Consistent, TypeOK, AskConsistent, ConsentPerSignature, EventOf,
                AcquirePoisoned, Goto, Forget
  <2>4. QueueConsistent' /\ WindowConsistent'
    BY <1>4 DEF Consistent, TypeOK, QueueConsistent, WindowConsistent, AcquirePoisoned, Goto, Forget
  <2> QED
    BY <1>u, <2>1, <2>2, <2>3, <2>4 DEF Consistent
<1>5. CASE RequestIdentities(c)
  <2>1. TypeOK'
    BY <1>5 DEF Consistent, TypeOK, RequestIdentities, Respond, Goto
  <2>2. MutexConsistent' /\ ThreadConsistent'
    BY <1>5 DEF Consistent, TypeOK, MutexConsistent, ThreadConsistent,
                RequestIdentities, Respond, Goto
  <2>3. AskConsistent' /\ ConsentPerSignature'
    BY <1>5 DEF Consistent, TypeOK, AskConsistent, ConsentPerSignature, EventOf,
                RequestIdentities, Respond, Goto
  <2>4. QueueConsistent' /\ WindowConsistent'
    BY <1>5 DEF Consistent, TypeOK, QueueConsistent, WindowConsistent,
                RequestIdentities, Respond, Goto
  <2> QED
    BY <1>u, <2>1, <2>2, <2>3, <2>4 DEF Consistent
<1>6. CASE AddIdentity(c)
  <2>0. PICK r \in Responses : Respond(c, "handle", r)
    BY <1>6 DEF AddIdentity
  <2>k. keys' \in SUBSET Key
    <3>1. keys \in SUBSET Key /\ req[c].key \in Key
      BY <1>6 DEF Consistent, TypeOK, ThreadConsistent, AddIdentity
    <3> QED
      BY <1>6, <3>1 DEF AddIdentity
  <2>1. TypeOK'
    BY <1>6, <2>0, <2>k DEF Consistent, TypeOK, AddIdentity, Respond, Goto
  <2>2. MutexConsistent' /\ ThreadConsistent'
    BY <1>6, <2>0 DEF Consistent, TypeOK, MutexConsistent, ThreadConsistent,
                      AddIdentity, Respond, Goto
  <2>3. AskConsistent' /\ ConsentPerSignature'
    BY <1>6, <2>0 DEF Consistent, TypeOK, AskConsistent, ConsentPerSignature, EventOf,
                      AddIdentity, Respond, Goto
  <2>4. QueueConsistent' /\ WindowConsistent'
    BY <1>6, <2>0 DEF Consistent, TypeOK, QueueConsistent, WindowConsistent,
                      AddIdentity, Respond, Goto
  <2> QED
    BY <1>u, <2>1, <2>2, <2>3, <2>4 DEF Consistent
<1>7. CASE Reject(c)
  <2>1. TypeOK'
    BY <1>7 DEF Consistent, TypeOK, Reject, Respond, Goto
  <2>2. MutexConsistent' /\ ThreadConsistent'
    BY <1>7 DEF Consistent, TypeOK, MutexConsistent, ThreadConsistent, Reject, Respond, Goto
  <2>3. AskConsistent' /\ ConsentPerSignature'
    BY <1>7 DEF Consistent, TypeOK, AskConsistent, ConsentPerSignature, EventOf,
                Reject, Respond, Goto
  <2>4. QueueConsistent' /\ WindowConsistent'
    BY <1>7 DEF Consistent, TypeOK, QueueConsistent, WindowConsistent, Reject, Respond, Goto
  <2> QED
    BY <1>u, <2>1, <2>2, <2>3, <2>4 DEF Consistent
<1>8. CASE AskConfirmation(c)
  <2>1. TypeOK'
    BY <1>8 DEF Consistent, TypeOK, AskConfirmation, Goto
  <2>2. MutexConsistent' /\ ThreadConsistent'
    BY <1>8 DEF Consistent, TypeOK, MutexConsistent, ThreadConsistent, AskConfirmation, Goto
  <2>3. AskConsistent' /\ ConsentPerSignature'
    BY <1>8 DEF Consistent, TypeOK, MutexConsistent, ThreadConsistent, AskConsistent,
                ConsentPerSignature, EventOf, AskConfirmation, Goto
  \* The mutex is held by c, so no other thread waits for an answer.
  <2>4. queue = << >>
    BY <1>8 DEF Consistent, TypeOK, MutexConsistent, QueueConsistent, AskConfirmation, Goto
  <2>5. queue' = <<c>>
    BY <1>8, <2>4 DEF AskConfirmation
  <2>6. QueueConsistent'
    BY <1>8, <2>5 DEF Consistent, TypeOK, ThreadConsistent, QueueConsistent, WindowConsistent,
                      AskConfirmation, Goto
  <2>7. WindowConsistent'
    BY <1>8 DEF Consistent, TypeOK, WindowConsistent, AskConfirmation, Goto
  <2> QED
    BY <1>u, <2>1, <2>2, <2>3, <2>6, <2>7 DEF Consistent
<1>9. CASE HandlerPanics(c)
  <2>0. keys' \in SUBSET Key
    <3>1. keys \in SUBSET Key /\ req[c].key \in Key
      BY <1>9 DEF Consistent, TypeOK, ThreadConsistent, HandlerPanics, Goto
    <3>2. keys' = keys \/ keys' = keys \cup {req[c].key}
      BY <1>9 DEF HandlerPanics
    <3> QED
      BY <3>1, <3>2
  <2>1. TypeOK'
    BY <1>9, <2>0 DEF Consistent, TypeOK, HandlerPanics, Goto, Forget
  <2>2. MutexConsistent' /\ ThreadConsistent'
    BY <1>9 DEF Consistent, TypeOK, MutexConsistent, ThreadConsistent, HandlerPanics, Goto, Forget
  <2>3. AskConsistent' /\ ConsentPerSignature'
    BY <1>9 DEF Consistent, TypeOK, MutexConsistent, AskConsistent, ConsentPerSignature, EventOf,
                HandlerPanics, Goto, Forget
  <2>4. QueueConsistent' /\ WindowConsistent'
    BY <1>9 DEF Consistent, TypeOK, QueueConsistent, WindowConsistent, HandlerPanics, Goto, Forget
  <2> QED
    BY <1>u, <2>1, <2>2, <2>3, <2>4 DEF Consistent
<1>10. CASE ReturnFromAsk(c)
  <2>0. /\ window' \in [Conn -> Window \cup {None}]
        /\ \A d \in Conn : d # c => window'[d] = window[d]
        /\ window'[c] # None => /\ window[c] # None
                                /\ window'[c].pressed = window[c].pressed
                                /\ window'[c].linked = FALSE
    <3>1. CASE window[c] = None
      BY <1>10, <3>1 DEF Consistent, TypeOK, ReturnFromAsk, Unlink
    <3>2. CASE window[c] # None
      <4>0. window[c] \in Window
        BY <3>2 DEF Consistent, TypeOK
      <4>1. [window[c] EXCEPT !.linked = FALSE] \in Window
        BY <4>0
      <4>2. window' = [window EXCEPT ![c] = [window[c] EXCEPT !.linked = FALSE]]
        BY <1>10, <3>2 DEF Consistent, TypeOK, ReturnFromAsk, Unlink
      <4>3. window' \in [Conn -> Window \cup {None}]
        BY <4>1, <4>2 DEF Consistent, TypeOK
      <4>4. window'[c] = [window[c] EXCEPT !.linked = FALSE]
        BY <4>2 DEF Consistent, TypeOK
      <4>5. \A d \in Conn : d # c => window'[d] = window[d]
        BY <4>2 DEF Consistent, TypeOK
      <4> QED
        BY <3>2, <4>0, <4>3, <4>4, <4>5
    <3> QED
      BY <3>1, <3>2
  <2>1. TypeOK'
    BY <1>10, <2>0 DEF Consistent, TypeOK, ReturnFromAsk, Goto
  <2>2. MutexConsistent' /\ ThreadConsistent'
    BY <1>10 DEF Consistent, TypeOK, MutexConsistent, ThreadConsistent, ReturnFromAsk, Goto
  <2>3. AskConsistent' /\ ConsentPerSignature'
    BY <1>10 DEF Consistent, TypeOK, AskConsistent, ConsentPerSignature, EventOf,
                 ReturnFromAsk, Goto
  <2>4. QueueConsistent'
    BY <1>10, <2>0 DEF Consistent, TypeOK, QueueConsistent, ReturnFromAsk, Goto
  <2>5. WindowConsistent'
    BY <1>10, <2>0 DEF Consistent, TypeOK, WindowConsistent, ReturnFromAsk, Goto
  <2> QED
    BY <1>u, <2>1, <2>2, <2>3, <2>4, <2>5 DEF Consistent
<1>11. CASE Conclude(c)
  <2>0. PICK r \in Responses : Respond(c, "decided", r)
    BY <1>11 DEF Conclude
  <2>1. EventOf(c) \in Event
    BY <1>11 DEF Consistent, TypeOK, ThreadConsistent, Conclude, EventOf
  <2>2. signed' = signed \/ (answer[c] = "yes" /\ signed' = signed \cup {EventOf(c)})
    BY <1>11 DEF Conclude
  <2>3. TypeOK'
    BY <1>11, <2>0, <2>1, <2>2 DEF Consistent, TypeOK, Conclude, Respond, Goto
  <2>4. MutexConsistent' /\ ThreadConsistent'
    BY <1>11, <2>0 DEF Consistent, TypeOK, MutexConsistent, ThreadConsistent,
                       Conclude, Respond, Goto
  \* A Yes of the thread stands for an approval of this very request.
  <2>5. AskConsistent' /\ ConsentPerSignature'
    BY <1>11, <2>0, <2>2 DEF Consistent, TypeOK, AskConsistent, ConsentPerSignature, EventOf,
                             Conclude, Respond, Goto
  <2>6. QueueConsistent' /\ WindowConsistent'
    BY <1>11, <2>0 DEF Consistent, TypeOK, QueueConsistent, WindowConsistent,
                       Conclude, Respond, Goto
  <2> QED
    BY <1>u, <2>3, <2>4, <2>5, <2>6 DEF Consistent
<1>12. CASE WriteResponse(c)
  <2>0. PICK there \in {"read", "closed"} : Goto(c, "write", there)
    BY <1>12 DEF WriteResponse
  <2>1. TypeOK'
    BY <1>12, <2>0 DEF Consistent, TypeOK, WriteResponse, Goto, Forget
  <2>2. MutexConsistent' /\ ThreadConsistent'
    BY <1>12, <2>0 DEF Consistent, TypeOK, MutexConsistent, ThreadConsistent,
                       WriteResponse, Goto, Forget
  <2>3. AskConsistent' /\ ConsentPerSignature'
    BY <1>12, <2>0 DEF Consistent, TypeOK, AskConsistent, ConsentPerSignature, EventOf,
                       WriteResponse, Goto, Forget
  <2>4. QueueConsistent' /\ WindowConsistent'
    BY <1>12, <2>0 DEF Consistent, TypeOK, QueueConsistent, WindowConsistent,
                       WriteResponse, Goto, Forget
  <2> QED
    BY <1>u, <2>1, <2>2, <2>3, <2>4 DEF Consistent
<1>13. CASE AskUnheard(c)
  <2>1. TypeOK'
    BY <1>13 DEF Consistent, TypeOK, AskUnheard, Goto
  <2>2. MutexConsistent' /\ ThreadConsistent'
    BY <1>13 DEF Consistent, TypeOK, MutexConsistent, ThreadConsistent, AskUnheard, Goto
  <2>3. AskConsistent' /\ ConsentPerSignature'
    BY <1>13 DEF Consistent, TypeOK, MutexConsistent, ThreadConsistent, AskConsistent,
                 ConsentPerSignature, EventOf, AskUnheard, Goto
  <2>4. QueueConsistent' /\ WindowConsistent'
    BY <1>13 DEF Consistent, TypeOK, QueueConsistent, WindowConsistent, AskUnheard, Goto
  <2> QED
    BY <1>u, <2>1, <2>2, <2>3, <2>4 DEF Consistent
<1> QED
  BY <1>1, <1>2, <1>3, <1>4, <1>5, <1>6, <1>7, <1>8, <1>9, <1>10, <1>11, <1>12, <1>13 DEF Thread

\* Every step of the main thread, and of the user in front of it, does too.
LEMMA MainStep ==
  ASSUME Consistent, MainThread
  PROVE  Consistent'
<1>u. UnheardConsistent'
  BY MainKeepsUnheard
<1>1. CASE ShowConfirmation
  <2> DEFINE c == Head(queue)
             shown == [key |-> req[c].key, no |-> served[c], linked |-> TRUE, pressed |-> FALSE]
  <2>1. c \in Conn /\ c = queue[1] /\ 1 \in 1..Len(queue)
    BY <1>1 DEF Consistent, TypeOK, ShowConfirmation
  \* The thread that posted the message is waiting: what its pointer leads to is there.
  <2>2. wpc[c] = "recv" /\ answer[c] = "none"
    BY <2>1 DEF Consistent, QueueConsistent
  <2>3. shown \in Window
    BY <2>1, <2>2 DEF Consistent, TypeOK, ThreadConsistent
  <2>4. window' = [window EXCEPT ![c] = shown] /\ queue' = << >>
    <3>1. queue' = Tail(queue) /\ Len(queue) <= 1 /\ queue # << >> /\ queue \in Seq(Conn)
      BY <1>1 DEF Consistent, TypeOK, QueueConsistent, ShowConfirmation
    <3>2. queue' = << >>
      BY <3>1
    <3> QED
      BY <1>1, <3>2 DEF ShowConfirmation
  <2> HIDE DEF c
  <2>5. window' \in [Conn -> Window \cup {None}]
    BY <2>3, <2>4 DEF Consistent, TypeOK
  <2>6. TypeOK'
    BY <1>1, <2>4, <2>5 DEF Consistent, TypeOK, ShowConfirmation
  <2>7. MutexConsistent' /\ ThreadConsistent'
    BY <1>1 DEF Consistent, MutexConsistent, ThreadConsistent, ShowConfirmation
  <2>8. AskConsistent' /\ ConsentPerSignature'
    BY <1>1 DEF Consistent, AskConsistent, ConsentPerSignature, EventOf, ShowConfirmation
  <2>9. QueueConsistent'
    BY <2>4 DEF QueueConsistent
  <2>10. WindowConsistent'
    BY <1>1, <2>1, <2>2, <2>4 DEF Consistent, TypeOK, WindowConsistent, ShowConfirmation
  <2> QED
    BY <1>u, <2>6, <2>7, <2>8, <2>9, <2>10 DEF Consistent
<1>2. ASSUME NEW c \in Conn, NEW button \in {"yes", "no"}, PressButton(c, button)
      PROVE  Consistent'
  <2>1. window[c] \in Window /\ [window[c] EXCEPT !.pressed = TRUE] \in Window
    BY <1>2 DEF Consistent, TypeOK, PressButton
  <2>2. window' = [window EXCEPT ![c] = [window[c] EXCEPT !.pressed = TRUE]]
    BY <1>2 DEF PressButton
  <2>3. /\ window' \in [Conn -> Window \cup {None}]
        /\ window'[c] = [window[c] EXCEPT !.pressed = TRUE]
        /\ \A d \in Conn : d # c => window'[d] = window[d]
    BY <2>1, <2>2 DEF Consistent, TypeOK
  <2>4. approved' \in SUBSET Event /\ approved \subseteq approved'
    BY <1>2, <2>1 DEF Consistent, TypeOK, PressButton
  <2>5. TypeOK'
    BY <1>2, <2>3, <2>4 DEF Consistent, TypeOK, PressButton
  \* A dialog that can be clicked shows the request its thread waits for.
  <2>6. /\ wpc[c] = "recv" /\ answer[c] = "none"
        /\ window[c].no = served[c] /\ window[c].key = req[c].key
    BY <1>2 DEF Consistent, WindowConsistent, PressButton
  <2>7. MutexConsistent' /\ ThreadConsistent'
    BY <1>2, <2>6 DEF Consistent, TypeOK, MutexConsistent, ThreadConsistent, PressButton
  <2>8. AskConsistent' /\ ConsentPerSignature'
    BY <1>2, <2>4, <2>6 DEF Consistent, TypeOK, AskConsistent, ConsentPerSignature, EventOf,
                            PressButton
  <2>9. QueueConsistent'
    BY <1>2, <2>3 DEF Consistent, TypeOK, QueueConsistent, PressButton
  <2>10. WindowConsistent'
    BY <1>2, <2>1, <2>3 DEF Consistent, TypeOK, WindowConsistent, PressButton
  <2> QED
    BY <1>u, <2>5, <2>7, <2>8, <2>9, <2>10 DEF Consistent
<1>3. ASSUME NEW c \in Conn, DestroyDialog(c)
      PROVE  Consistent'
  <2>1. TypeOK'
    BY <1>3 DEF Consistent, TypeOK, DestroyDialog
  <2>2. MutexConsistent' /\ ThreadConsistent'
    BY <1>3 DEF Consistent, TypeOK, MutexConsistent, ThreadConsistent, DestroyDialog
  <2>3. AskConsistent' /\ ConsentPerSignature'
    BY <1>3 DEF Consistent, AskConsistent, ConsentPerSignature, EventOf, DestroyDialog
  <2>4. QueueConsistent' /\ WindowConsistent'
    BY <1>3 DEF Consistent, TypeOK, QueueConsistent, WindowConsistent, DestroyDialog
  <2> QED
    BY <1>u, <2>1, <2>2, <2>3, <2>4 DEF Consistent
<1>4. CASE OpenMenu
  <2>1. TypeOK'
    BY <1>4 DEF Consistent, TypeOK, OpenMenu
  <2>2. MutexConsistent' /\ ThreadConsistent'
    BY <1>4 DEF Consistent, TypeOK, MutexConsistent, ThreadConsistent, OpenMenu
  <2>3. AskConsistent' /\ ConsentPerSignature'
    BY <1>4 DEF Consistent, AskConsistent, ConsentPerSignature, EventOf, OpenMenu
  <2>4. QueueConsistent' /\ WindowConsistent'
    BY <1>4 DEF Consistent, TypeOK, QueueConsistent, WindowConsistent, OpenMenu
  <2> QED
    BY <1>u, <2>1, <2>2, <2>3, <2>4 DEF Consistent
<1>5. CASE MenuLoopDropsMessage
  <2>1. TypeOK'
    BY <1>5 DEF Consistent, TypeOK, MenuLoopDropsMessage
  <2>2. MutexConsistent' /\ ThreadConsistent'
    BY <1>5 DEF Consistent, TypeOK, MutexConsistent, ThreadConsistent, MenuLoopDropsMessage
  <2>3. AskConsistent' /\ ConsentPerSignature'
    BY <1>5 DEF Consistent, AskConsistent, ConsentPerSignature, EventOf, MenuLoopDropsMessage
  <2>4. QueueConsistent' /\ WindowConsistent'
    BY <1>5 DEF Consistent, TypeOK, QueueConsistent, WindowConsistent, MenuLoopDropsMessage
  <2> QED
    BY <1>u, <2>1, <2>2, <2>3, <2>4 DEF Consistent
<1>6. CASE CloseMenu
  <2>1. TypeOK'
    BY <1>6 DEF Consistent, TypeOK, CloseMenu
  <2>2. MutexConsistent' /\ ThreadConsistent'
    BY <1>6 DEF Consistent, TypeOK, MutexConsistent, ThreadConsistent, CloseMenu
  <2>3. AskConsistent' /\ ConsentPerSignature'
    BY <1>6 DEF Consistent, AskConsistent, ConsentPerSignature, EventOf, CloseMenu
  <2>4. QueueConsistent' /\ WindowConsistent'
    BY <1>6 DEF Consistent, TypeOK, QueueConsistent, WindowConsistent, CloseMenu
  <2> QED
    BY <1>u, <2>1, <2>2, <2>3, <2>4 DEF Consistent
<1>7. CASE ReloadConfig
  <2>1. TypeOK'
    BY <1>7 DEF Consistent, TypeOK, ReloadConfig
  <2>2. MutexConsistent' /\ ThreadConsistent'
    BY <1>7 DEF Consistent, TypeOK, MutexConsistent, ThreadConsistent, ReloadConfig
  <2>3. AskConsistent' /\ ConsentPerSignature'
    BY <1>7 DEF Consistent, MutexConsistent, AskConsistent, ConsentPerSignature, EventOf,
        ReloadConfig
  <2>4. QueueConsistent' /\ WindowConsistent'
    BY <1>7 DEF Consistent, TypeOK, QueueConsistent, WindowConsistent, ReloadConfig
  <2> QED
    BY <1>u, <2>1, <2>2, <2>3, <2>4 DEF Consistent
<1>8. CASE ReloadFails
  <2>1. TypeOK'
    BY <1>8 DEF Consistent, TypeOK, ReloadFails
  <2>2. MutexConsistent' /\ ThreadConsistent'
    BY <1>8 DEF Consistent, TypeOK, MutexConsistent, ThreadConsistent, ReloadFails
  <2>3. AskConsistent' /\ ConsentPerSignature'
    BY <1>8 DEF Consistent, AskConsistent, ConsentPerSignature, EventOf, ReloadFails
  <2>4. QueueConsistent' /\ WindowConsistent'
    BY <1>8 DEF Consistent, TypeOK, QueueConsistent, WindowConsistent, ReloadFails
  <2> QED
    BY <1>u, <2>1, <2>2, <2>3, <2>4 DEF Consistent
<1>9. CASE DismissError
  <2>1. TypeOK'
    BY <1>9 DEF Consistent, TypeOK, DismissError
  <2>2. MutexConsistent' /\ ThreadConsistent'
    BY <1>9 DEF Consistent, TypeOK, MutexConsistent, ThreadConsistent, DismissError
  <2>3. AskConsistent' /\ ConsentPerSignature'
    BY <1>9 DEF Consistent, AskConsistent, ConsentPerSignature, EventOf, DismissError
  <2>4. QueueConsistent' /\ WindowConsistent'
    BY <1>9 DEF Consistent, TypeOK, QueueConsistent, WindowConsistent, DismissError
  <2> QED
    BY <1>u, <2>1, <2>2, <2>3, <2>4 DEF Consistent
<1>10. CASE ReloadPoisoned
  <2>1. TypeOK'
    BY <1>10 DEF Consistent, TypeOK, ReloadPoisoned
  <2>2. MutexConsistent' /\ ThreadConsistent'
    BY <1>10 DEF Consistent, TypeOK, MutexConsistent, ThreadConsistent, ReloadPoisoned
  <2>3. AskConsistent' /\ ConsentPerSignature'
    BY <1>10 DEF Consistent, AskConsistent, ConsentPerSignature, EventOf, ReloadPoisoned
  <2>4. QueueConsistent' /\ WindowConsistent'
    BY <1>10 DEF Consistent, TypeOK, QueueConsistent, WindowConsistent, ReloadPoisoned
  <2> QED
    BY <1>u, <2>1, <2>2, <2>3, <2>4 DEF Consistent
<1>11. CASE Quit
  <2>1. TypeOK'
    BY <1>11 DEF Consistent, TypeOK, Quit
  <2>2. MutexConsistent' /\ ThreadConsistent'
    BY <1>11 DEF Consistent, TypeOK, MutexConsistent, ThreadConsistent, Quit
  <2>3. AskConsistent' /\ ConsentPerSignature'
    BY <1>11 DEF Consistent, AskConsistent, ConsentPerSignature, EventOf, Quit
  <2>4. QueueConsistent' /\ WindowConsistent'
    BY <1>11 DEF Consistent, TypeOK, QueueConsistent, WindowConsistent, Quit
  <2> QED
    BY <1>u, <2>1, <2>2, <2>3, <2>4 DEF Consistent
<1>12. CASE MainStarts
  <2>1. TypeOK'
    BY <1>12 DEF Consistent, TypeOK, MainStarts
  <2>2. MutexConsistent' /\ ThreadConsistent'
    BY <1>12 DEF Consistent, TypeOK, MutexConsistent, ThreadConsistent, MainStarts
  <2>3. AskConsistent' /\ ConsentPerSignature'
    BY <1>12 DEF Consistent, AskConsistent, ConsentPerSignature, EventOf, MainStarts
  <2>4. QueueConsistent' /\ WindowConsistent'
    BY <1>12 DEF Consistent, TypeOK, QueueConsistent, WindowConsistent, MainStarts
  <2> QED
    BY <1>u, <2>1, <2>2, <2>3, <2>4 DEF Consistent
<1>13. CASE StartFails
  <2>1. TypeOK'
    BY <1>13 DEF Consistent, TypeOK, StartFails
  <2>2. MutexConsistent' /\ ThreadConsistent'
    BY <1>13 DEF Consistent, TypeOK, MutexConsistent, ThreadConsistent, StartFails
  <2>3. AskConsistent' /\ ConsentPerSignature'
    BY <1>13 DEF Consistent, AskConsistent, ConsentPerSignature, EventOf, StartFails
  <2>4. QueueConsistent' /\ WindowConsistent'
    BY <1>13 DEF Consistent, TypeOK, QueueConsistent, WindowConsistent, StartFails
  <2> QED
    BY <1>u, <2>1, <2>2, <2>3, <2>4 DEF Consistent
<1>14. CASE CloseBoxMenu
  <2>1. TypeOK'
    BY <1>14 DEF Consistent, TypeOK, CloseBoxMenu
  <2>2. MutexConsistent' /\ ThreadConsistent'
    BY <1>14 DEF Consistent, TypeOK, MutexConsistent, ThreadConsistent, CloseBoxMenu
  <2>3. AskConsistent' /\ ConsentPerSignature'
    BY <1>14 DEF Consistent, AskConsistent, ConsentPerSignature, EventOf, CloseBoxMenu
  <2>4. QueueConsistent' /\ WindowConsistent'
    BY <1>14 DEF Consistent, TypeOK, QueueConsistent, WindowConsistent, CloseBoxMenu
  <2> QED
    BY <1>u, <2>1, <2>2, <2>3, <2>4 DEF Consistent
<1>15. CASE DialogRefused
  <2>1. queue \in Seq(Conn) /\ queue # << >> /\ queue' = Tail(queue) /\ Len(queue) <= 1
    BY <1>15 DEF Consistent, TypeOK, QueueConsistent, DialogRefused
  <2>2. queue' = << >> /\ Head(queue) \in Conn
    BY <2>1
  <2>3. TypeOK'
    BY <1>15, <2>2 DEF Consistent, TypeOK, DialogRefused
  <2>4. MutexConsistent' /\ ThreadConsistent'
    BY <1>15 DEF Consistent, TypeOK, MutexConsistent, ThreadConsistent, DialogRefused
  <2>5. AskConsistent' /\ ConsentPerSignature'
    BY <1>15 DEF Consistent, AskConsistent, ConsentPerSignature, EventOf, DialogRefused
  <2>6. QueueConsistent' /\ WindowConsistent'
    BY <1>15, <2>2 DEF Consistent, TypeOK, QueueConsistent, WindowConsistent, DialogRefused
  <2> QED
    BY <1>u, <2>3, <2>4, <2>5, <2>6 DEF Consistent
<1> QED
  BY <1>1, <1>2, <1>3, <1>4, <1>5, <1>6, <1>7, <1>8, <1>9, <1>10, <1>11, <1>12, <1>13,
     <1>14, <1>15 DEF MainThread

\* The invariant: mutex, threads, messages, dialogs and histories agree in every
\* reachable state.
THEOREM StateIsConsistent == Spec => []Consistent
<1>1. Init => Consistent
  BY InitIsConsistent
<1>2. Consistent /\ [Next]_vars => Consistent'
  <2> SUFFICES ASSUME Consistent, [Next]_vars PROVE Consistent'
    OBVIOUS
  <2>1. CASE \E c \in Conn : Thread(c)
    BY <2>1, ThreadStep
  <2>2. CASE MainThread
    BY <2>2, MainStep
  <2>3. CASE UNCHANGED vars
    BY <2>3 DEF vars, Consistent, TypeOK, MutexConsistent, ThreadConsistent, AskConsistent,
                QueueConsistent, WindowConsistent, UnheardConsistent,
                ConsentPerSignature, EventOf
  <2> QED
    BY <2>1, <2>2, <2>3 DEF Next, Finished
<1> QED
  BY <1>1, <1>2, PTL DEF Spec

\* Every variable stays within its type.
THEOREM TypeCorrect == Spec => []TypeOK
<1>1. Consistent => TypeOK
  BY DEF Consistent
<1> QED
  BY <1>1, StateIsConsistent, PTL

\* No signature without a Yes to a dialog that showed that request and key.
THEOREM Consent == Spec => []ConsentPerSignature
<1>1. Consistent => ConsentPerSignature
  BY DEF Consistent
<1> QED
  BY <1>1, StateIsConsistent, PTL

\* The key of a pending confirmation stays in memory, whatever Reload does.
THEOREM KeyIsHeld == Spec => []KeyHeldWhileConfirming
<1>1. Consistent => KeyHeldWhileConfirming
  BY DEF Consistent, AskConsistent, KeyHeldWhileConfirming
<1> QED
  BY <1>1, StateIsConsistent, PTL

\* No message or dialog refers to a Confirmation that is gone.
THEOREM PointersAreLive == Spec => []PointerIsLive
<1>1. Consistent => PointerIsLive
  BY DEF Consistent, QueueConsistent, WindowConsistent, PointerIsLive
<1> QED
  BY <1>1, StateIsConsistent, PTL

\* The user is asked one thing at a time, by the thread that holds the mutex.
THEOREM OneAtATime == Spec => []OneConfirmation
<1>1. Consistent => OneConfirmation
  BY DEF Consistent, MutexConsistent, QueueConsistent, WindowConsistent, OneConfirmation
<1> QED
  BY <1>1, StateIsConsistent, PTL

\* After a panic under the mutex nothing is signed, added or newly answered.
THEOREM FailStop == Spec => PoisonIsFailStop
<1> DEFINE Stopped == poisoned => /\ signed' = signed
                                  /\ keys' = keys
                                  /\ \A c \in Conn : resp'[c] \in {resp[c], None}
<1>1. Consistent /\ [Next]_vars => [Stopped]_vars
  <2> SUFFICES ASSUME Consistent, Next, poisoned
               PROVE  /\ signed' = signed
                      /\ keys' = keys
                      /\ \A c \in Conn : resp'[c] \in {resp[c], None}
    OBVIOUS
  \* The mutex is free for good, so no thread is past it.
  <2>1. \A c \in Conn : wpc[c] \notin {"handle", "recv", "decided"}
    BY DEF Consistent, TypeOK, MutexConsistent
  <2>2. CASE \E c \in Conn : Thread(c)
    <3>1. PICK c \in Conn : Thread(c)
      BY <2>2
    <3>2. \/ \E r \in Request : ReadRequest(c, r)
          \/ Hangup(c) \/ AcquirePoisoned(c) \/ WriteResponse(c)
      BY <2>1, <3>1 DEF Thread, Acquire, RequestIdentities, AddIdentity, Reject, AskConfirmation,
          AskUnheard,
                        HandlerPanics, ReturnFromAsk, Conclude, Goto
    <3> QED
      BY <3>2 DEF Consistent, TypeOK, ReadRequest, Hangup, AcquirePoisoned, WriteResponse,
                  Goto, Forget
  <2>3. CASE MainThread
    <3>1. UNCHANGED <<signed, resp>>
      BY <2>3 DEF MainThread, MainStarts, StartFails, ShowConfirmation, DialogRefused,
          PressButton, DestroyDialog, OpenMenu,
                  MenuLoopDropsMessage, CloseMenu, CloseBoxMenu, ReloadConfig, ReloadFails,
                  DismissError,
                  ReloadPoisoned, Quit
    <3>2. UNCHANGED keys
      BY <2>3 DEF MainThread, MainStarts, StartFails, ShowConfirmation, DialogRefused,
          PressButton, DestroyDialog, OpenMenu,
                  MenuLoopDropsMessage, CloseMenu, CloseBoxMenu, ReloadConfig, ReloadFails,
                  DismissError,
                  ReloadPoisoned, Quit
    <3> QED
      BY <3>1, <3>2
  <2>4. CASE Finished
    BY <2>4 DEF Finished, vars
  <2> QED
    BY <2>2, <2>3, <2>4 DEF Next
<1> QED
  BY <1>1, StateIsConsistent, PTL DEF Spec, PoisonIsFailStop

-----------------------------------------------------------------------------
(***************************************************************************)
(* The refinement.                                                         *)
(***************************************************************************)

Phase == [c \in Conn |-> PhaseOf(c)]

\* The moves of a request that ConfirmedSigning allows at any time.
Moves == {<<"idle", "asked">>, <<"asked", "refused">>, <<"consented", "refused">>,
          <<"consented", "signed">>, <<"asked", "idle">>, <<"refused", "idle">>,
          <<"signed", "idle">>}

\* A step that moves the request of c like that, and no other, is abstract.
LEMMA OnePhaseMoves ==
  ASSUME NEW c \in Conn,
         \A d \in Conn : d # c => PhaseOf(d)' = PhaseOf(d),
         <<PhaseOf(c), PhaseOf(c)'>> \in Moves \/ PhaseOf(c)' = PhaseOf(c)
  PROVE  Signing!Next \/ Phase' = Phase
<1>1. Phase' = [Phase EXCEPT ![c] = PhaseOf(c)'] /\ Phase[c] = PhaseOf(c)
  BY DEF Phase
<1>2. CASE PhaseOf(c)' = PhaseOf(c)
  BY <1>1, <1>2 DEF Phase
<1>3. CASE <<PhaseOf(c), PhaseOf(c)'>> \in Moves
  <2>1. Signing!Ask(c) \/ Signing!Refuse(c) \/ Signing!Sign(c) \/ Signing!Close(c)
    BY <1>1, <1>3 DEF Phase, Moves, Signing!Step, Signing!Ask, Signing!Refuse, Signing!Sign,
                      Signing!Close
  <2> QED
    BY <2>1 DEF Signing!Next
<1> QED
  BY <1>2, <1>3

\* What a thread does to its own request, and only to its own.
LEMMA ThreadRefines ==
  ASSUME Consistent, NEW c \in Conn, Thread(c)
  PROVE  Signing!Next \/ Phase' = Phase
<1> USE DEF Consistent, TypeOK, PhaseOf
<1>1. CASE \E r \in Request : ReadRequest(c, r)
  <2>1. \A d \in Conn : d # c => PhaseOf(d)' = PhaseOf(d)
    BY <1>1 DEF ReadRequest, Goto
  <2>2. <<PhaseOf(c), PhaseOf(c)'>> \in {<<"idle", "idle">>, <<"idle", "asked">>}
    BY <1>1 DEF ReadRequest, Goto
  <2> QED
    BY <2>1, <2>2, OnePhaseMoves DEF Moves
<1>2. CASE Hangup(c)
  <2>1. \A d \in Conn : d # c => PhaseOf(d)' = PhaseOf(d)
    BY <1>2 DEF Hangup, Goto
  <2>2. <<PhaseOf(c), PhaseOf(c)'>> \in {<<"idle", "idle">>}
    BY <1>2 DEF Hangup, Goto
  <2> QED
    BY <2>1, <2>2, OnePhaseMoves DEF Moves
<1>3. CASE Acquire(c)
  <2>1. \A d \in Conn : d # c => PhaseOf(d)' = PhaseOf(d)
    BY <1>3 DEF Acquire, Goto
  <2>2. <<PhaseOf(c), PhaseOf(c)'>> \in {<<"idle", "idle">>, <<"asked", "asked">>}
    BY <1>3 DEF Acquire, Goto
  <2> QED
    BY <2>1, <2>2, OnePhaseMoves DEF Moves
<1>4. CASE AcquirePoisoned(c)
  <2>1. \A d \in Conn : d # c => PhaseOf(d)' = PhaseOf(d)
    BY <1>4 DEF AcquirePoisoned, Goto, Forget
  <2>2. <<PhaseOf(c), PhaseOf(c)'>> \in {<<"idle", "idle">>, <<"asked", "idle">>}
    BY <1>4 DEF AcquirePoisoned, Goto, Forget
  <2> QED
    BY <2>1, <2>2, OnePhaseMoves DEF Moves
<1>5. CASE RequestIdentities(c)
  <2>1. \A d \in Conn : d # c => PhaseOf(d)' = PhaseOf(d)
    BY <1>5 DEF RequestIdentities, Respond, Goto
  <2>2. <<PhaseOf(c), PhaseOf(c)'>> \in {<<"idle", "idle">>}
    BY <1>5 DEF RequestIdentities, Respond, Goto
  <2> QED
    BY <2>1, <2>2, OnePhaseMoves DEF Moves
<1>6. CASE AddIdentity(c)
  <2>1. \A d \in Conn : d # c => PhaseOf(d)' = PhaseOf(d)
    BY <1>6 DEF AddIdentity, Respond, Goto
  <2>2. <<PhaseOf(c), PhaseOf(c)'>> \in {<<"idle", "idle">>}
    BY <1>6 DEF AddIdentity, Respond, Goto
  <2> QED
    BY <2>1, <2>2, OnePhaseMoves DEF Moves
<1>7. CASE Reject(c)
  <2>1. \A d \in Conn : d # c => PhaseOf(d)' = PhaseOf(d)
    BY <1>7 DEF Reject, Respond, Goto
  <2>2. <<PhaseOf(c), PhaseOf(c)'>> \in {<<"idle", "idle">>, <<"asked", "refused">>}
    BY <1>7 DEF Reject, Respond, Goto
  <2> QED
    BY <2>1, <2>2, OnePhaseMoves DEF Moves
<1>8. CASE AskConfirmation(c)
  <2>1. \A d \in Conn : d # c => PhaseOf(d)' = PhaseOf(d)
    BY <1>8 DEF AskConfirmation, Goto, ThreadConsistent
  <2>2. <<PhaseOf(c), PhaseOf(c)'>> \in {<<"asked", "asked">>}
    BY <1>8 DEF AskConfirmation, Goto, ThreadConsistent
  <2> QED
    BY <2>1, <2>2, OnePhaseMoves DEF Moves
<1>9. CASE HandlerPanics(c)
  <2>1. \A d \in Conn : d # c => PhaseOf(d)' = PhaseOf(d)
    BY <1>9 DEF HandlerPanics, Goto, Forget
  <2>2. <<PhaseOf(c), PhaseOf(c)'>> \in {<<"idle", "idle">>, <<"asked", "idle">>}
    BY <1>9 DEF HandlerPanics, Goto, Forget
  <2> QED
    BY <2>1, <2>2, OnePhaseMoves DEF Moves
<1>10. CASE ReturnFromAsk(c)
  <2>1. \A d \in Conn : d # c => PhaseOf(d)' = PhaseOf(d)
    BY <1>10 DEF ReturnFromAsk, Goto, AskConsistent
  <2>2. <<PhaseOf(c), PhaseOf(c)'>> \in {<<"consented", "consented">>, <<"refused", "refused">>}
    BY <1>10 DEF ReturnFromAsk, Goto, AskConsistent
  <2> QED
    BY <2>1, <2>2, OnePhaseMoves DEF Moves
<1>11. CASE Conclude(c)
  <2>1. \A d \in Conn : d # c => PhaseOf(d)' = PhaseOf(d)
    BY <1>11 DEF Conclude, Respond, Goto, ThreadConsistent, AskConsistent
  <2>2. <<PhaseOf(c), PhaseOf(c)'>> \in {<<"consented", "signed">>, <<"consented", "refused">>,
  <<"refused", "refused">>}
    BY <1>11 DEF Conclude, Respond, Goto, ThreadConsistent, AskConsistent
  <2> QED
    BY <2>1, <2>2, OnePhaseMoves DEF Moves
<1>12. CASE WriteResponse(c)
  <2>1. \A d \in Conn : d # c => PhaseOf(d)' = PhaseOf(d)
    BY <1>12 DEF WriteResponse, Goto, Forget
  <2>2. <<PhaseOf(c), PhaseOf(c)'>> \in {<<"idle", "idle">>, <<"signed", "idle">>, <<"refused",
  "idle">>}
    BY <1>12 DEF WriteResponse, Goto, Forget
  <2> QED
    BY <2>1, <2>2, OnePhaseMoves DEF Moves
<1>13. CASE AskUnheard(c)
  <2>1. \A d \in Conn : d # c => PhaseOf(d)' = PhaseOf(d)
    BY <1>13 DEF AskUnheard, Goto, ThreadConsistent
  <2>2. <<PhaseOf(c), PhaseOf(c)'>> \in {<<"asked", "asked">>}
    BY <1>13 DEF AskUnheard, Goto, ThreadConsistent
  <2> QED
    BY <2>1, <2>2, OnePhaseMoves DEF Moves
<1> QED
  BY <1>1, <1>2, <1>3, <1>4, <1>5, <1>6, <1>7, <1>8, <1>9, <1>10, <1>11, <1>12, <1>13 DEF Thread

\* Pressing Yes is the consent; the mutex sees to it that no other is outstanding.
LEMMA MainRefines ==
  ASSUME Consistent, MainThread
  PROVE  Signing!Next \/ Phase' = Phase
<1>1. ASSUME NEW c \in Conn, NEW button \in {"yes", "no"}, PressButton(c, button)
      PROVE  Signing!Next \/ Phase' = Phase
  <2>1. wpc[c] = "recv" /\ answer[c] = "none" /\ req[c].op = "SIGN_REQUEST"
    BY <1>1 DEF Consistent, WindowConsistent, AskConsistent, PressButton
  <2>2. /\ \A d \in Conn : d # c => PhaseOf(d)' = PhaseOf(d)
        /\ PhaseOf(c) = "asked"
        /\ PhaseOf(c)' = IF button = "yes" THEN "consented" ELSE "refused"
    BY <1>1, <2>1 DEF Consistent, TypeOK, PhaseOf, PressButton
  <2>3. CASE button = "no"
    BY <2>2, <2>3, OnePhaseMoves DEF Moves
  <2>4. CASE button = "yes"
    \* A consented request holds the mutex, and so does c.
    <3>1. \A d \in Conn : PhaseOf(d) # "consented"
      BY <2>1 DEF Consistent, TypeOK, MutexConsistent, PhaseOf
    <3>2. Phase' = [Phase EXCEPT ![c] = "consented"] /\ Phase[c] = "asked"
      BY <2>2, <2>4 DEF Phase
    <3>3. Signing!Consent(c)
      BY <3>1, <3>2 DEF Phase, Signing!Consent, Signing!Step
    <3> QED
      BY <3>3 DEF Signing!Next
  <2> QED
    BY <2>3, <2>4
<1>2. CASE \/ MainStarts \/ StartFails \/ ShowConfirmation \/ DialogRefused
           \/ \E c \in Conn : DestroyDialog(c)
           \/ OpenMenu \/ MenuLoopDropsMessage \/ CloseMenu \/ CloseBoxMenu \/ ReloadConfig
           \/ ReloadFails \/ DismissError \/ ReloadPoisoned \/ Quit
  <2>1. UNCHANGED <<wpc, req, resp, answer>>
    BY <1>2 DEF MainStarts, StartFails, ShowConfirmation, DialogRefused, DestroyDialog, OpenMenu,
        MenuLoopDropsMessage, CloseMenu, CloseBoxMenu,
                ReloadConfig, ReloadFails, DismissError, ReloadPoisoned, Quit
  <2> QED
    BY <2>1 DEF Phase, PhaseOf
<1> QED
  BY <1>1, <1>2 DEF MainThread

\* The agent implements ConfirmedSigning: every sign request is consented to or
\* refused, and signed only after its own consent.
THEOREM ImplementsConfirmedSigning == Spec => SigningIsConfirmed
<1>1. Init => Signing!Init
  BY DEF Init, Signing!Init, PhaseOf
<1>2. Consistent /\ [Next]_vars => [Signing!Next]_Phase
  <2> SUFFICES ASSUME Consistent, [Next]_vars PROVE Signing!Next \/ Phase' = Phase
    OBVIOUS
  <2>1. CASE UNCHANGED vars
    BY <2>1 DEF vars, Phase, PhaseOf
  <2> QED
    BY <2>1, ThreadRefines, MainRefines DEF Next, Finished
<1> QED
  BY <1>1, <1>2, StateIsConsistent, PTL DEF Spec, SigningIsConfirmed, Signing!Spec, Phase

-----------------------------------------------------------------------------
\* A thread that reads asks, one whose request is done serves, and one that has
\* written its response or dies returns or gives up.
LEMMA ThreadIsAtomic ==
  ASSUME Consistent, NEW c \in Conn, Thread(c)
  PROVE  \/ \E r \in Request : Atomic!Ask(c, r)
         \/ Atomic!Serve(c) \/ Atomic!Return(c) \/ Atomic!GiveUp(c)
         \/ UNCHANGED Atomic!vars
<1> USE DEF Consistent, stages
<1>t. wpc \in [Conn -> {"read", "lock", "handle", "recv", "decided", "write", "closed"}]
  BY DEF TypeOK
<1>1. ASSUME NEW r \in Request, ReadRequest(c, r)
      PROVE  Atomic!Ask(c, r)
  BY <1>t, <1>1 DEF ReadRequest, Goto, StageOf, agentVars, Atomic!Ask
<1>2. CASE \/ Hangup(c) \/ Acquire(c) \/ AskConfirmation(c) \/ AskUnheard(c)
           \/ ReturnFromAsk(c)
  <2>1. UNCHANGED <<keys, req, resp>>
    BY <1>2 DEF Hangup, Acquire, AskConfirmation, AskUnheard, ReturnFromAsk, agentVars
  <2>2. UNCHANGED stages
    BY <1>t, <1>2 DEF Hangup, Acquire, AskConfirmation, AskUnheard, ReturnFromAsk, Goto, StageOf
  <2> QED
    BY <2>1, <2>2 DEF Atomic!vars
<1>3. CASE AcquirePoisoned(c) \/ HandlerPanics(c)
  <2>1. stages[c] = "waiting" /\ stages' = [stages EXCEPT ![c] = "idle"]
    BY <1>t, <1>3 DEF AcquirePoisoned, HandlerPanics, Goto, StageOf
  <2>2. Forget(c) /\ keys' \in {keys, AfterRequest(req[c], keys)}
    BY <1>3 DEF AcquirePoisoned, HandlerPanics, AfterRequest, agentVars
  <2>3. Atomic!GiveUp(c)
    BY <2>1, <2>2 DEF Forget, Atomic!GiveUp
  <2> QED
    BY <2>3
<1>4. CASE RequestIdentities(c) \/ AddIdentity(c) \/ Reject(c) \/ Conclude(c)
  <2>1. stages[c] = "waiting" /\ stages' = [stages EXCEPT ![c] = "served"] /\ UNCHANGED req
    BY <1>t, <1>4 DEF RequestIdentities, AddIdentity, Reject, Conclude, Respond, Goto, StageOf
  <2>2. keys' = AfterRequest(req[c], keys)
    BY <1>4 DEF RequestIdentities, AddIdentity, Reject, Conclude, AskConsistent, AfterRequest
  <2>3. \E ok \in BOOLEAN : resp' = [resp EXCEPT ![c] = Outcome(req[c], keys, ok)]
    <3>1. CASE RequestIdentities(c) \/ Reject(c)
      BY <3>1 DEF RequestIdentities, Reject, Respond, Outcome
    <3>2. CASE AddIdentity(c)
      <4>1. \/ resp' = [resp EXCEPT ![c] = "SUCCESS"]
            \/ req[c].key \notin keys /\ resp' = [resp EXCEPT ![c] = "FAILURE"]
        BY <3>2 DEF AddIdentity, Respond
      <4>2. Outcome(req[c], keys, TRUE) = "SUCCESS"
        BY <3>2 DEF AddIdentity, Outcome
      <4>3. req[c].key \notin keys => Outcome(req[c], keys, FALSE) = "FAILURE"
        BY <3>2 DEF AddIdentity, Outcome
      <4> QED
        BY <4>1, <4>2, <4>3
    \* The key that was looked up before the user was asked is still there.
    <3>3. CASE Conclude(c)
      <4>1. req[c].op = "SIGN_REQUEST" /\ req[c].key \in keys
        BY <3>3 DEF Conclude, AskConsistent
      <4>2. /\ Outcome(req[c], keys, TRUE) = "SIGN_RESPONSE"
            /\ Outcome(req[c], keys, FALSE) = "FAILURE"
        BY <4>1 DEF Outcome
      <4>3. \/ resp' = [resp EXCEPT ![c] = "SIGN_RESPONSE"]
            \/ resp' = [resp EXCEPT ![c] = "FAILURE"]
        BY <3>3 DEF Conclude, Respond
      <4> QED
        BY <4>2, <4>3
    <3> QED
      BY <1>4, <3>1, <3>2, <3>3
  <2>4. Atomic!Serve(c)
    BY <2>1, <2>2, <2>3 DEF Atomic!Serve
  <2> QED
    BY <2>4
<1>5. CASE WriteResponse(c)
  <2>1. stages[c] = "served" /\ stages' = [stages EXCEPT ![c] = "idle"]
    BY <1>t, <1>5 DEF WriteResponse, Goto, StageOf
  <2>2. Forget(c) /\ UNCHANGED keys
    BY <1>5 DEF WriteResponse, agentVars
  <2>3. Atomic!Return(c)
    BY <2>1, <2>2 DEF Forget, Atomic!Return
  <2> QED
    BY <2>3
<1> QED
  BY <1>1, <1>2, <1>3, <1>4, <1>5 DEF Thread

\* Only Reload changes anything on the main thread that connections can see.
LEMMA MainIsAtomic ==
  ASSUME MainThread
  PROVE  Atomic!Interfere \/ UNCHANGED Atomic!vars
<1>1. UNCHANGED <<wpc, req, resp>> /\ (keys' \in SUBSET Key \/ UNCHANGED keys)
  BY DEF MainThread, MainStarts, StartFails, ShowConfirmation, DialogRefused, PressButton,
      DestroyDialog, OpenMenu,
         MenuLoopDropsMessage, CloseMenu, CloseBoxMenu, ReloadConfig, ReloadFails, DismissError,
         ReloadPoisoned, Quit, threadVars, agentVars
<1>2. UNCHANGED stages
  BY <1>1 DEF stages, StageOf
<1> QED
  BY <1>1, <1>2 DEF Atomic!Interfere, Atomic!vars

\* connection_handler and handle_request, with ask_confirmation in between: a
\* request takes effect in one step, and its response is the one for the keys of
\* that step, although the key was looked up before the user was asked.
THEOREM ServiceIsAtomic == Spec => RequestsAreAtomic
<1>1. Init => Atomic!Init
  BY DEF Init, Atomic!Init, stages, StageOf
<1>2. Consistent /\ [Next]_vars =>
        [Atomic!Next \/ \E c \in Conn : Atomic!Return(c) \/ Atomic!GiveUp(c)]_(Atomic!vars)
  <2> SUFFICES ASSUME Consistent, [Next]_vars
               PROVE  \/ Atomic!Next \/ \E c \in Conn : Atomic!Return(c) \/ Atomic!GiveUp(c)
                      \/ UNCHANGED Atomic!vars
    OBVIOUS
  <2>1. CASE UNCHANGED vars
    BY <2>1 DEF vars, stages, StageOf, Atomic!vars
  <2>2. CASE \E c \in Conn : Thread(c)
    BY <2>2, ThreadIsAtomic DEF Atomic!Next
  <2>3. CASE MainThread
    BY <2>3, MainIsAtomic DEF Atomic!Next
  <2> QED
    BY <2>1, <2>2, <2>3 DEF Next, Finished
<1> QED
  BY <1>1, <1>2, StateIsConsistent, PTL DEF Spec, RequestsAreAtomic, Atomic!SessionSpec

-----------------------------------------------------------------------------
\* No step of a thread takes message, dialog or answer away from one that waits,
\* and a thread that asks puts its message into the queue.
LEMMA ThreadKeepsReach ==
  ASSUME Consistent, NEW c \in Conn, Thread(c), NEW d \in Conn, ReachesUser(d)
  PROVE  ReachesUser(d)' \/ d \in unheard' \ unheard
<1>1. CASE AskConfirmation(c)
  <2>1. /\ queue \in Seq(Conn) /\ queue' = Append(queue, c)
        /\ UNCHANGED <<window, answer>>
        /\ wpc' = [wpc EXCEPT ![c] = "recv"]
    BY <1>1 DEF AskConfirmation, Goto, Consistent, TypeOK
  <2>2. /\ Len(queue') = Len(queue) + 1 /\ queue'[Len(queue) + 1] = c /\ Len(queue) \in Nat
        /\ \A i \in 1..Len(queue) : queue'[i] = queue[i]
    BY <2>1
  <2>3. CASE d = c
    <3>1. Len(queue) + 1 \in 1..Len(queue')
      BY <2>2
    <3> QED
      BY <2>2, <2>3, <3>1 DEF ReachesUser
  <2>4. CASE d # c
    <3>1. wpc'[d] = wpc[d]
      BY <2>1, <2>4 DEF Consistent, TypeOK
    <3>2. 1..Len(queue) \subseteq 1..Len(queue')
      BY <2>2
    <3> QED
      BY <2>1, <2>2, <3>1, <3>2 DEF ReachesUser
  <2> QED
    BY <2>3, <2>4
<1>2. CASE ReturnFromAsk(c)
  <2>1. UNCHANGED <<queue, answer>> /\ wpc' = [wpc EXCEPT ![c] = "decided"] /\ Unlink(c)
    BY <1>2 DEF ReturnFromAsk, Goto
  <2>2. d # c => wpc'[d] = wpc[d] /\ window'[d] = window[d]
    BY <2>1 DEF Unlink, Consistent, TypeOK
  <2>3. wpc'[c] = "decided"
    BY <2>1 DEF Consistent, TypeOK
  <2> QED
    BY <2>1, <2>2, <2>3 DEF ReachesUser
<1>4. CASE AskUnheard(c)
  <2>1. /\ UNCHANGED <<queue, window, answer>> /\ unheard' = unheard \cup {c}
        /\ wpc[c] = "handle" /\ wpc' = [wpc EXCEPT ![c] = "recv"]
    BY <1>4 DEF AskUnheard, Goto
  <2>2. c \notin unheard
    BY <2>1 DEF Consistent, UnheardConsistent
  <2>3. d # c => wpc'[d] = wpc[d]
    BY <2>1 DEF Consistent, TypeOK
  <2> QED
    BY <2>1, <2>2, <2>3 DEF ReachesUser
<1>3. CASE ~AskConfirmation(c) /\ ~ReturnFromAsk(c) /\ ~AskUnheard(c)
  <2>1. /\ UNCHANGED <<queue, window>>
        /\ wpc'[d] = "recv" => wpc[d] = "recv" /\ answer'[d] = answer[d]
    BY <1>3 DEF Thread, ReadRequest, Hangup, Acquire, AcquirePoisoned, RequestIdentities,
       AddIdentity, Reject, HandlerPanics, Conclude, WriteResponse, Respond, Goto, Consistent,
       TypeOK
  <2> QED
    BY <2>1 DEF ReachesUser
<1> QED
  BY <1>1, <1>2, <1>3, <1>4

\* The dialog that the loop shows for a message can be clicked.
LEMMA ShownDialogIsOpen ==
  ASSUME Consistent, ShowConfirmation
  PROVE  /\ Head(queue) \in Conn
         /\ window'[Head(queue)] # None /\ ~window'[Head(queue)].pressed
         /\ \A d \in Conn : d # Head(queue) => window'[d] = window[d]
<1> DEFINE h == Head(queue)
<1>1. /\ queue \in Seq(Conn) /\ queue # << >>
      /\ window' = [window EXCEPT ![h] = [key |-> req[h].key, no |-> served[h],
                                          linked |-> TRUE, pressed |-> FALSE]]
  BY DEF MainStarts, StartFails, ShowConfirmation, DialogRefused, Consistent, TypeOK
<1>2. h \in Conn /\ h = queue[1] /\ 1 \in 1..Len(queue)
  BY <1>1
<1>3. window'[h] = [key |-> req[h].key, no |-> served[h], linked |-> TRUE, pressed |-> FALSE]
  BY <1>1, <1>2 DEF Consistent, TypeOK
<1>4. wpc[h] = "recv"
  BY <1>2 DEF Consistent, QueueConsistent
<1>5. req[h] \in Request /\ served[h] \in 1..MaxRequests
  BY <1>2, <1>4 DEF Consistent, TypeOK, ThreadConsistent
<1>6. window'[h] \in Window /\ window'[h].pressed = FALSE
  BY <1>3, <1>5
<1>7. window'[h] # None /\ ~window'[h].pressed
  BY <1>6, WindowAssumption, Zenon
<1> QED
  BY <1>1, <1>2, <1>7 DEF Consistent, TypeOK

\* What is in a queue and not at its head is in its tail.
LEMMA RestOfQueue ==
  ASSUME NEW q \in Seq(Conn), q # << >>, NEW d \in Conn, d # Head(q),
         \E i \in 1..Len(q) : q[i] = d
  PROVE  \E j \in 1..Len(Tail(q)) : Tail(q)[j] = d
<1> PICK i \in 1..Len(q) : q[i] = d
  OBVIOUS
<1>1. i # 1 /\ i \in 1..Len(q)
  OBVIOUS
<1>2. i - 1 \in 1..Len(Tail(q)) /\ Tail(q)[i - 1] = q[i]
  BY <1>1
<1> QED
  BY <1>2

\* The main thread turns a message into a dialog and a dialog into an answer;
\* only the loop of the menu, or a dialog that is refused, takes it for nothing.
LEMMA MainKeepsReach ==
  ASSUME Consistent, MainThread, NEW d \in Conn, ReachesUser(d)
  PROVE  \/ ReachesUser(d)'
         \/ mpc = "menu" /\ queue # << >> /\ Head(queue) = d
         \/ d \in unheard' \ unheard
<1>1. CASE ShowConfirmation
  <2>1. queue \in Seq(Conn) /\ queue # << >> /\ queue' = Tail(queue) /\ UNCHANGED <<wpc, answer>>
    BY <1>1 DEF MainStarts, StartFails, ShowConfirmation, DialogRefused, Consistent, TypeOK
  <2>2. CASE d = Head(queue)
    BY <1>1, <2>2, ShownDialogIsOpen DEF ReachesUser
  <2>3. CASE d # Head(queue)
    BY <1>1, <2>1, <2>3, ShownDialogIsOpen, RestOfQueue DEF ReachesUser
  <2> QED
    BY <2>2, <2>3
<1>2. ASSUME NEW c \in Conn, NEW button \in {"yes", "no"}, PressButton(c, button)
      PROVE  ReachesUser(d)'
  <2>1. /\ UNCHANGED <<queue, wpc>> /\ answer'[c] = button
        /\ d # c => answer'[d] = answer[d] /\ window'[d] = window[d]
    BY <1>2 DEF PressButton, Consistent, TypeOK
  <2> QED
    BY <2>1 DEF ReachesUser
<1>3. ASSUME NEW c \in Conn, DestroyDialog(c)
      PROVE  ReachesUser(d)'
  <2>1. /\ UNCHANGED <<queue, wpc, answer>> /\ window[c].pressed
        /\ d # c => window'[d] = window[d]
    BY <1>3 DEF DestroyDialog, Consistent, TypeOK
  <2> QED
    BY <2>1 DEF ReachesUser
<1>4. CASE MenuLoopDropsMessage
  <2>1. queue \in Seq(Conn) /\ queue # << >> /\ queue' = Tail(queue) /\ mpc = "menu"
        /\ UNCHANGED <<wpc, window, answer>>
    BY <1>4 DEF MenuLoopDropsMessage, Consistent, TypeOK
  <2> QED
    BY <2>1, RestOfQueue DEF ReachesUser
<1>6. CASE DialogRefused
  <2>1. /\ queue \in Seq(Conn) /\ queue # << >> /\ queue' = Tail(queue)
        /\ unheard' = unheard \cup {Head(queue)} /\ UNCHANGED <<wpc, window, answer>>
    BY <1>6 DEF DialogRefused, Consistent, TypeOK
  <2>2. Head(queue) = queue[1] /\ 1 \in 1..Len(queue)
    BY <2>1
  <2>3. Head(queue) \notin unheard
    BY <2>2 DEF Consistent, UnheardConsistent
  <2>4. CASE d = Head(queue)
    BY <2>1, <2>3, <2>4
  <2>5. CASE d # Head(queue)
    BY <2>1, <2>5, RestOfQueue DEF ReachesUser
  <2> QED
    BY <2>4, <2>5
<1>5. CASE \/ MainStarts \/ StartFails \/ OpenMenu \/ CloseMenu \/ CloseBoxMenu \/ ReloadConfig
           \/ ReloadFails \/ DismissError \/ ReloadPoisoned \/ Quit
  <2>1. UNCHANGED <<queue, wpc, window, answer>>
    BY <1>5 DEF MainStarts, StartFails, OpenMenu, CloseMenu, CloseBoxMenu, ReloadConfig,
                ReloadFails, DismissError, ReloadPoisoned, Quit
  <2> QED
    BY <2>1 DEF ReachesUser
<1> QED
  BY <1>1, <1>2, <1>3, <1>4, <1>5, <1>6 DEF MainThread

\* Whatever threads, user and main thread do, and however often the menu is
\* opened: a confirmation is lost to the loop of the menu, or because Windows
\* refuses its message or its dialog, or not at all.
THEOREM NothingElseLosesConfirmations == Spec => LossesAreKnown
<1>1. Consistent /\ [Next]_vars =>
        [\A c \in Conn :
           ReachesUser(c) => \/ ReachesUser(c)'
                             \/ mpc = "menu" /\ queue # << >> /\ Head(queue) = c
                             \/ c \in unheard' \ unheard]_vars
  BY ThreadKeepsReach, MainKeepsReach DEF Next, Finished
<1> QED
  BY <1>1, StateIsConsistent, PTL DEF Spec, LossesAreKnown

\* The state of an agent whose tray menu is never opened.
MenuStaysClosed ==
  Consistent /\ mpc \in {"start", "loop", "clicked", "exited"} /\ ConfirmationReachesUser

\* As long as the user leaves the tray menu alone, a thread that waits for an
\* answer has its message in the queue, its dialog on screen, or its answer,
\* unless Windows refused the message or the dialog when it was its turn.
THEOREM ConfirmationsArrive == MaxMenus = 0 => (Spec => []ConfirmationReachesUser)
<1> SUFFICES ASSUME MaxMenus = 0
             PROVE  Spec => []ConfirmationReachesUser
  OBVIOUS
<1>1. Init => MenuStaysClosed
  BY InitIsConsistent DEF MenuStaysClosed, Init, ConfirmationReachesUser, ReachesUser
<1>2. MenuStaysClosed /\ [Next]_vars => MenuStaysClosed'
  <2> SUFFICES ASSUME MenuStaysClosed, [Next]_vars
               PROVE  MenuStaysClosed'
    OBVIOUS
  <2>1. Consistent /\ menus = 0 /\ mpc \in {"start", "loop", "clicked", "exited"}
    BY DEF MenuStaysClosed, Consistent, TypeOK
  <2>2. CASE UNCHANGED vars
    <3>1. ConfirmationReachesUser' /\ mpc' = mpc
      BY <2>2 DEF vars, MenuStaysClosed, ConfirmationReachesUser, ReachesUser
    <3>2. Consistent'
      BY <2>1, <2>2 DEF vars, Consistent, TypeOK, MutexConsistent, ThreadConsistent,
                  AskConsistent, QueueConsistent, WindowConsistent, UnheardConsistent,
                ConsentPerSignature, EventOf
    <3> QED
      BY <2>1, <3>1, <3>2 DEF MenuStaysClosed
  <2>3. ASSUME NEW c \in Conn, Thread(c)
        PROVE  MenuStaysClosed'
    <3>1. mpc' = mpc
      BY <2>3 DEF Thread, ReadRequest, Hangup, Acquire, AcquirePoisoned, RequestIdentities,
          AddIdentity,
         Reject, AskConfirmation, AskUnheard, HandlerPanics, ReturnFromAsk, Conclude,
         WriteResponse, Respond
    \* Who was not heard stays so.
    <3>2. unheard \subseteq unheard'
      BY <2>3 DEF Thread, ReadRequest, Hangup, Acquire, AcquirePoisoned, RequestIdentities,
         AddIdentity, Reject, AskConfirmation, AskUnheard, HandlerPanics, ReturnFromAsk,
         Conclude, WriteResponse
    <3>3. Consistent' /\ ConfirmationReachesUser'
      BY <2>1, <2>3, <3>2, ThreadStep, ThreadKeepsReach DEF MenuStaysClosed, ConfirmationReachesUser
    <3> QED
      BY <2>1, <3>1, <3>3 DEF MenuStaysClosed
  <2>4. CASE MainThread
    <3>1. mpc' \in {"start", "loop", "clicked", "exited"}
      BY <2>1, <2>4 DEF MainThread, MainStarts, StartFails, ShowConfirmation, DialogRefused,
          PressButton, DestroyDialog, OpenMenu,
         MenuLoopDropsMessage, CloseMenu, CloseBoxMenu, ReloadConfig, ReloadFails, DismissError,
         ReloadPoisoned, Quit
    <3>2. unheard \subseteq unheard'
      BY <2>4 DEF MainThread, MainStarts, StartFails, ShowConfirmation, DialogRefused,
         PressButton, DestroyDialog, OpenMenu, MenuLoopDropsMessage, CloseMenu, CloseBoxMenu,
         ReloadConfig, ReloadFails, DismissError, ReloadPoisoned, Quit
    <3>3. Consistent' /\ ConfirmationReachesUser'
      BY <2>1, <2>4, <3>2, MainStep, MainKeepsReach DEF MenuStaysClosed, ConfirmationReachesUser
    <3> QED
      BY <3>1, <3>3 DEF MenuStaysClosed
  <2> QED
    BY <2>2, <2>3, <2>4 DEF Next, Finished
<1>3. MenuStaysClosed => ConfirmationReachesUser
  BY DEF MenuStaysClosed
<1> QED
  BY <1>1, <1>2, <1>3, PTL DEF Spec

=============================================================================
