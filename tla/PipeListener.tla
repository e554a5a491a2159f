------------------------------ MODULE PipeListener ------------------------------
(***************************************************************************)
(* listen_named_pipe: how OpenSSH clients get a serving thread.            *)
(*                                                                         *)
(* One thread creates an instance of the pipe, waits for a client, looks   *)
(* up who the client is with the agent mutex held, hands the instance to a *)
(* new thread and starts over.  Only then can the next client connect: in  *)
(* between there is no instance a client could open.  A serving thread     *)
(* takes the mutex per request; what it does with it is the subject of     *)
(* AgentService, here it holds the mutex for a while.  The other channels  *)
(* and the tray menu compete for the mutex as Other.                       *)
(***************************************************************************)
EXTENDS Naturals

CONSTANTS
  Client,        \* processes that open the pipe, once each
  MaxRequests,   \* bound: requests a client sends
  MaxOther,      \* bound: times the other channels take the mutex
  MayPanic,      \* TRUE when a holder of the mutex may panic
  Listener,      \* the listener, as holder of the mutex
  Other,         \* the other channels, as holder of the mutex
  Free,          \* an instance without a client
  None           \* no value

ASSUME PipeAssumption ==
  /\ MaxRequests \in Nat /\ MaxOther \in Nat
  /\ MayPanic \in BOOLEAN
  /\ Client \cap {Listener, Other, Free, None} = {}
  /\ Listener # Other /\ Listener # None /\ Other # None /\ Free # None

VARIABLES
  lpc,       \* where the listener is
  pipe,      \* the instance it works on: none, free, or opened by a client
  client,    \* each client: it has not opened the pipe, has it open, has closed it
  thread,    \* the serving thread of each client
  requests,  \* how many requests it has read
  lock,      \* holder of the agent mutex
  poisoned,  \* a holder panicked
  others,    \* how often the other channels took the mutex
  up         \* the process is running

vars == <<lpc, pipe, client, thread, requests, lock, poisoned, others, up>>

TypeOK ==
  /\ lpc \in {"create", "connect", "wait", "identify", "lock", "collect", "spawn", "failed", "dead"}
  /\ pipe \in Client \cup {Free, None}
  /\ client \in [Client -> {"idle", "open", "closed"}]
  /\ thread \in [Client -> {"none", "read", "lock", "handle", "done", "panicked"}]
  /\ requests \in [Client -> 0..MaxRequests]
  /\ lock \in Client \cup {Listener, Other, None}
  /\ poisoned \in BOOLEAN
  /\ others \in 0..MaxOther
  /\ up \in BOOLEAN

Init ==
  /\ lpc = "create"
  /\ pipe = None
  /\ client = [c \in Client |-> "idle"]
  /\ thread = [c \in Client |-> "none"]
  /\ requests = [c \in Client |-> 0]
  /\ lock = None
  /\ poisoned = FALSE
  /\ others = 0
  /\ up = TRUE

-----------------------------------------------------------------------------
(***************************************************************************)
(* The listener thread.                                                    *)
(***************************************************************************)

\* The listener moves from one place to another.
Goto(from, to) ==
  /\ up
  /\ lpc = from
  /\ lpc' = to

\* CreateNamedPipe.
CreateInstance ==
  /\ Goto("create", "connect")
  /\ pipe' = Free
  /\ UNCHANGED <<client, thread, requests, lock, poisoned, others, up>>

\* ConnectNamedPipe on an instance nobody has opened: it will wait.
ConnectInstance ==
  /\ Goto("connect", "wait")
  /\ pipe = Free
  /\ UNCHANGED <<pipe, client, thread, requests, lock, poisoned, others, up>>

\* ConnectNamedPipe on an instance that a client has already opened returns 0,
\* with ERROR_PIPE_CONNECTED or ERROR_NO_DATA: check_error makes it an error,
\* and `listener` shows a message box.
ConnectTooLate ==
  /\ Goto("connect", "failed")
  /\ pipe # Free
  /\ UNCHANGED <<pipe, client, thread, requests, lock, poisoned, others, up>>

\* The box is dismissed: process::exit(1), whatever the other threads do.
ExitProcess ==
  /\ Goto("failed", "failed")
  /\ up' = FALSE
  /\ UNCHANGED <<pipe, client, thread, requests, lock, poisoned, others>>

\* ConnectNamedPipe returns: a client has opened the instance.
Connected ==
  /\ Goto("wait", "identify")
  /\ pipe \in Client
  /\ UNCHANGED <<pipe, client, thread, requests, lock, poisoned, others, up>>

\* GetNamedPipeClientProcessId; without a process id nothing is looked up.
Identify ==
  /\ Goto("identify", "lock") \/ Goto("identify", "spawn")
  /\ UNCHANGED <<pipe, client, thread, requests, lock, poisoned, others, up>>

LockForRequester ==
  /\ lock = None
  /\ ~poisoned
  /\ Goto("lock", "collect")
  /\ lock' = Listener
  /\ UNCHANGED <<pipe, client, thread, requests, poisoned, others, up>>

\* lock().unwrap() on a poisoned mutex: the listener is gone, and the process
\* goes on without it; the instance stays open.
ListenerDies ==
  /\ lock = None
  /\ poisoned
  /\ Goto("lock", "dead")
  /\ UNCHANGED <<pipe, client, thread, requests, lock, poisoned, others, up>>

\* A variant that keeps the guard until the next client comes.
MutCollectRequester ==
  /\ Goto("collect", "spawn")
  /\ UNCHANGED <<pipe, client, thread, requests, lock, poisoned, others, up>>

\* collect_requester_info is done, with a description or without.
CollectRequester ==
  /\ Goto("collect", "spawn")
  /\ lock' = None
  /\ UNCHANGED <<pipe, client, thread, requests, poisoned, others, up>>

\* One of the unwraps of collect_requester_info fails.
CollectPanics ==
  /\ MayPanic
  /\ Goto("collect", "dead")
  /\ lock' = None
  /\ poisoned' = TRUE
  /\ UNCHANGED <<pipe, client, thread, requests, others, up>>

\* A variant that goes back to an instance it has handed over.
MutSpawnHandler ==
  /\ Goto("spawn", "wait")
  /\ thread' = [thread EXCEPT ![pipe] = "read"]
  /\ UNCHANGED <<pipe, client, requests, lock, poisoned, others, up>>

\* A thread is spawned for the instance, and the loop starts over.
SpawnHandler ==
  /\ Goto("spawn", "create")
  /\ thread' = [thread EXCEPT ![pipe] = "read"]
  /\ pipe' = None
  /\ UNCHANGED <<client, requests, lock, poisoned, others, up>>

ListenerThread ==
  \/ CreateInstance
  \/ ConnectInstance
  \/ ConnectTooLate
  \/ ExitProcess
  \/ Connected
  \/ Identify
  \/ LockForRequester
  \/ ListenerDies
  \/ CollectRequester
  \/ CollectPanics
  \/ SpawnHandler

-----------------------------------------------------------------------------
(***************************************************************************)
(* Clients, serving threads, and the others who use the mutex.             *)
(***************************************************************************)

\* CreateFile of a client succeeds only on a free instance; the listener may
\* have called ConnectNamedPipe on it or be about to.
OpenPipe(c) ==
  /\ up
  /\ client[c] = "idle"
  /\ pipe = Free
  /\ client' = [client EXCEPT ![c] = "open"]
  /\ pipe' = c
  /\ UNCHANGED <<lpc, thread, requests, lock, poisoned, others, up>>

ClosePipe(c) ==
  /\ up
  /\ client[c] = "open"
  /\ client' = [client EXCEPT ![c] = "closed"]
  /\ UNCHANGED <<lpc, pipe, thread, requests, lock, poisoned, others, up>>

\* The serving thread of c moves.
Serve(c, from, to) ==
  /\ up
  /\ thread[c] = from
  /\ thread' = [thread EXCEPT ![c] = to]

\* A request is read; it may have been sent before the client closed the pipe.
ReadRequest(c) ==
  /\ requests[c] < MaxRequests
  /\ Serve(c, "read", "lock")
  /\ requests' = [requests EXCEPT ![c] = @ + 1]
  /\ UNCHANGED <<lpc, pipe, client, lock, poisoned, others, up>>

\* A variant that sees the zero length but not the end of the stream.
MutHangup(c) ==
  /\ client[c] = "open"
  /\ Serve(c, "read", "done")
  /\ UNCHANGED <<lpc, pipe, client, requests, lock, poisoned, others, up>>

\* A zero length, a read error, or the client has closed the pipe:
\* connection_handler returns, the instance is disconnected and its handle
\* closed.
Hangup(c) ==
  /\ Serve(c, "read", "done")
  /\ UNCHANGED <<lpc, pipe, client, requests, lock, poisoned, others, up>>

LockForRequest(c) ==
  /\ lock = None
  /\ ~poisoned
  /\ Serve(c, "lock", "handle")
  /\ lock' = c
  /\ UNCHANGED <<lpc, pipe, client, requests, poisoned, others, up>>

\* lock().unwrap() panics: Pipe has no destructor, so the instance stays open
\* and its client waits for an answer that does not come.
LockPanics(c) ==
  /\ lock = None
  /\ poisoned
  /\ Serve(c, "lock", "panicked")
  /\ UNCHANGED <<lpc, pipe, client, requests, lock, poisoned, others, up>>

\* The request is handled and the response written.  If that fails, because
\* the client has closed the pipe, the thread ends.
Respond(c) ==
  /\ \/ Serve(c, "handle", "read")
     \/ client[c] = "closed" /\ Serve(c, "handle", "done")
  /\ lock' = None
  /\ UNCHANGED <<lpc, pipe, client, requests, poisoned, others, up>>

HandlerPanics(c) ==
  /\ MayPanic
  /\ Serve(c, "handle", "panicked")
  /\ lock' = None
  /\ poisoned' = TRUE
  /\ UNCHANGED <<lpc, pipe, client, requests, others, up>>

OtherLocks ==
  /\ up
  /\ others < MaxOther
  /\ lock = None
  /\ ~poisoned
  /\ lock' = Other
  /\ others' = others + 1
  /\ UNCHANGED <<lpc, pipe, client, thread, requests, poisoned, up>>

OtherUnlocks ==
  /\ up
  /\ lock = Other
  /\ lock' = None
  /\ \/ poisoned' = poisoned
     \/ MayPanic /\ poisoned' = TRUE
  /\ UNCHANGED <<lpc, pipe, client, thread, requests, others, up>>

Handler(c) ==
  \/ OpenPipe(c)
  \/ ClosePipe(c)
  \/ ReadRequest(c)
  \/ Hangup(c)
  \/ LockForRequest(c)
  \/ LockPanics(c)
  \/ Respond(c)
  \/ HandlerPanics(c)

\* The process has ended, or every client is through or stuck.
Finished ==
  /\ ~up \/ \A c \in Client : client[c] = "closed" \/ thread[c] = "panicked" \/ lpc = "dead"
  /\ UNCHANGED vars

Next == ListenerThread \/ (\E c \in Client : Handler(c)) \/ OtherLocks \/ OtherUnlocks \/ Finished

Spec == Init /\ [][Next]_vars

(***************************************************************************)
(* Fairness.  The scheduler runs every thread that can run; whoever holds  *)
(* the mutex lets go of it (for a confirmation this is RequestsAnswered of *)
(* AgentService), and clients need not do anything.  Weak fairness is      *)
(* enough for the mutex because it is taken a bounded number of times.     *)
(***************************************************************************)
Fairness ==
  /\ WF_vars(CreateInstance)
  /\ WF_vars(ConnectInstance \/ ConnectTooLate)
  /\ WF_vars(Connected)
  /\ WF_vars(Identify)
  /\ WF_vars(LockForRequester \/ ListenerDies)
  /\ WF_vars(CollectRequester \/ CollectPanics)
  /\ WF_vars(SpawnHandler)
  /\ WF_vars(OtherUnlocks)
  /\ \A c \in Client :
       /\ WF_vars(client[c] = "closed" /\ Hangup(c))
       /\ WF_vars(LockForRequest(c) \/ LockPanics(c))
       /\ WF_vars(Respond(c) \/ HandlerPanics(c))

FairSpec == Spec /\ Fairness

-----------------------------------------------------------------------------
(***************************************************************************)
(* Properties.                                                             *)
(***************************************************************************)

\* The mutex is held by exactly the thread that is between lock and unlock, by
\* nobody once it is poisoned; a thread dies of a lock only after a panic.
MutexConsistent ==
  /\ lock = Listener <=> lpc = "collect"
  /\ \A c \in Client : lock = c <=> thread[c] = "handle"
  /\ poisoned => lock = None
  /\ lpc = "dead" \/ (\E c \in Client : thread[c] = "panicked") => poisoned

\* The listener has a client's instance from the moment ConnectNamedPipe
\* returns until a thread serves it.
InstanceConsistent ==
  /\ pipe = None <=> lpc = "create"
  /\ pipe = Free => lpc \in {"connect", "wait"}

\* A connected client is either the one the listener is busy with or has a
\* serving thread, never both: no instance is handed over twice or forgotten.
HandedOverOnce ==
  \A c \in Client :
    /\ client[c] # "idle" => (pipe = c <=> thread[c] = "none")
    /\ client[c] = "idle" => pipe # c /\ thread[c] = "none"

\* Mutex, instances, clients and threads agree with each other.
Consistent ==
  /\ TypeOK
  /\ MutexConsistent
  /\ InstanceConsistent
  /\ HandedOverOnce

\* Opening the pipe never takes the agent down ("Supports OpenSSH", README.md).
OpeningIsHarmless == lpc # "failed"

\* Every client that opens the pipe gets a serving thread, also when the
\* listener has to wait for a user's answer to another client first, unless
\* the client came too early or a panic has poisoned the mutex.
ClientIsServed ==
  \A c \in Client :
    client[c] = "open" ~> thread[c] # "none" \/ lpc = "failed" \/ poisoned

\* The instance of a client that has closed the pipe is disconnected and its
\* handle closed, unless the process ends or a panic has poisoned the mutex.
InstanceIsReleased ==
  \A c \in Client :
    client[c] = "closed" ~> thread[c] = "done" \/ lpc = "failed" \/ poisoned

=============================================================================
