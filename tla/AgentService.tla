------------------------------ MODULE AgentService ------------------------------
(***************************************************************************)
(* The running agent: the threads that serve connections                   *)
(* (connection_handler), the agent mutex they share, and the main thread   *)
(* that runs the window loop, the confirmation dialog and the tray menu.   *)
(*                                                                         *)
(* A thread that serves a request holds the mutex for the whole of         *)
(* handle_request, the wait for the user's answer included.  It asks by    *)
(* posting a thread message that carries a pointer to a Confirmation on    *)
(* its own stack; the main thread shows a dialog for it and sends the      *)
(* answer over a channel.  The in-memory keys are a set here; what reaches *)
(* the configuration file is the subject of ConfigStore.                   *)
(***************************************************************************)
EXTENDS Naturals, Sequences, FiniteSets

CONSTANTS
  Conn,         \* connections, each with a serving thread
  Key,          \* keys that requests may name
  MaxRequests,  \* bound: requests read on one connection
  MaxMenus,     \* bound: times the user opens the tray menu
  MayPanic,     \* TRUE when a handler may hit one of its unwraps
  Main,         \* the main thread, as holder of the mutex
  None          \* no value

ASSUME ServiceAssumption ==
  /\ MaxRequests \in Nat
  /\ MaxMenus \in Nat
  /\ MayPanic \in BOOLEAN
  /\ None \notin Conn
  /\ Main \notin Conn
  /\ Main # None

VARIABLES
  wpc,       \* where each serving thread is
  req,       \* the request it is serving
  served,    \* how many requests it has read
  resp,      \* the response it is about to write
  answer,    \* the channel of its current Confirmation
  lock,      \* holder of the agent mutex
  poisoned,  \* a holder panicked
  keys,      \* keys in memory (Config::keys)
  mpc,       \* where the main thread is
  queue,     \* posted WM_SHOW_CONFIRMATION messages
  window,    \* the confirmation dialog of each connection
  menus,     \* how often the tray menu was opened
  approved,  \* history: requests the user pressed Yes for
  signed,    \* history: signatures made
  unheard    \* history: connections whose confirmation Windows did not take

agentVars   == <<lock, poisoned, keys>>
threadVars  == <<wpc, req, served, resp, answer>>
windowVars  == <<mpc, queue, window, menus>>
historyVars == <<approved, signed, unheard>>
vars == <<wpc, req, served, resp, answer, lock, poisoned, keys,
          mpc, queue, window, menus, approved, signed, unheard>>

Ops == {"SIGN_REQUEST", "REQUEST_IDENTITIES", "ADD_IDENTITY", "other"}

Responses == {"SIGN_RESPONSE", "IDENTITIES_ANSWER", "SUCCESS", "FAILURE"}

Request == [op : Ops, key : Key]

\* A dialog: what it shows, whether DWLP_USER still points to the
\* Confirmation, and whether a button was pressed (the window is then about
\* to be destroyed).
Window == [key : Key, no : 1..MaxRequests, linked : BOOLEAN, pressed : BOOLEAN]

ASSUME WindowAssumption == None \notin Window

\* One request of one connection, with the key it is about.
Event == Conn \X (1..MaxRequests) \X Key

TypeOK ==
  /\ wpc \in [Conn -> {"read", "lock", "handle", "recv", "decided", "write", "closed"}]
  /\ req \in [Conn -> Request \cup {None}]
  /\ served \in [Conn -> 0..MaxRequests]
  /\ resp \in [Conn -> Responses \cup {None}]
  /\ answer \in [Conn -> {"none", "yes", "no"}]
  /\ lock \in Conn \cup {Main, None}
  /\ poisoned \in BOOLEAN
  /\ keys \in SUBSET Key
  /\ mpc \in {"start", "loop", "menu", "reload", "box", "boxmenu", "stuck", "clicked",
              "quitting", "exited"}
  /\ queue \in Seq(Conn)
  /\ window \in [Conn -> Window \cup {None}]
  /\ menus \in 0..MaxMenus
  /\ approved \in SUBSET Event
  /\ signed \in SUBSET Event
  /\ unheard \in SUBSET Conn

\* serve has spawned the listeners and has not made its window yet.
Init ==
  /\ wpc = [c \in Conn |-> "read"]
  /\ req = [c \in Conn |-> None]
  /\ served = [c \in Conn |-> 0]
  /\ resp = [c \in Conn |-> None]
  /\ answer = [c \in Conn |-> "none"]
  /\ lock = None
  /\ poisoned = FALSE
  /\ keys \in SUBSET Key
  /\ mpc = "start"
  /\ queue = << >>
  /\ window = [c \in Conn |-> None]
  /\ menus = 0
  /\ approved = {}
  /\ signed = {}
  /\ unheard = {}

-----------------------------------------------------------------------------
(***************************************************************************)
(* Serving threads.                                                        *)
(***************************************************************************)

\* The process is alive and thread c moves from one place to another.
Goto(c, from, to) ==
  /\ mpc # "exited"
  /\ wpc[c] = from
  /\ wpc' = [wpc EXCEPT ![c] = to]

\* The buffers of an iteration of connection_handler are dropped at its end.
Forget(c) ==
  /\ req' = [req EXCEPT ![c] = None]
  /\ resp' = [resp EXCEPT ![c] = None]

\* The request of c, as recorded in the histories.
EventOf(c) == <<c, served[c], req[c].key>>

\* A whole frame is read.
ReadRequest(c, r) ==
  /\ served[c] < MaxRequests
  /\ Goto(c, "read", "lock")
  /\ req' = [req EXCEPT ![c] = r]
  /\ served' = [served EXCEPT ![c] = @ + 1]
  /\ UNCHANGED <<resp, answer, agentVars, windowVars, historyVars>>

\* A zero length, the end of the stream or a read error ends the thread.
Hangup(c) ==
  /\ Goto(c, "read", "closed")
  /\ UNCHANGED <<req, served, resp, answer, agentVars, windowVars, historyVars>>

\* A variant that takes the mutex out of a PoisonError and goes on.
MutAcquire(c) ==
  /\ lock = None
  /\ Goto(c, "lock", "handle")
  /\ lock' = c
  /\ UNCHANGED <<req, served, resp, answer, poisoned, keys, windowVars, historyVars>>

Acquire(c) ==
  /\ lock = None
  /\ ~poisoned
  /\ Goto(c, "lock", "handle")
  /\ lock' = c
  /\ UNCHANGED <<req, served, resp, answer, poisoned, keys, windowVars, historyVars>>

\* lock().unwrap() on a poisoned mutex: the thread dies without a response.
AcquirePoisoned(c) ==
  /\ lock = None
  /\ poisoned
  /\ Goto(c, "lock", "closed")
  /\ Forget(c)
  /\ UNCHANGED <<served, answer, agentVars, windowVars, historyVars>>

\* handle_request returns: the guard is dropped, then the response is written.
Respond(c, from, r) ==
  /\ Goto(c, from, "write")
  /\ resp' = [resp EXCEPT ![c] = r]
  /\ lock' = None
  /\ UNCHANGED <<req, served, poisoned, windowVars>>

RequestIdentities(c) ==
  /\ wpc[c] = "handle"
  /\ req[c].op = "REQUEST_IDENTITIES"
  /\ Respond(c, "handle", "IDENTITIES_ANSWER")
  /\ UNCHANGED <<answer, keys, historyVars>>

\* A new key stays in memory even if the save that follows fails.
AddIdentity(c) ==
  /\ wpc[c] = "handle"
  /\ req[c].op = "ADD_IDENTITY"
  /\ keys' = keys \cup {req[c].key}
  /\ \/ Respond(c, "handle", "SUCCESS")
     \/ req[c].key \notin keys /\ Respond(c, "handle", "FAILURE")
  /\ UNCHANGED <<answer, historyVars>>

\* A variant that answers with a code no response of the agent uses.
MutReject(c) ==
  /\ wpc[c] = "handle"
  /\ req[c].op = "other"
  /\ Respond(c, "handle", "EXTENSION_FAILURE")
  /\ UNCHANGED <<answer, keys, historyVars>>

\* Another message type, a malformed request, or an unknown key.
Reject(c) ==
  /\ wpc[c] = "handle"
  /\ \/ req[c].op = "other"
     \/ req[c].op = "SIGN_REQUEST" /\ req[c].key \notin keys
  /\ Respond(c, "handle", "FAILURE")
  /\ UNCHANGED <<answer, keys, historyVars>>

\* A variant that gives the mutex back while it waits for the user.
MutAskConfirmation(c) ==
  /\ wpc[c] = "handle"
  /\ req[c].op = "SIGN_REQUEST"
  /\ req[c].key \in keys
  /\ Goto(c, "handle", "recv")
  /\ lock' = None
  /\ queue' = Append(queue, c)
  /\ UNCHANGED <<req, served, resp, answer, poisoned, keys, mpc, window, menus, historyVars>>

\* ask_confirmation: make the channel and the Confirmation, post the message
\* and block in recv, with the mutex held.  The queue of the main thread comes to
\* be at some moment of its start.
AskConfirmation(c) ==
  /\ wpc[c] = "handle"
  /\ req[c].op = "SIGN_REQUEST"
  /\ req[c].key \in keys
  /\ Goto(c, "handle", "recv")
  /\ queue' = Append(queue, c)
  /\ UNCHANGED <<req, served, resp, answer, agentVars, mpc, window, menus, historyVars>>

\* PostThreadMessageA fails, because the main thread has no message queue before
\* it has called into the window system, or because Windows refuses it later on.
\* The result is not looked at, and c blocks in recv all the same.
AskUnheard(c) ==
  /\ wpc[c] = "handle"
  /\ req[c].op = "SIGN_REQUEST"
  /\ req[c].key \in keys
  /\ Goto(c, "handle", "recv")
  /\ unheard' = unheard \cup {c}
  /\ UNCHANGED <<req, served, resp, answer, agentVars, windowVars, approved, signed>>

\* An unwrap fails inside the handler: the mutex is poisoned.  A key that is
\* being added may already be in memory.
HandlerPanics(c) ==
  /\ MayPanic
  /\ Goto(c, "handle", "closed")
  /\ lock' = None
  /\ poisoned' = TRUE
  /\ \/ keys' = keys
     \/ req[c].op = "ADD_IDENTITY" /\ keys' = keys \cup {req[c].key}
  /\ Forget(c)
  /\ UNCHANGED <<served, answer, windowVars, historyVars>>

\* A variant without the Finally guard: the pointer is left behind.
MutUnlink(c) == window' = window

\* DWLP_USER of the dialog of c, if there is still one, is cleared.
Unlink(c) ==
  window' = [window EXCEPT ![c] = IF @ = None THEN None ELSE [@ EXCEPT !.linked = FALSE]]

\* recv returns; _set_null resets the pointer and the Confirmation is dropped.
ReturnFromAsk(c) ==
  /\ answer[c] # "none"
  /\ Goto(c, "recv", "decided")
  /\ Unlink(c)
  /\ UNCHANGED <<req, served, resp, answer, agentVars, mpc, queue, menus, historyVars>>

\* A variant in which the answer of the dialog is not looked at.
MutConclude(c) ==
  /\ wpc[c] = "decided"
  /\ signed' = signed \cup {EventOf(c)}
  /\ Respond(c, "decided", "SIGN_RESPONSE")
  /\ answer' = [answer EXCEPT ![c] = "none"]
  /\ UNCHANGED <<keys, approved, unheard>>

\* Sign if the user agreed (signing may still fail), refuse otherwise.  The
\* channel is gone with ask_confirmation.
Conclude(c) ==
  /\ wpc[c] = "decided"
  /\ \/ /\ answer[c] = "yes"
        /\ signed' = signed \cup {EventOf(c)}
        /\ Respond(c, "decided", "SIGN_RESPONSE")
     \/ /\ signed' = signed
        /\ Respond(c, "decided", "FAILURE")
  /\ answer' = [answer EXCEPT ![c] = "none"]
  /\ UNCHANGED <<keys, approved, unheard>>

\* The response is written, or the peer is gone and the thread ends.
WriteResponse(c) ==
  /\ Goto(c, "write", "read") \/ Goto(c, "write", "closed")
  /\ Forget(c)
  /\ UNCHANGED <<served, answer, agentVars, windowVars, historyVars>>

Thread(c) ==
  \/ \E r \in Request : ReadRequest(c, r)
  \/ Hangup(c)
  \/ Acquire(c)
  \/ AcquirePoisoned(c)
  \/ RequestIdentities(c)
  \/ AddIdentity(c)
  \/ Reject(c)
  \/ AskConfirmation(c)
  \/ AskUnheard(c)
  \/ HandlerPanics(c)
  \/ ReturnFromAsk(c)
  \/ Conclude(c)
  \/ WriteResponse(c)

-----------------------------------------------------------------------------
(***************************************************************************)
(* The main thread and the user in front of it.                            *)
(***************************************************************************)

\* create_taskbar_icon has made the window of the tray icon; the loop begins.
MainStarts ==
  /\ mpc = "start"
  /\ mpc' = "loop"
  /\ UNCHANGED <<queue, window, menus, threadVars, agentVars, historyVars>>

\* The class or the window cannot be made: serve returns and the process ends,
\* with requests that are being served.
StartFails ==
  /\ mpc = "start"
  /\ mpc' = "exited"
  /\ UNCHANGED <<queue, window, menus, threadVars, agentVars, historyVars>>

\* The loop takes a WM_SHOW_CONFIRMATION and creates the dialog, which reads
\* what it shows through the posted pointer.
ShowConfirmation ==
  /\ mpc \in {"loop", "quitting"}
  /\ queue # << >>
  /\ LET c == Head(queue) IN
       window' = [window EXCEPT ![c] = [key |-> req[c].key, no |-> served[c],
                                        linked |-> TRUE, pressed |-> FALSE]]
  /\ queue' = Tail(queue)
  /\ UNCHANGED <<mpc, menus, threadVars, agentVars, historyVars>>

\* CreateDialogParamA returns NULL, which show_dialog does not look at: the
\* message is gone and there is no dialog.
DialogRefused ==
  /\ mpc \in {"loop", "quitting"}
  /\ queue # << >>
  /\ queue' = Tail(queue)
  /\ unheard' = unheard \cup {Head(queue)}
  /\ UNCHANGED <<mpc, window, menus, threadVars, agentVars, approved, signed>>

\* A variant that tells the asking thread about a Yes only.
MutPressButton(c, button) ==
  /\ mpc = "loop"
  /\ window[c] # None
  /\ ~window[c].pressed
  /\ IF button = "yes"
     THEN /\ answer' = [answer EXCEPT ![c] = "yes"]
          /\ approved' = approved \cup {<<c, window[c].no, window[c].key>>}
     ELSE UNCHANGED <<answer, approved>>
  /\ window' = [window EXCEPT ![c].pressed = TRUE]
  /\ mpc' = "clicked"
  /\ UNCHANGED <<queue, menus, wpc, req, served, resp, agentVars, signed, unheard>>

\* WM_COMMAND with BN_CLICKED: send the answer; DestroyWindow comes next.
PressButton(c, button) ==
  /\ mpc = "loop"
  /\ window[c] # None
  /\ ~window[c].pressed
  /\ answer' = [answer EXCEPT ![c] = button]
  /\ approved' = IF button = "yes"
                 THEN approved \cup {<<c, window[c].no, window[c].key>>}
                 ELSE approved
  /\ window' = [window EXCEPT ![c].pressed = TRUE]
  /\ mpc' = "clicked"
  /\ UNCHANGED <<queue, menus, wpc, req, served, resp, agentVars, signed, unheard>>

\* DestroyWindow, still inside dlg_proc.
DestroyDialog(c) ==
  /\ mpc = "clicked"
  /\ window[c] # None
  /\ window[c].pressed
  /\ window' = [window EXCEPT ![c] = None]
  /\ mpc' = "loop"
  /\ UNCHANGED <<queue, menus, threadVars, agentVars, historyVars>>

\* A right click on the tray icon: TrackPopupMenuEx runs its own loop.  The loop
\* of the error box dispatches to wnd_proc too, so the menu opens over the box.
OpenMenu ==
  /\ mpc \in {"loop", "box"}
  /\ menus < MaxMenus
  /\ mpc' = IF mpc = "loop" THEN "menu" ELSE "boxmenu"
  /\ menus' = menus + 1
  /\ UNCHANGED <<queue, window, threadVars, agentVars, historyVars>>

\* The loop inside TrackPopupMenuEx retrieves a thread message and has no
\* window to dispatch it to: the message is gone.  (While the error box is open
\* the main thread has the mutex, and nobody asks.)
MenuLoopDropsMessage ==
  /\ mpc = "menu"
  /\ queue # << >>
  /\ queue' = Tail(queue)
  /\ UNCHANGED <<mpc, window, menus, threadVars, agentVars, historyVars>>

\* The menu is dismissed, or Exit (PostQuitMessage) or Reload is chosen.
CloseMenu ==
  /\ mpc = "menu"
  /\ mpc' \in {"loop", "quitting", "reload"}
  /\ UNCHANGED <<queue, window, menus, threadVars, agentVars, historyVars>>

\* The menu over the error box is dismissed; or Exit ends the loop of the box too,
\* and with it the hold of the mutex; or Reload locks the mutex that this very
\* thread holds, and waits for ever.
CloseBoxMenu ==
  /\ mpc = "boxmenu"
  /\ mpc' \in {"box", "quitting", "stuck"}
  /\ lock' = IF mpc' = "quitting" THEN None ELSE lock
  /\ UNCHANGED <<poisoned, keys, queue, window, menus, threadVars, historyVars>>

\* A variant of Reload that goes ahead without the mutex.
MutReloadConfig ==
  /\ mpc = "reload"
  /\ keys' \in SUBSET Key
  /\ mpc' = "loop"
  /\ UNCHANGED <<lock, poisoned, queue, window, menus, threadVars, historyVars>>

\* Reload takes the mutex on the main thread and replaces the keys by those
\* of the file, whatever they are.
ReloadConfig ==
  /\ mpc = "reload"
  /\ lock = None
  /\ ~poisoned
  /\ keys' \in SUBSET Key
  /\ mpc' = "loop"
  /\ UNCHANGED <<lock, poisoned, queue, window, menus, threadVars, historyVars>>

\* The file cannot be loaded: show_error blocks with the mutex held.
ReloadFails ==
  /\ mpc = "reload"
  /\ lock = None
  /\ ~poisoned
  /\ lock' = Main
  /\ mpc' = "box"
  /\ UNCHANGED <<poisoned, keys, queue, window, menus, threadVars, historyVars>>

DismissError ==
  /\ mpc = "box"
  /\ lock' = None
  /\ mpc' = "loop"
  /\ UNCHANGED <<poisoned, keys, queue, window, menus, threadVars, historyVars>>

\* lock().unwrap() panics inside the window procedure: unwinding out of it
\* either ends the process or is swallowed by the system.
ReloadPoisoned ==
  /\ mpc = "reload"
  /\ lock = None
  /\ poisoned
  /\ mpc' \in {"exited", "loop"}
  /\ UNCHANGED <<queue, window, menus, threadVars, agentVars, historyVars>>

\* GetMessage returns 0 once no posted message is left: main returns and the
\* process ends, whatever the other threads are doing.
Quit ==
  /\ mpc = "quitting"
  /\ queue = << >>
  /\ mpc' = "exited"
  /\ UNCHANGED <<queue, window, menus, threadVars, agentVars, historyVars>>

MainThread ==
  \/ MainStarts
  \/ StartFails
  \/ ShowConfirmation
  \/ DialogRefused
  \/ \E c \in Conn, button \in {"yes", "no"} : PressButton(c, button)
  \/ \E c \in Conn : DestroyDialog(c)
  \/ OpenMenu
  \/ MenuLoopDropsMessage
  \/ CloseMenu
  \/ CloseBoxMenu
  \/ ReloadConfig
  \/ ReloadFails
  \/ DismissError
  \/ ReloadPoisoned
  \/ Quit

\* The process has ended, or every peer has gone, or a thread waits for ever for
\* the answer of a dialog that is not there, with the mutex: nothing more may come.
Finished ==
  /\ mpc = "exited" \/ (\A c \in Conn : wpc[c] = "closed") \/ unheard # {}
  /\ UNCHANGED vars

Next == (\E c \in Conn : Thread(c)) \/ MainThread \/ Finished

Spec == Init /\ [][Next]_vars

(***************************************************************************)
(* Fairness.  The scheduler runs every thread that can run, the main       *)
(* thread starts or fails to, the main loop takes the messages posted to   *)
(* it, and the user presses a button of a dialog that stays up.  That a    *)
(* message can be posted and a dialog made is not assumed.  Peers need not *)
(* send anything, and nobody needs to open the menu.  Weak fairness of     *)
(* Acquire is enough because a connection reads at most MaxRequests        *)
(* requests.                                                               *)
(***************************************************************************)
Fairness ==
  /\ \A c \in Conn :
       /\ WF_vars(Acquire(c) \/ AcquirePoisoned(c))
       /\ WF_vars(\/ RequestIdentities(c) \/ AddIdentity(c) \/ Reject(c)
                  \/ AskConfirmation(c) \/ AskUnheard(c))
       /\ WF_vars(ReturnFromAsk(c))
       /\ WF_vars(Conclude(c))
       /\ WF_vars(WriteResponse(c))
       /\ WF_vars(PressButton(c, "yes") \/ PressButton(c, "no"))
       /\ WF_vars(DestroyDialog(c))
  /\ WF_vars(MainStarts \/ StartFails)
  /\ WF_vars(ShowConfirmation \/ DialogRefused)

FairSpec == Spec /\ Fairness

-----------------------------------------------------------------------------
(***************************************************************************)
(* Properties.                                                             *)
(***************************************************************************)

\* A signature is made only for a request whose dialog, showing that very
\* request and key, got a Yes (agent/mod.rs, SSH_AGENTC_SIGN_REQUEST).
ConsentPerSignature == signed \subseteq approved

\* The key a pending confirmation refers to stays in memory until the answer
\* has been used: key_pair borrows from Config::keys across the whole wait,
\* and only the mutex keeps a Reload from replacing them.
KeyHeldWhileConfirming ==
  \A c \in Conn : wpc[c] \in {"recv", "decided"} => req[c].key \in keys

\* A posted message and a dialog that still points to a Confirmation refer to
\* a live one, of the request that is shown (the Finally guard of
\* ask_confirmation); and a dialog that can still be clicked has its pointer,
\* which the click dereferences unchecked.
PointerIsLive ==
  /\ \A i \in 1..Len(queue) : wpc[queue[i]] = "recv"
  /\ \A c \in Conn : window[c] # None =>
       /\ ~window[c].pressed => window[c].linked
       /\ window[c].linked => wpc[c] = "recv" /\ window[c].no = served[c]

\* At most one confirmation is queued or on screen unanswered, and it belongs
\* to the thread that holds the mutex.
OneConfirmation ==
  /\ Len(queue) <= 1
  /\ \A c \in Conn :
       \/ \E i \in 1..Len(queue) : queue[i] = c
       \/ window[c] # None /\ ~window[c].pressed
       => lock = c

\* If c waits for a confirmation, it is queued for the main thread, on screen,
\* or answered.
ReachesUser(c) ==
  wpc[c] = "recv" => \/ \E i \in 1..Len(queue) : queue[i] = c
                     \/ window[c] # None /\ ~window[c].pressed
                     \/ answer[c] # "none"

\* The user can get to every confirmation that is being waited for, unless
\* Windows refused its message or its dialog, whose results ask_confirmation and
\* show_dialog do not look at.
ConfirmationReachesUser == \A c \in Conn : c \notin unheard => ReachesUser(c)

\* The agent itself loses no confirmation on its way from ask_confirmation over
\* the main loop of serve to the dialog and back: if one is lost, then because
\* the loop of the tray menu drops it from the head of the queue, or because
\* Windows refuses its message or its dialog at this very step.
LossesAreKnown ==
  [][\A c \in Conn :
       ReachesUser(c) => \/ ReachesUser(c)'
                         \/ mpc = "menu" /\ queue # << >> /\ Head(queue) = c
                         \/ c \in unheard' \ unheard]_vars

\* While a thread waits for the user's answer the main thread, which has to
\* show the dialog and process the click, does not wait for the mutex that
\* this thread holds.
MainThreadFreeToAnswer ==
  \A c \in Conn : wpc[c] = "recv" /\ answer[c] = "none" => mpc # "reload"

\* After a panic under the mutex no request is served and no signature made:
\* only responses that were already decided go out.
PoisonIsFailStop ==
  [][poisoned => /\ signed' = signed
                 /\ keys' = keys
                 /\ \A c \in Conn : resp'[c] \in {resp[c], None}]_vars

\* A request that was read is answered or its serving thread ends, also after
\* a handler has panicked, as long as the menu is left alone, the main thread
\* gets to its loop and Windows refuses neither message nor dialog.
RequestsAnswered ==
  \A c \in Conn :
    wpc[c] = "lock" ~> wpc[c] \in {"read", "closed"} \/ unheard # {} \/ mpc = "exited"

-----------------------------------------------------------------------------
(***************************************************************************)
(* The inductive invariant behind the safety properties.                   *)
(***************************************************************************)

\* The mutex is held by exactly the thread that is handling a request, or by
\* the main thread while it shows an error; nobody gets it once poisoned.
MutexConsistent ==
  /\ \A c \in Conn : lock = c <=> wpc[c] \in {"handle", "recv", "decided"}
  /\ lock = Main <=> mpc \in {"box", "boxmenu", "stuck"}
  /\ poisoned => lock = None

\* A thread past the read has a request, and only an asking thread an answer.
ThreadConsistent ==
  \A c \in Conn :
    /\ wpc[c] \notin {"read", "closed"} => req[c] \in Request /\ served[c] \in 1..MaxRequests
    /\ answer[c] # "none" => wpc[c] \in {"recv", "decided"}
    /\ wpc[c] = "decided" => answer[c] # "none"

\* What is known of a request whose confirmation was asked for.
AskConsistent ==
  \A c \in Conn :
    wpc[c] \in {"recv", "decided"} => /\ req[c].op = "SIGN_REQUEST"
                                     /\ req[c].key \in keys
                                     /\ (answer[c] = "yes" => EventOf(c) \in approved)

\* A posted confirmation has no dialog yet that could be clicked.
QueueConsistent ==
  /\ Len(queue) <= 1
  /\ \A i \in 1..Len(queue) :
       /\ wpc[queue[i]] = "recv"
       /\ answer[queue[i]] = "none"
       /\ window[queue[i]] # None => window[queue[i]].pressed

\* A dialog that can be clicked shows the request that is being waited for; a
\* pressed one is about to be destroyed, and is the only one.
WindowConsistent ==
  /\ \A c \in Conn : window[c] # None =>
       /\ window[c].pressed => mpc = "clicked"
       /\ window[c].linked => wpc[c] = "recv" /\ window[c].no = served[c]
       /\ ~window[c].pressed => /\ window[c].linked
                                /\ answer[c] = "none"
                                /\ window[c].key = req[c].key
  /\ \A c, d \in Conn :
       (window[c] # None /\ window[c].pressed /\ window[d] # None /\ window[d].pressed) => c = d

\* Who was not heard still waits, and nothing is on its way to the user or back.
UnheardConsistent ==
  \A c \in unheard :
    /\ wpc[c] = "recv" /\ answer[c] = "none"
    /\ \A i \in 1..Len(queue) : queue[i] # c
    /\ window[c] # None => window[c].pressed

\* Mutex, threads, message queue, dialogs and histories agree with each other.
Consistent ==
  /\ TypeOK
  /\ MutexConsistent
  /\ ThreadConsistent
  /\ AskConsistent
  /\ QueueConsistent
  /\ WindowConsistent
  /\ UnheardConsistent
  /\ ConsentPerSignature

-----------------------------------------------------------------------------
(***************************************************************************)
(* The agent implements ConfirmedSigning.                                  *)
(***************************************************************************)

PhaseOf(c) ==
  IF wpc[c] \in {"read", "closed"} \/ req[c].op # "SIGN_REQUEST" THEN "idle"
  ELSE IF wpc[c] \in {"lock", "handle"} THEN "asked"
  ELSE IF wpc[c] = "write"
       THEN IF resp[c] = "SIGN_RESPONSE" THEN "signed" ELSE "refused"
  ELSE IF answer[c] = "yes" THEN "consented"
  ELSE IF answer[c] = "no" THEN "refused" ELSE "asked"

Signing == INSTANCE ConfirmedSigning WITH phase <- [c \in Conn |-> PhaseOf(c)]

SigningIsConfirmed == Signing!Spec

-----------------------------------------------------------------------------
(***************************************************************************)
(* The agent implements AtomicServer.                                      *)
(***************************************************************************)

\* The keys after a request.
AfterRequest(r, before) == IF r.op = "ADD_IDENTITY" THEN before \cup {r.key} ELSE before

\* The response to a request, given the keys before it and whether the user
\* agreed and signing or saving succeeded.
Outcome(r, before, ok) ==
  CASE r.op = "SIGN_REQUEST"       -> IF ok /\ r.key \in before THEN "SIGN_RESPONSE" ELSE "FAILURE"
    [] r.op = "REQUEST_IDENTITIES" -> "IDENTITIES_ANSWER"
    [] r.op = "ADD_IDENTITY"       -> IF ok \/ r.key \in before THEN "SUCCESS" ELSE "FAILURE"
    [] r.op = "other"              -> "FAILURE"

\* A pipe or a socket takes any response.
Fits(response) == response \in Responses

\* A request takes effect when its response is known and the mutex given back.
StageOf(c) ==
  IF wpc[c] \in {"read", "closed"} THEN "idle" ELSE IF wpc[c] = "write" THEN "served" ELSE "waiting"

stages == [c \in Conn |-> StageOf(c)]

Atomic ==
  INSTANCE AtomicServer WITH
    Client <- Conn, States <- SUBSET Key, After <- AfterRequest, NoOutcome <- None,
    state <- keys, phase <- stages, asked <- req, outcome <- resp

\* Each request takes effect in one step, although the thread that handles it
\* may wait for the user while others want the keys or to replace them: the
\* response is the one for the keys at that step, not for keys it found before.
RequestsAreAtomic == Atomic!SessionSpec

=============================================================================
