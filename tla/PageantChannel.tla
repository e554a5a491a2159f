----------------------------- MODULE PageantChannel -----------------------------
(***************************************************************************)
(* listen_pageant: how PuTTY clients are served.                           *)
(*                                                                         *)
(* A client puts a request into a fresh shared mapping, sends its name to  *)
(* the window "Pageant" in a WM_COPYDATA message and waits.  The one       *)
(* thread of the window looks up who the client is, lets                   *)
(* connection_handler serve what is in the mapping, and copies what it     *)
(* wrote back into it.  The agent mutex is taken once for the lookup and   *)
(* once per request; the other channels and the tray menu compete for it.  *)
(* Requests and answers are texts of the wire format here.                 *)
(***************************************************************************)
EXTENDS Wire, KeyRing, SequencesExt

CONSTANTS
  Client,    \* PuTTY clients, each with one request
  Region,    \* cells of a mapping
  Added,     \* additions, also such as the agent cannot read
  Data,      \* texts a client may want to have signed
  Rings,     \* key lists that other channels and Reload leave
  MaxOther,  \* bound: times the others take the mutex
  MayPanic,  \* TRUE when a holder of the mutex may panic
  Listener,  \* the thread of the window, as holder of the mutex
  Other,     \* the others, as holder of the mutex
  None       \* no value

Request == [op : {"list", "other"}] \cup Added \cup [op : {"sign"}, key : Key, data : Data]

History == [before : Seq(KeyPair), after : Seq(KeyPair), ok : BOOLEAN]

ASSUME PageantAssumption ==
  /\ Key \subseteq {k \in PublicKey : k.e # << >> /\ k.n # << >>}
  /\ Name \subseteq Nat
  /\ Added \subseteq [op : {"add"}, type : Text, key : Key, name : Nat]
  /\ Region \in Nat
  /\ Data \subseteq Text
  /\ Rings \subseteq {r \in Seq(KeyPair) : DistinctKeys(r)}
  /\ MaxOther \in Nat
  /\ MayPanic \in BOOLEAN
  /\ None \notin Client \cup Request \cup History
  /\ Listener # Other /\ Listener # None /\ Other # None

VARIABLES
  place,     \* where the thread of the window is
  caller,    \* the client whose message it handles
  pos,       \* position of the Cursor in the mapping
  frame,     \* `buf` of connection_handler
  resp,      \* `resp` of wnd_proc
  ring,      \* Config::keys
  lock,      \* holder of the agent mutex
  poisoned,  \* a holder panicked
  others,    \* how often the others took the mutex
  up,        \* the process is running
  client,    \* each client: it has not sent, waits, has its answer, or SendMessage failed
  asked,     \* its request
  mapping,   \* its mapping
  seen       \* history: the key lists around its request, and whether all went well

threadVars == <<place, caller, pos, frame, resp>>
agentVars  == <<ring, lock, poisoned, others, up>>
clientVars == <<client, asked, mapping, seen>>
vars == <<place, caller, pos, frame, resp, ring, lock, poisoned, others, up,
          client, asked, mapping, seen>>

Init ==
  /\ place = "start"
  /\ caller = None
  /\ pos = 0
  /\ frame = << >>
  /\ resp = << >>
  /\ ring \in Rings
  /\ lock = None
  /\ poisoned = FALSE
  /\ others = 0
  /\ up = TRUE
  /\ client = [c \in Client |-> "idle"]
  /\ asked = [c \in Client |-> None]
  /\ mapping = [c \in Client |-> [i \in 1..Region |-> 0]]
  /\ seen = [c \in Client |-> None]

-----------------------------------------------------------------------------
(***************************************************************************)
(* Clients.                                                                *)
(***************************************************************************)

\* A message type and what belongs to it.  The four private numbers of a key
\* that is added are left out; its type may be any text, and its comment too.
RequestText(r) ==
  CASE r.op = "list"  -> << 11 >>
    [] r.op = "add"   -> << 17 >> \o (WriteString(r.type) \o (WriteString(Mpint(r.key.n))
                                \o (WriteString(Mpint(r.key.e)) \o WriteString(<< r.name >>))))
    [] r.op = "sign"  -> << 13 >> \o (WriteString(Encode(r.key))
                                      \o (WriteString(r.data) \o << 0 >>))
    [] r.op = "other" -> << 1 >>

\* A fresh mapping with a text in it.
Fresh(text) == [i \in 1..Region |-> IF i <= Len(text) THEN text[i] ELSE 0]

\* A client finds the window and sends its request; a longer one it does not.
SendCopyData(c, r) ==
  /\ up
  /\ place \notin {"start", "failed", "dead"}
  /\ client[c] = "idle"
  /\ Len(RequestText(r)) < Region
  /\ client' = [client EXCEPT ![c] = "waiting"]
  /\ asked' = [asked EXCEPT ![c] = r]
  /\ mapping' = [mapping EXCEPT ![c] = Fresh(WriteString(RequestText(r)))]
  /\ UNCHANGED <<threadVars, agentVars, seen>>

-----------------------------------------------------------------------------
(***************************************************************************)
(* The thread of the window.                                               *)
(***************************************************************************)

Goto(from, to) ==
  /\ up
  /\ place = from
  /\ place' = to

\* The window is made, and the loop begins.
CreateWindow ==
  /\ Goto("start", "loop")
  /\ UNCHANGED <<caller, pos, frame, resp, agentVars, clientVars>>

\* Pageant is running, or the window cannot be made: `listener` shows a box.
CreateFails ==
  /\ Goto("start", "failed")
  /\ UNCHANGED <<caller, pos, frame, resp, agentVars, clientVars>>

ExitProcess ==
  /\ Goto("failed", "failed")
  /\ up' = FALSE
  /\ UNCHANGED <<caller, pos, frame, resp, ring, lock, poisoned, others, clientVars>>

\* wnd_proc has no variables before it is called and after it has returned.
NoLocals ==
  /\ caller' = None
  /\ pos' = 0
  /\ frame' = << >>
  /\ resp' = << >>

\* A message is dispatched, and wnd_proc begins.
TakeMessage(c) ==
  /\ Goto("loop", "identify")
  /\ client[c] = "waiting"
  /\ caller' = c
  /\ UNCHANGED <<pos, frame, resp, agentVars, clientVars>>

\* find_memory_map_owner_process finds a process with a mapping of that name,
\* or none.
FindOwner ==
  /\ Goto("identify", "lock") \/ Goto("identify", "read")
  /\ UNCHANGED <<caller, pos, frame, resp, agentVars, clientVars>>

Lock(from, to) ==
  /\ lock = None
  /\ ~poisoned
  /\ Goto(from, to)
  /\ lock' = Listener
  /\ UNCHANGED <<caller, pos, frame, resp, ring, poisoned, others, up, clientVars>>

LockForRequester == Lock("lock", "collect")

\* A variant whose guard lives on into the handler.
MutCollectRequester ==
  /\ Goto("collect", "read")
  /\ UNCHANGED <<caller, pos, frame, resp, agentVars, clientVars>>

\* The description is collected, and the closure drops its guard.
CollectRequester ==
  /\ Goto("collect", "read")
  /\ lock' = None
  /\ UNCHANGED <<caller, pos, frame, resp, ring, poisoned, others, up, clientVars>>

\* What the Cursor has not read yet.
Rest == SubSeq(mapping[caller], pos + 1, Region)

\* A variant that stops at the end of the mapping only.
MutEndOfRequests ==
  /\ Goto("read", "copy")
  /\ Rest = << >>
  /\ UNCHANGED <<caller, pos, frame, resp, agentVars, clientVars>>

\* The mapping is at its end, or there is a zero: connection_handler returns.
\* So it does, with an error, when the length is more than what follows.
EndOfRequests ==
  /\ Goto("read", "copy")
  /\ HasString(Rest) => Head(Rest) = 0
  /\ UNCHANGED <<caller, pos, frame, resp, agentVars, clientVars>>

\* A variant whose reads do not move the Cursor.
MutReadRequest ==
  /\ Goto("read", "await")
  /\ HasString(Rest)
  /\ Head(Rest) # 0
  /\ frame' = FirstString(Rest)
  /\ UNCHANGED <<caller, pos, resp, agentVars, clientVars>>

ReadRequest ==
  /\ Goto("read", "await")
  /\ HasString(Rest)
  /\ Head(Rest) # 0
  /\ frame' = FirstString(Rest)
  /\ pos' = pos + 1 + Head(Rest)
  /\ UNCHANGED <<caller, resp, agentVars, clientVars>>

LockForRequest == Lock("await", "handle")

-----------------------------------------------------------------------------
(***************************************************************************)
(* handle_request, with the mutex held.                                    *)
(***************************************************************************)

\* A request is handled whose first byte is one of these.
Requested(types) ==
  /\ Goto("handle", "read")
  /\ frame[1] \in types

\* The answer is written to resp, and the guard dropped.
Reply(answer, ok) ==
  /\ resp' = resp \o WriteString(answer)
  /\ lock' = None
  /\ seen' = [seen EXCEPT ![caller] = [before |-> ring, after |-> ring', ok |-> ok]]
  /\ UNCHANGED <<caller, pos, frame, poisoned, others, up, client, asked, mapping>>

Failure == << 5 >>

ListedPair(pair) == WriteString(Encode(pair.key)) \o WriteString(<< pair.name >>)

Listing(r) == << 12, Len(r) >> \o FlattenSeq([i \in DOMAIN r |-> ListedPair(r[i])])

RequestIdentities ==
  /\ Requested({11})
  /\ ring' = ring
  /\ Reply(Listing(ring), TRUE)

\* KeyPair::from_wire succeeds: there are a type, the numbers and a comment, the
\* type is the one it knows, and the comment is UTF-8, as names are.
ReadsPair(text) ==
  LET n == AfterString(text)
      e == AfterString(n)
      comment == AfterString(e)
  IN /\ \A part \in {text, n, e, comment} : HasString(part)
     /\ FirstString(text) = SshRsa
     /\ FirstString(comment) \in {<< name >> : name \in Name}

\* A variant of KeyPair::from_wire that takes the numbers in the order of
\* PublicKey::decode.
MutFromWire(text) ==
  LET numbers == AfterString(text)
      last == AfterString(numbers)
  IN [key |-> [e |-> FromSlice(FirstString(numbers)), n |-> FromSlice(FirstString(last))],
      name |-> FirstString(AfterString(last))[1]]

\* What it returns then: n comes before e.
FromWire(text) ==
  LET numbers == AfterString(text)
      last == AfterString(numbers)
  IN [key |-> [n |-> FromSlice(FirstString(numbers)), e |-> FromSlice(FirstString(last))],
      name |-> FirstString(AfterString(last))[1]]

\* An addition that cannot be read is a FAILURE.  Otherwise add_key; the save of a
\* new pair may fail, but the pair stays in memory.
AddIdentity ==
  /\ Requested({17})
  /\ \/ /\ ~ReadsPair(Tail(frame))
        /\ ring' = ring
        /\ Reply(Failure, TRUE)
     \/ /\ ReadsPair(Tail(frame))
        /\ ring' = PushNew(ring, FromWire(Tail(frame)))
        /\ \/ Reply(<< 6 >>, TRUE)
           \/ ring' # ring /\ Reply(Failure, FALSE)

\* The signature of a key tells which key it is.
Signature(key) == WriteString(SshRsa) \o WriteString(key.n \o key.e)

SignResponse(key) == << 14 >> \o WriteString(Signature(key))

\* A variant of get_key that compares the moduli only.
MutGetKey(key) == {i \in DOMAIN ring : ring[i].key.n = key.n}

\* get_key: the pairs with that public key.
GetKey(key) == {i \in DOMAIN ring : ring[i].key = key}

\* The user agrees and the signature succeeds, or there is a FAILURE.
SignRequest ==
  /\ Requested({13})
  /\ ring' = ring
  /\ LET found == GetKey(Decode(FirstString(Tail(frame))))
     IN \E yes \in BOOLEAN :
          \/ \E i \in found : /\ yes
                             /\ \A j \in found : i <= j
                             /\ Reply(SignResponse(ring[i].key), yes)
          \/ ~(yes /\ found # {}) /\ Reply(Failure, yes)

UnknownRequest ==
  /\ Requested(Nat \ {11, 13, 17})
  /\ ring' = ring
  /\ Reply(Failure, TRUE)

-----------------------------------------------------------------------------
\* A variant that copies what fits.
MutCopyBack ==
  /\ Goto("copy", "loop")
  /\ mapping' = [mapping EXCEPT ![caller] =
                   [i \in 1..Region |-> IF i <= Len(resp) THEN resp[i] ELSE @[i]]]
  /\ client' = [client EXCEPT ![caller] = "answered"]
  /\ NoLocals
  /\ UNCHANGED <<agentVars, asked, seen>>

\* The response is copied to the mapping if it fits, and SendMessage returns.
CopyBack ==
  /\ Goto("copy", "loop")
  /\ mapping' = IF Len(resp) > Region THEN mapping
                ELSE [mapping EXCEPT ![caller] =
                        [i \in 1..Region |-> IF i <= Len(resp) THEN resp[i] ELSE @[i]]]
  /\ client' = [client EXCEPT ![caller] = "answered"]
  /\ NoLocals
  /\ UNCHANGED <<agentVars, asked, seen>>

\* A panic leaves an extern "system" function, which is undefined: the process
\* is aborted, or the thread ends, or the message loop goes on.  In each case
\* the client's SendMessage fails.
PanicOut ==
  /\ up
  /\ \/ place' = "dead" /\ up' = FALSE
     \/ place' \in {"loop", "dead"} /\ up' = up
  /\ client' = IF place' = "dead"
               THEN [c \in Client |-> IF client[c] = "waiting" THEN "failed" ELSE client[c]]
               ELSE [client EXCEPT ![caller] = "failed"]
  /\ NoLocals
  /\ UNCHANGED <<others, asked, mapping, seen>>

\* lock().unwrap() on a poisoned mutex, or from_utf16(..).unwrap() in the
\* lookup of the owner: nothing is locked.
PanicsUnlocked ==
  /\ \/ place \in {"lock", "await"} /\ lock = None /\ poisoned
     \/ place = "identify" /\ MayPanic
  /\ PanicOut
  /\ UNCHANGED <<ring, lock, poisoned>>

\* The mapping could not be opened or viewed, and nothing looks at that: the slice
\* begins at NULL, and the first read from it ends the process.
MappingFaults ==
  /\ place = "read"
  /\ pos = 0
  /\ PanicOut
  /\ ~up'
  /\ UNCHANGED <<ring, lock, poisoned>>

\* An unwrap inside collect_requester_info or handle_request, the save of a key
\* that was just pushed included.
PanicsLocked ==
  /\ MayPanic
  /\ place \in {"collect", "handle"}
  /\ \/ ring' = ring
     \/ /\ place = "handle" /\ frame[1] = 17 /\ ReadsPair(Tail(frame))
        /\ ring' = PushNew(ring, FromWire(Tail(frame)))
  /\ PanicOut
  /\ lock' = None
  /\ poisoned' = TRUE

-----------------------------------------------------------------------------
OtherLocks ==
  /\ up
  /\ others < MaxOther
  /\ lock = None
  /\ ~poisoned
  /\ lock' = Other
  /\ others' = others + 1
  /\ UNCHANGED <<threadVars, ring, poisoned, up, clientVars>>

\* Another channel has added a key, Reload has replaced them, or neither.
OtherUnlocks ==
  /\ up
  /\ lock = Other
  /\ lock' = None
  /\ ring' \in Rings \cup {ring}
  /\ \/ poisoned' = poisoned
     \/ MayPanic /\ poisoned' = TRUE
  /\ UNCHANGED <<threadVars, others, up, clientVars>>

Handle == RequestIdentities \/ AddIdentity \/ SignRequest \/ UnknownRequest

WindowThread ==
  \/ CreateWindow \/ CreateFails \/ ExitProcess
  \/ \E c \in Client : TakeMessage(c)
  \/ FindOwner \/ LockForRequester \/ CollectRequester
  \/ EndOfRequests \/ ReadRequest \/ LockForRequest
  \/ Handle \/ CopyBack
  \/ PanicsUnlocked \/ PanicsLocked \/ MappingFaults

\* The process or the thread has ended, or every client is through.
Finished ==
  /\ ~up \/ place = "dead" \/ \A c \in Client : client[c] \in {"answered", "failed"}
  /\ UNCHANGED vars

Next ==
  \/ WindowThread
  \/ \E c \in Client, r \in Request : SendCopyData(c, r)
  \/ OtherLocks
  \/ OtherUnlocks
  \/ Finished

Spec == Init /\ [][Next]_vars

(***************************************************************************)
(* Fairness.  The thread of the window runs when it can, and whoever holds *)
(* the mutex lets go of it; clients need not send anything.  Weak fairness *)
(* is enough for the mutex because it is taken a bounded number of times.  *)
(***************************************************************************)
Fairness == WF_vars(WindowThread /\ place \notin {"start", "failed"}) /\ WF_vars(OtherUnlocks)

FairSpec == Spec /\ Fairness

-----------------------------------------------------------------------------
(***************************************************************************)
(* Properties.                                                             *)
(***************************************************************************)

TypeOK ==
  /\ place \in {"start", "loop", "identify", "lock", "collect", "read", "await", "handle",
                "copy", "failed", "dead"}
  /\ caller \in Client \cup {None}
  /\ pos \in 0..Region
  /\ frame \in Text
  /\ resp \in Text
  /\ ring \in Seq(KeyPair) /\ DistinctKeys(ring)
  /\ lock \in {Listener, Other, None}
  /\ poisoned \in BOOLEAN
  /\ others \in 0..MaxOther
  /\ up \in BOOLEAN
  /\ client \in [Client -> {"idle", "waiting", "answered", "failed"}]
  /\ asked \in [Client -> Request \cup {None}]
  /\ mapping \in [Client -> [1..Region -> Nat]]
  /\ seen \in [Client -> History \cup {None}]

\* The mutex is held for the lookup and for a request, and by nobody once it is
\* poisoned.
MutexConsistent ==
  /\ lock = Listener <=> place \in {"collect", "handle"}
  /\ poisoned => lock = None

\* The thread handles a message from its dispatch to the copy, and the client
\* waits all the while.
CallerConsistent ==
  /\ caller # None <=> place \in {"identify", "lock", "collect", "read", "await", "handle", "copy"}
  /\ caller # None => client[caller] = "waiting"

\* The agent can read an addition.
WellFormed(r) == r.type = SshRsa /\ r.name \in Name

\* The answer to a request, given the keys before it and whether all went well.
Outcome(r, before, ok) ==
  CASE r.op = "list"  -> Listing(before)
    [] r.op = "add"   -> IF ok /\ WellFormed(r) THEN << 6 >> ELSE Failure
    [] r.op = "sign"  -> IF ok /\ r.key \in KeysOf(before) THEN SignResponse(r.key)
                         ELSE Failure
    [] r.op = "other" -> Failure

\* The same, given the history of its handling.
Expected(r, h) == Outcome(r, h.before, h.ok)

\* The keys after a request.
AfterRequest(r, before) ==
  IF r.op = "add" /\ WellFormed(r) THEN PushNew(before, [key |-> r.key, name |-> r.name])
  ELSE before

Fits(answer) == Len(answer) < Region

\* A request has been handled; if it was an addition that can be read, the agent
\* has that key now, and in any case no other that it had not before.
Handled(r, h) ==
  /\ h # None
  /\ r.op = "add" =>
       KeysOf(h.after) = IF WellFormed(r) THEN KeysOf(h.before) \cup {r.key} ELSE KeysOf(h.before)

\* A mapping has the request in it, and nothing else.
Intact(r, m) ==
  /\ r # None
  /\ Len(RequestText(r)) < Region
  /\ m = Fresh(WriteString(RequestText(r)))

\* Until a client has its answer, its mapping has the request in it.
MessagesConsistent == \A c \in Client : client[c] = "waiting" => Intact(asked[c], mapping[c])

Unread  == pos = 0 /\ resp = << >>
Read    == pos = Len(RequestText(asked[caller])) + 1
Replied == /\ Handled(asked[caller], seen[caller])
           /\ resp = WriteString(Expected(asked[caller], seen[caller]))

\* The request is read once, and there is the one response to it when nothing
\* more is read.
CursorConsistent ==
  /\ place \notin {"read", "await", "handle", "copy"} => Unread
  /\ place = "read" => Unread \/ (Read /\ Replied)
  /\ place \in {"await", "handle"} => Read /\ resp = << >> /\ frame = RequestText(asked[caller])
  /\ place = "copy" => Read /\ Replied

\* What a client takes from its mapping when it has its answer.
Answer(c) == FirstString(mapping[c])

\* It takes the answer to its own request, or finds the request unchanged.
AnswersConsistent ==
  \A c \in Client : client[c] = "answered" =>
    /\ asked[c] # None
    /\ Handled(asked[c], seen[c])
    /\ IF Fits(Expected(asked[c], seen[c])) THEN Answer(c) = Expected(asked[c], seen[c])
       ELSE Intact(asked[c], mapping[c])

\* Mutex, message, Cursor and mapping agree with each other.
Consistent ==
  /\ TypeOK
  /\ MutexConsistent
  /\ CallerConsistent
  /\ MessagesConsistent
  /\ CursorConsistent
  /\ AnswersConsistent

Answered(c, op) == client[c] = "answered" /\ asked[c].op = op

\* A client that reads a listing as RFC 4251 and the agent protocol say.
Lists(answer, r) ==
  LET rest[i \in 0..Len(r)] == IF i = 0 THEN SubSeq(answer, 3, Len(answer))
                               ELSE AfterString(AfterString(rest[i - 1]))
  IN /\ answer[1] = 12
     /\ answer[2] = Len(r)
     /\ \A i \in DOMAIN r : /\ MeansKey(FirstString(rest[i - 1]), r[i].key)
                            /\ FirstString(AfterString(rest[i - 1])) = << r[i].name >>
     /\ rest[Len(r)] = << >>

\* A listing that fits is copied back whole, and the client finds in it all the
\* keys the agent had while it held the mutex, with their numbers and names.
ListingIsReadable ==
  \A c \in Client :
    Answered(c, "list") /\ Fits(Listing(seen[c].before)) => Lists(Answer(c), seen[c].before)

\* A signature is by the key the client has named, and there is one exactly
\* if the agent has that key and the user agrees.
SignedAsAsked ==
  \A c \in Client :
    Answered(c, "sign") /\ Fits(SignResponse(asked[c].key)) =>
      Answer(c) = IF seen[c].ok /\ asked[c].key \in KeysOf(seen[c].before)
                  THEN SignResponse(asked[c].key) ELSE Failure

\* After ssh-add the agent has the very key that was sent, also if its numbers
\* have their highest bits set or the answer is a FAILURE because the save failed,
\* and no other that it had not before.  An addition of another type, or with a
\* comment that is not UTF-8, is answered with a FAILURE and changes no key.
AddedAsSent ==
  \A c \in Client :
    Answered(c, "add") =>
      LET readable == WellFormed(asked[c])
      IN /\ KeysOf(seen[c].after) = IF readable THEN KeysOf(seen[c].before) \cup {asked[c].key}
                                    ELSE KeysOf(seen[c].before)
         /\ Answer(c) = IF readable /\ seen[c].ok THEN << 6 >> ELSE Failure

\* The first byte of an answer, by which a client knows that it is one.
AnswerTypes == {5, 6, 12, 14}

\* When an answer does not fit, the client does not take for one what it finds,
\* neither a part of the answer nor an answer to somebody else.
TooLongIsNoAnswer ==
  \A c \in Client :
    client[c] = "answered" /\ ~Fits(Expected(asked[c], seen[c])) => mapping[c][2] \notin AnswerTypes

\* A request has taken effect when there is a response to it.
PhaseOf(c) == IF caller = c /\ resp # << >> THEN "served" ELSE client[c]

\* Its outcome is in that response, and then in the mapping, if the client finds
\* an answer there.
OutcomeOf(c) ==
  IF PhaseOf(c) = "served" THEN FirstString(resp)
  ELSE IF PhaseOf(c) = "answered" /\ mapping[c][2] \in AnswerTypes THEN Answer(c)
  ELSE << >>

phases   == [c \in Client |-> PhaseOf(c)]
outcomes == [c \in Client |-> OutcomeOf(c)]

Atomic ==
  INSTANCE AtomicServer WITH
    States <- Rings, After <- AfterRequest, NoOutcome <- << >>,
    state <- ring, phase <- phases, outcome <- outcomes

\* A request of a PuTTY client takes effect in one step and once at most, however
\* often connection_handler goes round its loop and whoever else takes the mutex,
\* and what the client takes from its mapping is the outcome of that very step.
RequestsAreAtomic == Atomic!Spec

\* SendMessage returns to every client that called it, also while a confirmation
\* for another channel is pending and after panics, unless the process ends.
SenderIsReleased ==
  \A c \in Client : client[c] = "waiting" ~> client[c] \in {"answered", "failed"} \/ ~up

=============================================================================
