# ssh-keys: specifications, model checking and proofs

ssh-keys is an ssh-agent and Pageant for Windows: it keeps RSA keys in a file,
serves them to OpenSSH, WSL1 and PuTTY clients, and asks the user before each
signature. This directory holds TLA+ modules translated from its source, the
TLC runs that check them and the TLAPS proofs about them. Paths below are
relative to the repository root.

## 1. Inventory

### Components, their state and operations

| component | source | state | operations |
|---|---|---|---|
| connection handling | `src/utils.rs` | one thread per connection, its buffers | read a frame, lock the agent, handle, unlock, write the response |
| agent | `src/agent/mod.rs` | `Config::keys` behind `Arc<Mutex<Agent>>` | request identities, add identity, sign request; everything else fails |
| confirmation | `src/platform/win/confirmation.rs` | a `Confirmation` on the asking thread's stack, a pointer to it in the message queue and in `DWLP_USER`, a channel, the dialog | `ask_confirmation`, `WM_INITDIALOG`, button click, `WM_DESTROY`, the `Finally` guard |
| main thread, tray menu | `src/platform/win/mod.rs`, `taskbar.rs` | the message queue, `dialog`, the open menu | message loop, context menu, Exit, Reload, error box |
| key list | `src/key/`, `agent/mod.rs` | key pairs: private, public, name | `get_key`, `add_key`, PEM and TOML (de)serialization, signing |
| configuration file | `src/config.rs`, `src/main.rs` | `config.toml`, memory of each process, the named mutex | load and save at launch, save after add, reload, the user's edits |
| named pipe listener | `src/platform/win/pipe.rs` | the current pipe instance, connected instances | create, connect, look up the client, spawn, release |
| requester description | `src/platform/win/utils.rs`, `process_describers/` | the stack of a walk; the process table and the windows are the system's | walk to the parent processes, find the main window, describe |
| Pageant channel | `src/platform/win/pageant/` | a window and its thread, the client's shared mapping, the Cursor in it, the response | `WM_COPYDATA`: look up, serve from the mapping, copy the response back |
| Unix socket channel | `src/platform/win/unix_socket.rs` | a socket | accept, spawn |
| wire codec | `src/agent/wire.rs`, `src/key/mod.rs` | none | strings, mpints, public and private keys |
| copy-id | `src/copy_id.rs` | the remote `authorized_keys` | append a public key |
| unix platform | `src/platform/unix/` | - | does not fit the current `Agent` |

How they interact: the three listeners and the tray menu share the agent
through one mutex. A serving thread keeps the mutex for all of
`handle_request`, the wait for the user included. It reaches the main thread by
a posted thread message that carries a raw pointer, and is answered over a
channel. `add_key` and Reload go to the file with the mutex held, so within a
process saves and loads do not overlap; between processes only the named mutex
stands, and it is looked at after the first save.

### What is hard

* the mutex is held across a wait for the user, the main thread takes the same
  mutex (Reload), and the main thread is the one that delivers the answer;
* thread messages are lost in modal loops, and refused before the main thread
  has a queue; neither the post nor the dialog is checked for success;
* a pointer to another thread's stack outlives the code that made it unless
  the `Finally` guard resets it in time;
* panics poison the mutex, and what each thread does then differs;
* saving truncates first, and several processes save;
* the file identifies pairs by name, memory by public key;
* the pipe has a gap between two instances and between two system calls;
* process ids and parent ids are looked at while processes start and end, and
  ids are used again;
* PuTTY's mapping has no end of stream: where the loop stops, and what the
  client finds when the answer is too long, depends on what else is in it;
* numbers and keys are written in three orders and with or without a leading
  zero, by three functions that must agree.

`PROJECT.json` lists these, and the smaller ones, as hazards at their lines.

### What makes each component correct

* confirmation: a signature only after a Yes to that request; one question at a
  time; each question reaches the user; no dangling pointer is used;
* agent: the key being confirmed stays; requests are answered; fail-stop after
  a panic;
* file: an acknowledged key is there after any launch; a removed one is not;
  the launch itself changes nothing;
* key list: public keys stay distinct;
* pipe listener: each client gets one serving thread, and its instance is
  released; opening the pipe harms nobody;
* requester description: what is shown is who asked, and the walk, which holds
  the mutex, ends;
* Pageant channel: a client reads the answer to its own request, or can tell
  that there is none, and its `SendMessage` returns;
* wire codec: what is written is read back as what it was, and a client that
  follows RFC 4251 reads the same.

## 2. Modules

| module | what it is | about the code |
|---|---|---|
| `ConfirmedSigning` | abstract | what a user is promised about signatures |
| `AtomicServer` | abstract | what a client is promised about a request to a server with a shared state: one request (`Spec`), or a connection with one after the other (`SessionSpec`) |
| `AgentService` | detailed | connection threads, mutex, confirmation, main thread, tray menu |
| `AgentServiceProofs` | proofs | its invariant, its safety properties, the refinements of `ConfirmedSigning` and `AtomicServer` |
| `KeyRing` | operators | the list of pairs, `get_key`, `add_key`, what the TOML tables need |
| `KeyRingProofs` | proofs | what these operators keep, for every list |
| `KeyStore` | abstract | permanent key storage: what is stored, what was acknowledged |
| `ConfigStore` | detailed | the file, the processes that use it, the user who edits it |
| `ConfigStoreProofs` | proofs | invariants, permanent storage, the refinement |
| `PipeListener` | detailed | pipe instances and the listener |
| `PipeListenerProofs` | proofs | its invariant |
| `Requester` | detailed | `collect_requester_info` over a changing process table |
| `RequesterProofs` | proofs | its invariants, who is shown, that nobody is visited twice |
| `Wire` | operators | strings, mpints, `encode` and `decode` of public keys |
| `WireProofs` | proofs | the round trips and what a client reads, for every string, number and key |
| `PageantChannel` | detailed | the window thread, the mapping, `connection_handler` on it, the handlers on wire texts; uses `Wire` and `KeyRing` |
| `PageantChannelProofs` | proofs | what texts and mappings read as, its invariant, its safety properties, the refinement of `AtomicServer` |
| `MCAgentService`, `MCConfigStore`, `MCPipeListener`, `MCPageantChannel` | model checking | symmetry sets, keys and key lists |

Definitions named `Mut...` are variants of the definition that follows them,
each with a plausible bug. They are part of no specification; they serve to see
that each checked property notices such a bug.

### AgentService

`wpc` is the place of each serving thread in `connection_handler` and
`handle_request`: `read` (`utils.rs:35`), `lock` (`:50`), `handle` (inside
`handle_request`), `recv` (`confirmation.rs:279`), `decided` (back in
`agent/mod.rs:117`), `write` (`utils.rs:54`), `closed`. The guard of the mutex
lives until the end of the block at `utils.rs:52`, so `lock` is held in
`handle`, `recv` and `decided`, and released before the response is written.
`mpc` is the place of the main thread: before its window is made (`start`, with
the listeners already running, `win/mod.rs:89-93`), its loop, the modal loop of
the menu, waiting for the mutex in Reload, the error box, the menu opened over
that box (`boxmenu`: the loop of `MessageBoxA` dispatches to `wnd_proc`), the
Reload chosen there, which locks the mutex its own thread holds (`stuck`),
between `sender.send` and the end of `DestroyWindow` (`clicked`), after
`PostQuitMessage`, and gone.

`queue` holds the `WM_SHOW_CONFIRMATION` messages; an element is the connection
whose stack frame the pointer refers to. `window[c]` records what the dialog of
`c` shows (key and number of the request), whether `DWLP_USER` still points to
the `Confirmation`, and whether a button was pressed. `answer[c]` is the
channel. `approved` and `signed` are histories for the properties, and so is
`unheard`: the connections whose message `PostThreadMessageA` refused
(`AskUnheard`, `confirmation.rs:277`) or whose dialog `CreateDialogParamA` did
not make (`DialogRefused`, `:256`). The code looks at neither result; the thread
waits in `recv`, with the mutex, for an answer that cannot come. This may happen
at any time, so `ConfirmationReachesUser` is about the other connections, and
`LossesAreKnown` says that a confirmation on its way is lost to the menu's loop or
at such a step, by nothing else the agent does.

`keys` is a set: that the list never has a key twice is proved in
`ConfigStoreProofs`. A save that fails (`AddIdentity` with FAILURE) leaves the
key in memory, as the code does. Reload may bring any keys. An answer of Yes
may still end in FAILURE (signing fails). A panic of a handler is a step of its
own (`HandlerPanics`), behind the constant `MayPanic`: the unwraps of
`read_mpint`, `write_mpint` and of the serialization run with the mutex held.

It implements two abstract specifications. For `ConfirmedSigning`, `PhaseOf`
tells how far a signature has come. For `AtomicServer`, `StageOf` maps a
connection: `idle` while it reads or is closed, `waiting` until the response is
known and the mutex given back, `served` until it is written. So a request takes
effect when the guard of the mutex is dropped, with the keys of that moment;
Reload is an `Interfere`, and a thread that panics gives up.

What the model adds from outside the repository: a thread message that a modal
menu loop retrieves is dispatched to no window (`MenuLoopDropsMessage`), as the
documentation of `PostThreadMessage` states, and the same function fails for a
thread without a queue; the loop of `MessageBoxA` dispatches messages to other
windows and ends at a `WM_QUIT`; `GetMessage` delivers posted messages before
`WM_QUIT`.

### ConfigStore

`pc[p]` follows a process from `off` through `loaded` (`main.rs:54`), `created`
(after `File::create`) and `saved` (`main.rs:55`) to `serving`; `pushed` and
`truncated` are inside `add_key`. `file` is missing, empty, a complete text of a list
of pairs, or damaged (a text that no list has). A complete text loads if no two
names are equal, because each pair is a table `[keys.<name>]`. The empty file
does not load: `Config` has no default for `keys`. A damaged text remembers the
complete blocks in it, because they may end up behind another text.

A `write_all` starts at the beginning of the file, which another process may
have written in between. Then the end of a longer text stays (`Overlay`), and
where the lengths of the blocks agree this is a complete text of another list
(`Mixed`), with the first blocks of one and the last of the other, a key twice
among them perhaps. One that is cut short leaves any beginning in front of what
is left of the old text (`Torn`, `Remains`), whose first block may have lost the
front of its name. `overlapped` records, for good, that a save wrote into a text
that was not empty; `MemoryHasDistinctKeys` holds until then, and without this
condition TLC violates it in `store_two`. `MaxBlocks` bounds the mixtures.

`acked` is what ssh-add was told SUCCESS for, `removed` what the user deleted,
and `interrupted` becomes true, for good, when a save of the agent fails, when a
write fails, or when a process is killed between `File::create` and the end of
`write_all`. The code promises nothing for that case: the file is truncated
first, and a key that could not be saved stays in memory, where the next ssh-add
finds it and is told SUCCESS.

The constant `Faults` says what may go wrong. `{}` is the regular use: nothing
fails, and the user neither reuses a name, nor edits the file while it is saved,
nor runs ssh-add between an edit and the Reload or restart that makes the agent
see it. Names in `FaultKinds` lift these one by one.

### PipeListener

`lpc` follows the body of the loop at `pipe.rs:86-130`, `pipe` is the instance
of the current iteration, `thread[c]` the thread spawned for the client. A
client can open the pipe only while there is a free instance, which is from
`CreateNamedPipeA` until the client is there. What a request does with the
mutex is one step here, because `AgentService` has the detail; Pageant, the
Unix socket and Reload are `Other`.

### Requester

`status`, `pid` and `creator` are the system's process table: a process starts
at most once, with any id that no running process has, and its parent's id
stays when the parent is gone. `win` is what `find_primary_window` finds and
whether it is on screen. All of this changes between any two steps of the walk.
`place` follows `collect_requester_info` (`win/utils.rs:273-305`): `waiting`
for the agent mutex with the id already looked up (`pipe.rs:112-114`), `window`
and `parent` in the loop, `choose` for the main process, `short` and `long` for
the descriptions. `stack` holds ids, as in the code; which process a
description is about is decided by who has the id when it is opened, which
fails for the processes in `Protected` and for ids nobody has. Titles, command
lines and versions are abstracted to the process they are taken from.

The depth of the walk is bounded by `MaxDepth`: one that would go on is stuck
there. `WalkEnds` therefore says that a walk reaches its end if no set of
running processes has parent ids that lead round in it (`Cyclic`); the run
leaves room for all three processes. With a cycle the code does not come to an
end, and the agent mutex stays taken.

### Wire

Texts are sequences of cells. A number has digits to the base `Base`, 256 in the
code, and a length takes one cell instead of four bytes. `Mpint` puts a
zero in front of a number whose first digit is at least half the base
(`wire.rs:33-39`), `FromSlice` drops leading zeros, as OpenSSL does. `MeansNumber`
and `MeansKey` are the reader's side as RFC 4251 has it, written without
reference to `Encode`.

### PageantChannel

`place` follows the thread of the window: creating it, the message loop,
`identify` (`find_memory_map_owner_process`), `lock` and `collect` (the lookup
of the requester), `read` and `await` (`utils.rs:35`, `:50`), `handle`, `copy`
(`pageant/mod.rs:86-92`). `mapping[c]` is the memory the client shares, `pos`
the Cursor in it, `frame` and `resp` the two buffers. Requests and answers are
texts of `Wire`, of which `RequestText` is the client's side; the handlers read
keys and names out of `frame` and `ring` is a `KeyRing` list. So the module
composes the framing, the codec, `get_key` and `add_key` with the mutex, for
which the other channels and Reload compete (`Other`). `seen` is a history: the
key list before and after the request of a client and whether the user agreed
and the save and the signature succeeded.

`Added` are the additions clients send, also such as `KeyPair::from_wire`
refuses: another key type (`key/mod.rs:47`), a comment that is not UTF-8
(`:144`; the cells in `Name` are those that are). `ReadsPair` is its success,
`FromWire` its result. A refused addition is answered with FAILURE and nothing
is pushed; one whose save fails is answered with FAILURE and stays in memory.
`WellFormed` says the same of the request as the client has it, without the
wire, for `Outcome`, `AfterRequest` and `AddedAsSent`.

The results of `OpenFileMappingA` and `MapViewOfFile` are not looked at
(`pageant/mod.rs:55-65`): when they fail the slice begins at NULL, and the first
read from it ends the process (`MappingFaults`).

A confirmation is the choice `yes` in `SignRequest`, because `AgentService` has
the detail. A panic leaves `wnd_proc`, which Windows called: that is undefined,
and `PanicOut` has the three outcomes a build can have. A handler that panics
while a key is saved leaves the pushed key in memory (`PanicsLocked`). Whether anything but
the request is in a mapping is up to the client; PuTTY's mappings are fresh.
The four private numbers of a key that is added are left out.

It implements `AtomicServer!Spec`: a request takes effect in `handle`, when the
response is in `resp` (`PhaseOf`), is delivered when the response is copied to
the mapping, and has no outcome when it does not fit. A panic fails the client
of the message, or all clients when the thread goes, and the key of that one
request may have been added all the same.

## 3. Runs

| run | result | bounds |
|---|---|---|
| `service_safety` | all properties hold | 2 connections, 2 keys, 2 requests each, 2 menus, panics, refused messages and dialogs; 927 696 states up to symmetry |
| `service_live` | hold | 2 connections, 1 key, 2 requests each, no menu, panics, refused messages and dialogs; 32 984 states; deadlock checked |
| `service_menu` | `ConfirmationReachesUser` is violated | 1 request each, 1 menu |
| `service_reload` | `MainThreadFreeToAnswer` is violated | 1 request each, 1 menu |
| `store_regular` | hold | 1 process, 3 keys, 3 names, kills and failing saves; 18 377 states |
| `store_two` | hold | 2 processes, 2 keys, 2 names, mixtures of up to 3 blocks, all faults; 170 996 states up to symmetry |
| `store_same_name` | `PermanentStorage` is violated | 1 process, 2 keys, 2 names, equal names |
| `store_stale_save` | `RemovedStaysRemoved` is violated | 1 process, ssh-add before Reload |
| `pipe_serves` | hold | 3 clients, 1 request each, 1 use of the mutex by others, panics; deadlock checked |
| `pipe_early` | `OpeningIsHarmless` is violated | 2 clients |
| `requester_walk` | hold | 3 processes, 3 ids, one process that cannot be opened, 1 change of a window, walks of 4; 512 997 states; deadlock checked |
| `pageant_serves` | hold | 2 clients with one request each, 3 keys to the base 4, additions of them, of another type and with a garbled comment, mappings of 24 cells, 1 use of the mutex by others, panics; 342 812 states; deadlock checked |

Why the bounds are enough. Two connections are what it takes to compete for
the mutex and for the user; a second request on a connection is what it takes
to confuse an answer, a dialog or a pointer with those of the previous one; the
menu has to be open once to drop a message or to lead to Reload, and once more
to be opened over the error box of that Reload. In the store,
two keys and two names give equal names and different orders, three give a list
with a middle; two processes give every overlap of two saves, and with two keys
a mixture of three blocks has one of them twice. Three pipe
clients are one being served, one with the listener and one that finds no
instance. Three processes are a client, its parent and an unrelated process
that takes over an id; all three can share one in turn, and a cycle of parents
comes about. In `pageant_serves` two keys share their modulus, two numbers have
their highest bit set, and 24 cells are filled exactly by one listing and by one
request to sign, too short for another listing, and long enough for the rest.
The proofs below remove the bounds for the safety properties.

`CHECK_DEADLOCK FALSE` is set where the program really may stop:
`service_safety` includes the deadlock of Reload with a pending confirmation,
and in the store an unloadable file (or its last block deleted) leaves nothing
that can be launched.

### What the violations show

* `service_menu`: a request arrives while the tray menu is open; the posted
  message is lost and no dialog appears. The asking thread waits for ever with
  the mutex held, so from then on no request is served.
* `service_reload`: the user chooses Reload while a confirmation is pending.
  The main thread waits for the mutex, its holder for the main thread.
* `store_same_name`: ssh-add sends the comment as the name. Two keys with one
  comment are both saved as `[keys.<comment>]`; the next launch refuses the file.
* `store_stale_save`: README.md says how to remove a key; unless the agent is
  told to reload first, the next ssh-add writes the removed key back.
* `pipe_early`: a client that is faster than `ConnectNamedPipe` makes it return
  0 with ERROR_PIPE_CONNECTED; the listener takes that for a failure, and the
  process ends.

### Fairness

`AgentService!Fairness`: threads that can run do run, the main loop takes the
messages posted to it, and the user presses a button of a dialog that stays up
(an assumption about the user; the code has no timeout). The main thread starts
or fails to. That a message can be posted and a dialog made is not assumed:
`RequestsAnswered` promises nothing once Windows has refused one. No peer has to send
anything and nobody has to open the menu. Weak fairness suffices for the mutex,
although `std::sync::Mutex` promises no order, because each connection takes it
at most `MaxRequests` times. `PipeListener!Fairness` is of the same kind; that
a holder of the mutex lets go of it is, for a confirmation, what `service_live`
checks. `Requester!FairSpec` assumes that the thread that holds the mutex runs; the
process table may do anything or nothing. `PageantChannel!Fairness` is that the
thread of the window runs when it can and that others let go of the mutex; no
client has to send anything. Dismissing an error box is not assumed.

## 4. Proofs

TLAPS checks every leaf. Assumptions on constants are the named ASSUMEs of the
modules; TLC evaluates them on each run.

* **AgentService.** `Consistent` is inductive: the typing invariant,
  `MutexConsistent` (who holds the mutex, by place), `ThreadConsistent`,
  `AskConsistent` (what is known of a request that is being confirmed),
  `QueueConsistent` (at most one posted message, of a thread in `recv`, with no
  dialog that could be clicked), `WindowConsistent` (a dialog that can be
  clicked shows the request that is waited for; a pressed one is the only one
  and about to go) and `ConsentPerSignature`. The safety properties do not
  follow from the types: that no other dialog can answer needs
  `QueueConsistent` and `WindowConsistent`, these need that one thread at a
  time asks, and that is `MutexConsistent`. `ThreadStep` and `MainStep` have a
  case per action. From it follow all invariants of `service_safety`,
  `PoisonIsFailStop`, and `ImplementsConfirmedSigning`: each step is one of
  `ConfirmedSigning` or a stutter under the mapping `PhaseOf`. For
  `ServiceIsAtomic` the step that matters is the end of a confirmation: that its
  response is the one for the keys of that step, and not of the step that asked,
  needs that the key is still there (`AskConsistent`), which in turn needs the
  mutex around Reload. `NothingElseLosesConfirmations`, which is
  `LossesAreKnown`, follows a confirmation on its way, message, dialog, answer:
  `ThreadKeepsReach` and `MainKeepsReach` show that each step passes it on, but
  the menu's and those at which Windows refuses the message or the dialog.
  `UnheardConsistent` is there for the latter: who was not heard has nothing on
  its way any more. `MenuStaysClosed`
  extends it for an agent whose menu is never opened, and gives
  `ConfirmationsArrive`.
* **KeyRing.** `PushNewIsSafe`, `PushNewParses`, `FrontIsSafe` and
  `RemoveAtIsSafe` say what adding, cutting and deleting keep, for every list.
* **ConfigStore, all faults, any number of processes.** `StoreConsistent` is
  inductive (types, one agent, and until a save overlaps another's text distinct
  keys in memory and in the file); it gives `KeysStayDistinct` and
  `AgentIsUnique`. The file has to be in the invariant because Reload copies it
  to memory. `OverlayIsTyped` and `TornIsTyped` bound what any save may leave;
  `SaveKeepsDistinct` shows that what one into an empty file leaves, whole or
  torn, has distinct keys (`SaveIsWhole`, `TornIsHonest`).
* **ConfigStore, one process that may be killed and whose saves may fail.**
  `StorageConsistent` has two parts. `TextIsHonest` holds whatever fails: a save
  writes only over a file that the same process has emptied, so what a torn save
  leaves is a part of a list without removed keys, and a launch that could not
  read the file never gets as far as saving. It gives `RemovalIsFinal` and
  `LaunchIsSafe`. `FileIsGood` and `MemoryIsGood` hold until a save is
  interrupted and relate the file, the memory at each place of `pc`, and the
  histories. They give `StorageSurvives` and `ImplementsKeyStore`: File::create
  of `add_key` is the step that adds to the abstract store, the end of the save
  or a repeated ssh-add the one that acknowledges, an interrupted save is
  `Break`. The hypotheses are part of the statements: `OneProcess`, `UserWaits`
  (no edit during a save, no ssh-add between an edit and the Reload) and, for
  `StorageSurvives`, no `same_name`; `store_stale_save` and `store_same_name`
  show that the last two are needed.
* **PipeListener.** `Consistent` is inductive and contains `HandedOverOnce`.
* **Requester.** `IsAncestor` quantifies over closed sets of processes instead
  of recurring, so that its transitivity is a lemma. `ChainConsistent` is what
  `ShowsTheAsker` needs: the ids on the stack belong, as long as no id was used
  twice, to processes that descend from one another. `AskerIsShown`,
  `AskerIsFirst` and `VisibleOneIsShown` follow. The walk itself knows no bound.
  `VisitsConsistent` says that no two processes descend from each other, which
  holds because a process that starts is nobody's creator yet
  (`StartKeepsDescent`); were the parent of the current process on the stack
  already, the two would (`ParentIsNew`). This gives `NobodyIsVisitedTwice` and,
  because visited processes have different ids, `WalkIsBounded`: the stack is
  never longer than there are ids. Both assume that no id is used twice, and
  ids are.
* **Wire.** `StringRoundTrip`, `NumberRoundTrip` and `KeyRoundTrip`, for every
  base of at least 2 and numbers of any length but zero (for which
  `write_mpint` panics). They need no induction, since a number is a sequence
  of digits and not computed from them. `KeyIsUnderstood` compares the text with
  what RFC 4251 says of it: the value of digits is a recursive function, and
  what is needed of it (a leading zero does not change it) is an induction that
  takes a least position at which it fails.
* **PageantChannel.** First lemmas about texts: what a request reads as
  (`AddRequestText`, with `ReadsPair` exactly for the well-formed additions;
  `SignRequestText`), that a fresh mapping has the request
  and zeros behind it (`FreshMapping`), and that a mapping with a copy of an
  answer reads as that answer (`CopiedMapping`). That listings are texts is an
  induction over the list: `FlattenType` takes a least position at which it
  fails, from the well-foundedness of the numbers. Then `Consistent` is
  inductive, with one lemma per group of actions: `MutexConsistent`,
  `CallerConsistent`, `MessagesConsistent` (the mapping of a waiting client has
  its request), `CursorConsistent` (the one request is read once, and `resp` has
  the one response to it) and `AnswersConsistent`. `PageantSignsAsAsked`,
  `PageantAddsAsSent` and `NoHalfAnswers` follow. `PageantListsKeys` reads the
  listing from the front: `FlattenFromFront` says what remains after each pair,
  and `ListingLists` that the client finds the pairs in these remainders.
  `PageantIsAtomic` has a lemma per kind of step: `SendingAsks`, `HandlingServes`,
  `CopyingDelivers`, `PanicsFail`, and `QuietStepsAreUnseen` for the rest. That
  the client finds the outcome needs that each response is an answer which a
  mapping gives back as it was (`OutcomeText`, `CopiedMapping`), and that a
  mapping which got none reads as none (`IntactIsNoAnswer`).

Conditions that are part of statements: `ConfirmationsArrive` has the
hypothesis `MaxMenus = 0`, which `service_menu` shows to be needed, and its
property is about connections that Windows did not refuse.
`KeysStayDistinct` is about stores in which no save wrote into another's text.

Only model-checked: the liveness properties `RequestsAnswered`,
`ClientIsServed`, `InstanceIsReleased`, `WalkEnds` and `SenderIsReleased` (the
prover does not do fairness or ENABLED). No module declares a RECURSIVE
operator; what is computed step by step is a recursive function.

## 5. Not modelled

* The Unix socket channel: one bind and one accept loop that spawns
  `connection_handler` without a requester; what it spawns is a connection of
  `AgentService`, and an error ends the process as in `PipeListener`.
* copy-id after its first line. `copy_id` asks for the argument `host`
  (`copy_id.rs:23`), which `main.rs:47` declares as `username@host`: the unwrap
  fails for every command line, so the edit of `authorized_keys` cannot be
  reached. What comes before it, loading and saving `config.toml`, is a process
  that Leaves in `ConfigStore`.
* The unix platform, which does not fit the current `Agent`, the build script
  and the resources.
* Private numbers, PEM, TOML text, signatures: calls to OpenSSL and serde. A
  signature is modelled as a text that tells which key made it.
* `find_memory_map_owner_process` beyond finding an owner or none. It takes
  sections to be objects of type 42, which depends on the version of Windows.
* The window thread of Pageant never gets a `WM_QUIT`, so the end of its loop is
  no action; it ends with the process or by a panic.
* The texts of descriptions, the layout of the dialog, the tooltip, the icon,
  logging, argument parsing.
* The listeners' `process::exit` while a thread waits or saves: it is in
  `PipeListener`, in `PageantChannel` and, as `kill`, in `ConfigStore`, not in
  `AgentService`.
* In `PageantChannel`: additions that end too early, requests to sign whose key
  cannot be decoded (both are FAILUREs that change nothing, like `other`), and
  OpenSSL refusing the numbers of a key (`key/mod.rs:43`).
* In `Requester`, `GetModuleFileNameExW` and `NtQueryInformationProcess` failing
  for a process that can be opened (`win/utils.rs:103-105`, `171-174`), and the
  separate `OpenProcess` calls of one description: `Openable` is one outcome for
  them.
* Access to a `Confirmation` by the messages a dialog gets while it is being
  destroyed (`confirmation.rs:65-68`): a message is one step here.

Two limits of the storage properties. Deleting the last block leaves a file
without the table `keys`, which the next launch refuses: `FileIsGood` allows
exactly this exception. With two processes `StorageLasts` does not hold, because
each saves before it looks at the named mutex; `store_two` explores these
interleavings for the properties that do hold. Two saves that overlap can make a
file that loads and has a key twice, if the blocks happen to have the same
length: `MemoryHasDistinctKeys` excludes exactly this.

## 6. State of the project

Every component whose state changes while the agent serves is modelled and
checked: `AgentService`, `ConfigStore`, `PipeListener`, `Requester` and
`PageantChannel`, with the operators of `KeyRing` and `Wire`; their safety
properties are proved, `ConfirmationReachesUser` where no menu is opened. What
would come next: the window messages of the confirmation dialog one by one, and
what the outcome of an added key tells the PuTTY client about the file.
