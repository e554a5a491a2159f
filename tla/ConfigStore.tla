------------------------------ MODULE ConfigStore ------------------------------
(***************************************************************************)
(* config.toml and the processes that read and write it.                   *)
(*                                                                         *)
(* Every launch of ssh-keys.exe loads the file and saves it again before   *)
(* it does anything else; the agent saves after each key that ssh-add      *)
(* sends, with the agent mutex held (so one save at a time per process),   *)
(* and Reload replaces the keys in memory by those of the file.  A save is *)
(* File::create, which truncates, followed by one write_all.  The user     *)
(* removes a key by deleting its block from the file.                      *)
(***************************************************************************)
EXTENDS KeyRing, FiniteSets, SequencesExt

CONSTANTS
  Proc,    \* processes of ssh-keys.exe that may exist
  Faults,  \* what may go wrong, see FaultKinds
  MaxBlocks,  \* bound: blocks of a text that saves of two processes have mixed
  None     \* no value

\* kill: a process ends at any point (also by Exit in the tray menu, which
\* does not wait for a save); create_fails, write_fails: File::create and
\* write_all return an error; same_name: ssh-add sends two keys with one name;
\* edit_during_save: the user edits the file while it is being saved;
\* add_before_reload: ssh-add is run between an edit of the file and the Reload
\* or restart that makes the agent notice it.
FaultKinds ==
  {"kill", "create_fails", "write_fails", "same_name", "edit_during_save", "add_before_reload"}

ASSUME StoreAssumption ==
  /\ Faults \subseteq FaultKinds
  /\ MaxBlocks \in Nat
  /\ None \notin Proc

VARIABLES
  pc,       \* where each process is
  mem,      \* Config::keys of each process
  pend,     \* the key whose addition it is saving
  file,     \* config.toml
  agent,    \* holder of the named mutex, the process that serves
  acked,    \* history: keys ssh-add was told SUCCESS for, and not removed
  removed,  \* history: keys the user removed and nobody sent again
  interrupted, \* history: a save failed, or its process was killed in it
               \* (the failure of a launch to create the file excepted)
  overlapped   \* history: a save wrote into the text of another process

vars == <<pc, mem, pend, file, agent, acked, removed, interrupted, overlapped>>

\* The states of config.toml: missing, truncated, a complete text of a list of
\* pairs, or a text no list of pairs has, with complete blocks among the rest.
Absent     == [st |-> "absent",  ring |-> << >>]
Empty      == [st |-> "empty",   ring |-> << >>]
Damaged(ring) == [st |-> "damaged", ring |-> ring]
Whole(ring)   == [st |-> "whole", ring |-> ring]

TypeOK ==
  /\ pc \in [Proc -> {"off", "loaded", "created", "saved", "serving", "pushed", "truncated"}]
  /\ mem \in [Proc -> Seq(KeyPair)]
  /\ pend \in [Proc -> Key \cup {None}]
  /\ file \in [st : {"absent", "empty", "whole", "damaged"}, ring : Seq(KeyPair)]
  /\ agent \in Proc \cup {None}
  /\ acked \in SUBSET Key
  /\ removed \in SUBSET Key
  /\ interrupted \in BOOLEAN
  /\ overlapped \in BOOLEAN

Init ==
  /\ pc = [p \in Proc |-> "off"]
  /\ mem = [p \in Proc |-> << >>]
  /\ pend = [p \in Proc |-> None]
  /\ file = Absent
  /\ agent = None
  /\ acked = {}
  /\ removed = {}
  /\ interrupted = FALSE
  /\ overlapped = FALSE

-----------------------------------------------------------------------------
\* A variant of load_config that falls back to an empty list on every error.
MutLoads(f) == TRUE

\* load_config succeeds: a missing file is an empty list of keys, a file
\* without a `keys` table is an error.
Loads(f) == f.st = "absent" \/ (f.st = "whole" /\ Parses(f.ring))

\* `head` with the blocks `tail` behind it.  Blocks differ in length, so where
\* the one ends and the other begins nothing, or a piece of a block, is left.
Mixed(head, tail) ==
  IF tail # << >> /\ Len(head) + Len(tail) > MaxBlocks THEN {}
  ELSE {Damaged(head \o tail)} \cup (IF head \o tail # << >> THEN {Whole(head \o tail)} ELSE {})

\* What a complete write_all leaves in a file that holds the text `old`: the
\* file is truncated when it is created, but another process may have written
\* in between, and the end of a longer text stays.  The text of a list begins
\* with the text of each of its prefixes, the empty one excepted.
Overlay(new, old) ==
  IF old \in {Absent, Empty} \/ (old.st = "whole" /\ IsPrefix(old.ring, new))
  THEN {Whole(new)}
  ELSE IF old.st = "whole" /\ new # << >> /\ IsPrefix(new, old.ring)
  THEN {old}
  ELSE UNION {Mixed(new, tail) : tail \in Suffixes(old.ring)}

\* Of the first of some blocks only the end of the name is left.
Beheaded(blocks, n) == [blocks EXCEPT ![1].name = n]

\* What may remain of a list when the front of its text is overwritten: the last
\* blocks, the first of them with another name if the cut is in its head.
Remains(ring) ==
  {<< >>} \cup UNION {{Beheaded(rest, n) : n \in Name} : rest \in Suffixes(ring) \ {<< >>}}

\* What a write_all that is cut short leaves: nothing new, or any part of the
\* text, which may end after a whole block, and what remains of the old text.
Torn(new, old) ==
  {old} \cup UNION {Mixed(SubSeq(new, 1, n), rest) : n \in 0..(Len(new) - 1) \cup {0},
                                                   rest \in Remains(old.ring)}

\* A save into a file that is not empty any more writes over another one's text.
Overlaps == overlapped' = (overlapped \/ (file # Empty /\ file' # file))

Goto(p, to) == pc' = [pc EXCEPT ![p] = to]

\* The process ends: its memory and its handle of the named mutex are gone.
End(p) ==
  /\ Goto(p, "off")
  /\ mem' = [mem EXCEPT ![p] = << >>]
  /\ pend' = [pend EXCEPT ![p] = None]
  /\ agent' = IF agent = p THEN None ELSE agent

\* ssh-add sends k.
Sent(k) == removed' = removed \ {k}

\* ssh-add is told SUCCESS for k.
Acknowledge(k) == acked' = acked \cup {k}

\* Between File::create and the end of write_all.
Saving(p) == pc[p] \in {"created", "truncated"}

-----------------------------------------------------------------------------
\* A variant of main that saves before it loads.
MutLaunch(p) ==
  /\ pc[p] = "off"
  /\ Goto(p, "loaded")
  /\ UNCHANGED <<mem, pend, file, agent, acked, removed, interrupted, overlapped>>

\* A launch loads the file; if it cannot, main logs the error and returns.
Launch(p) ==
  /\ pc[p] = "off"
  /\ Loads(file)
  /\ mem' = [mem EXCEPT ![p] = file.ring]
  /\ Goto(p, "loaded")
  /\ UNCHANGED <<pend, file, agent, acked, removed, interrupted, overlapped>>

\* File::create, of the launch or of add_key.
CreateFile(p) ==
  /\ \/ pc[p] = "loaded" /\ Goto(p, "created")
     \/ pc[p] = "pushed" /\ Goto(p, "truncated")
  /\ file' = Empty
  /\ UNCHANGED <<mem, pend, agent, acked, removed, interrupted, overlapped>>

\* File::create fails: a launch ends; add_key fails with the pair left in memory.
CreateFails(p) ==
  /\ "create_fails" \in Faults
  /\ \/ pc[p] = "loaded" /\ End(p) /\ UNCHANGED interrupted
     \/ /\ pc[p] = "pushed"
        /\ Goto(p, "serving")
        /\ pend' = [pend EXCEPT ![p] = None]
        /\ interrupted' = TRUE
        /\ UNCHANGED <<mem, agent>>
  /\ UNCHANGED <<file, acked, removed, overlapped>>

\* A variant that gives the pending key up before it is acknowledged.
MutWriteFile(p) ==
  /\ \E f \in Overlay(mem[p], file) : file' = f
  /\ \/ /\ pc[p] = "created"
        /\ Goto(p, "saved")
        /\ UNCHANGED <<pend, acked>>
     \/ /\ pc[p] = "truncated"
        /\ Goto(p, "serving")
        /\ pend' = [pend EXCEPT ![p] = None]
        /\ Acknowledge(pend'[p])
  /\ Overlaps
  /\ UNCHANGED <<mem, agent, removed, interrupted>>

\* write_all; add_key then returns and ssh-add is told SUCCESS.
WriteFile(p) ==
  /\ \E f \in Overlay(mem[p], file) : file' = f
  /\ \/ /\ pc[p] = "created"
        /\ Goto(p, "saved")
        /\ UNCHANGED <<pend, acked>>
     \/ /\ pc[p] = "truncated"
        /\ Goto(p, "serving")
        /\ Acknowledge(pend[p])
        /\ pend' = [pend EXCEPT ![p] = None]
  /\ Overlaps
  /\ UNCHANGED <<mem, agent, removed, interrupted>>

\* write_all fails after a part of the text.
WriteFails(p) ==
  /\ "write_fails" \in Faults
  /\ \E f \in Torn(mem[p], file) : file' = f
  /\ \/ pc[p] = "created" /\ End(p)
     \/ /\ pc[p] = "truncated"
        /\ Goto(p, "serving")
        /\ pend' = [pend EXCEPT ![p] = None]
        /\ UNCHANGED <<mem, agent>>
  /\ interrupted' = TRUE
  /\ Overlaps
  /\ UNCHANGED <<acked, removed>>

\* A variant of serve that does not look at ERROR_ALREADY_EXISTS.
MutServe(p) ==
  /\ pc[p] = "saved"
  /\ Goto(p, "serving")
  /\ agent' = p
  /\ UNCHANGED <<mem, pend, file, acked, removed, interrupted, overlapped>>

\* serve: the process that creates the named mutex becomes the agent.
Serve(p) ==
  /\ pc[p] = "saved"
  /\ agent = None
  /\ Goto(p, "serving")
  /\ agent' = p
  /\ UNCHANGED <<mem, pend, file, acked, removed, interrupted, overlapped>>

\* copy-id has no use for the file any more, and a second agent is refused.
Leave(p) ==
  /\ pc[p] = "saved"
  /\ End(p)
  /\ UNCHANGED <<file, acked, removed, interrupted, overlapped>>

\* ssh-add is run at a moment the faults allow.
MayAdd(p, pair) ==
  /\ pc[p] = "serving"
  /\ "same_name" \in Faults \/ \A q \in Range(mem[p]) : q.name = pair.name => q.key = pair.key
  /\ "add_before_reload" \in Faults \/ KeysOf(mem[p]) \cap removed = {}

\* ssh-add, with a key that is in memory: SUCCESS, nothing is saved.
AddKnown(p, pair) ==
  /\ MayAdd(p, pair)
  /\ PushNew(mem[p], pair) = mem[p]
  /\ Sent(pair.key)
  /\ Acknowledge(pair.key)
  /\ UNCHANGED <<pc, mem, pend, file, agent, interrupted, overlapped>>

\* A variant of add_key that forgets to save.
MutAddKey(p, pair) ==
  /\ MayAdd(p, pair)
  /\ PushNew(mem[p], pair) # mem[p]
  /\ mem' = [mem EXCEPT ![p] = PushNew(@, pair)]
  /\ Sent(pair.key)
  /\ Acknowledge(pair.key)
  /\ UNCHANGED <<pc, pend, file, agent, interrupted, overlapped>>

\* ssh-add, with a new key: it is pushed, and the save begins.
AddKey(p, pair) ==
  /\ MayAdd(p, pair)
  /\ PushNew(mem[p], pair) # mem[p]
  /\ mem' = [mem EXCEPT ![p] = PushNew(@, pair)]
  /\ pend' = [pend EXCEPT ![p] = pair.key]
  /\ Sent(pair.key)
  /\ Goto(p, "pushed")
  /\ UNCHANGED <<file, agent, acked, interrupted, overlapped>>

\* Reload in the tray menu; a file that does not load changes nothing.
Reload(p) ==
  /\ pc[p] = "serving"
  /\ Loads(file)
  /\ mem' = [mem EXCEPT ![p] = file.ring]
  /\ UNCHANGED <<pc, pend, file, agent, acked, removed, interrupted, overlapped>>

\* A variant that saves on the way out.
MutExit(p) ==
  /\ pc[p] = "serving"
  /\ file' = Whole(mem[p])
  /\ End(p)
  /\ UNCHANGED <<acked, removed, interrupted, overlapped>>

\* Exit, when nothing is being saved.
Exit(p) ==
  /\ pc[p] = "serving"
  /\ End(p)
  /\ UNCHANGED <<file, acked, removed, interrupted, overlapped>>

\* The process is killed.  In the middle of write_all a part may be written, and
\* after it everything, with nobody told.
Kill(p) ==
  /\ "kill" \in Faults
  /\ pc[p] # "off"
  /\ \/ file' = file
     \/ /\ Saving(p)
        /\ \E f \in Torn(mem[p], file) \cup Overlay(mem[p], file) : file' = f
  /\ interrupted' = (interrupted \/ Saving(p))
  /\ Overlaps
  /\ End(p)
  /\ UNCHANGED <<acked, removed>>

Process(p) ==
  \/ Launch(p)
  \/ CreateFile(p)
  \/ CreateFails(p)
  \/ WriteFile(p)
  \/ WriteFails(p)
  \/ Serve(p)
  \/ Leave(p)
  \/ \E pair \in KeyPair : AddKnown(p, pair) \/ AddKey(p, pair)
  \/ Reload(p)
  \/ Exit(p)
  \/ Kill(p)

\* The user deletes the i-th block from the file.  With the last block goes the
\* only mention of the `keys` table.
RemoveBlock(i) ==
  /\ "edit_during_save" \in Faults \/ \A p \in Proc : pc[p] \in {"off", "saved", "serving"}
  /\ file.st = "whole"
  /\ file' = IF Len(file.ring) = 1 THEN Empty ELSE Whole(RemoveAt(file.ring, i))
  /\ acked' = acked \ {file.ring[i].key}
  /\ removed' = removed \cup {file.ring[i].key}
  /\ UNCHANGED <<pc, mem, pend, agent, interrupted, overlapped>>

Next == (\E p \in Proc : Process(p)) \/ (\E i \in DOMAIN file.ring : RemoveBlock(i))

Spec == Init /\ [][Next]_vars

-----------------------------------------------------------------------------
(***************************************************************************)
(* Properties.                                                             *)
(***************************************************************************)

\* A key ssh-add was told SUCCESS for and the user did not remove is in a file
\* the next launch can load, or in memory of a process that is about to write it.
PermanentStorage ==
  \A k \in acked : \/ Loads(file) /\ Has(file.ring, k)
                   \/ \E p \in Proc : Saving(p) /\ Has(mem[p], k) /\ Parses(mem[p])

\* The same, as long as no save was interrupted: a kill at any other point, a
\* launch that cannot create the file, exits and restarts lose nothing.
StorageLasts == ~interrupted => PermanentStorage

\* A key the user deleted from the file does not come back to it on its own.
RemovedStaysRemoved ==
  file.st = "whole" => \A k \in removed : ~Has(file.ring, k)

\* At most one process serves requests (the named mutex).
OneAgent == \A p \in Proc : pc[p] \in {"serving", "pushed", "truncated"} => agent = p

\* Pairs in memory differ by their public key, so get_key finds the pair a
\* client means, also after any mix of saves of several processes, torn files,
\* edits and reloads.  Saves that write into each other's text are excepted:
\* where blocks have the same length the mixture is a text that loads, possibly
\* with a key twice.
MemoryHasDistinctKeys == ~overlapped => \A p \in Proc : DistinctKeys(mem[p])

\* The save at launch writes back what the launch has just read: nothing a
\* file holds is replaced by a launch that could not read it.
LaunchKeepsKeys ==
  \A p \in Proc :
    pc[p] = "loaded" => file.st \in {"absent", "whole"} /\ mem[p] = file.ring

-----------------------------------------------------------------------------
(***************************************************************************)
(* The inductive invariant behind permanent storage, for one process, an   *)
(* idle user during saves, and any other faults.                           *)
(***************************************************************************)

\* Whatever fails, a save writes only over a file that this process has just
\* emptied, a launch only what it read, and no save has a key the user deleted:
\* ssh-add is not run before the agent forgets these.
TextIsHonest ==
  /\ ~overlapped
  /\ file.st \in {"absent", "empty"} => file.ring = << >>
  /\ KeysOf(file.ring) \cap removed = {}
  /\ \A p \in Proc :
       /\ pc[p] = "loaded" => file.st \in {"absent", "whole"} /\ mem[p] = file.ring
       /\ Saving(p) => file = Empty
       /\ pc[p] \in {"created", "pushed", "truncated"} => KeysOf(mem[p]) \cap removed = {}

\* Until a save is interrupted the file is never damaged: a launch refuses it
\* only in the middle of a save or after the last block was deleted, if no two
\* keys have one name.  Outside a save it has every key it should have.
FileIsGood ==
  /\ file.st # "damaged"
  /\ "same_name" \notin Faults /\ file.st = "whole" => Parses(file.ring)
  /\ (\A p \in Proc : ~Saving(p)) => acked \subseteq KeysOf(file.ring)

\* Until then memory has all keys to be kept during a save; afterwards it has
\* the keys of the file and those deleted since.
MemoryIsGood ==
  \A p \in Proc :
    /\ "same_name" \notin Faults /\ pc[p] # "off" => Parses(mem[p])
    /\ Saving(p) => acked \subseteq KeysOf(mem[p])
    /\ pc[p] \in {"saved", "serving"} =>
         /\ KeysOf(file.ring) \subseteq KeysOf(mem[p])
         /\ KeysOf(mem[p]) \ removed \subseteq KeysOf(file.ring)
    /\ pc[p] \in {"pushed", "truncated"} => pend[p] \in KeysOf(mem[p])
    /\ pc[p] = "pushed" => KeysOf(mem[p]) = KeysOf(file.ring) \cup {pend[p]}

\* File, memory and histories agree with each other.
StorageConsistent == TextIsHonest /\ (~interrupted => FileIsGood /\ MemoryIsGood)

-----------------------------------------------------------------------------
\* The keys that are stored, for KeyStore.
StoredKeys ==
  IF \E p \in Proc : Saving(p)
  THEN KeysOf(mem[CHOOSE p \in Proc : Saving(p)])
  ELSE KeysOf(file.ring)

Store == INSTANCE KeyStore WITH stored <- StoredKeys, broken <- interrupted

StorageIsPermanent == Store!Spec

=============================================================================
