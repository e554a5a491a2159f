--------------------------- MODULE ConfigStoreProofs ---------------------------
(***************************************************************************)
(* Proofs about ConfigStore, for any processes, keys and names.            *)
(*                                                                         *)
(* Under all faults: types, distinct keys in memory, one agent.  With one  *)
(* process and a user who waits for it: removed keys stay removed whatever *)
(* fails, and storage is permanent until a save is interrupted.            *)
(***************************************************************************)
EXTENDS ConfigStore, KeyRingProofs

FileType == [st : {"absent", "empty", "whole", "damaged"}, ring : Seq(KeyPair)]

\* The empty list is a list of distinct keys and names.
LEMMA EmptyRing == << >> \in Seq(KeyPair) /\ DistinctKeys(<< >>) /\ Parses(<< >>) /\ KeysOf(<< >>) = {}
  BY DEF DistinctKeys, Parses, DistinctNames, KeysOf

\* A suffix of a list of pairs is one, and so is what remains of its text.
LEMMA RemainsAreRings ==
  ASSUME NEW ring \in Seq(KeyPair)
  PROVE  Suffixes(ring) \subseteq Seq(KeyPair) /\ Remains(ring) \subseteq Seq(KeyPair)
<1>1. Suffixes(ring) \subseteq Seq(KeyPair)
  <2>1. \A l \in 1..Len(ring) : SubSeq(ring, l, Len(ring)) \in Seq(KeyPair)
    OBVIOUS
  <2> QED
    BY <2>1, EmptyRing DEF Suffixes
<1>2. ASSUME NEW rest \in Suffixes(ring) \ {<< >>}, NEW n \in Name
      PROVE  Beheaded(rest, n) \in Seq(KeyPair)
  <2>1. rest \in Seq(KeyPair) /\ 1 \in 1..Len(rest)
    BY <1>1, <1>2, EmptySeq
  <2>2. rest[1] \in KeyPair
    BY <2>1, ElementOfSeq
  <2> DEFINE head == [rest[1] EXCEPT !.name = n]
  <2>3. head \in KeyPair /\ Beheaded(rest, n) = [rest EXCEPT ![1] = head]
    BY <2>2 DEF KeyPair, Beheaded
  <2> HIDE DEF head
  <2> QED
    BY <2>1, <2>3, ExceptSeq
<1>3. ASSUME NEW r \in Remains(ring)
      PROVE  r \in Seq(KeyPair)
  <2>1. CASE r = << >>
    BY <2>1, EmptyRing
  <2>2. CASE r # << >>
    <3>1. PICK rest \in Suffixes(ring) \ {<< >>} : r \in {Beheaded(rest, n) : n \in Name}
      BY <2>2 DEF Remains
    <3>2. PICK n \in Name : r = Beheaded(rest, n)
      BY <3>1
    <3> QED
      BY <1>2, <3>2
  <2> QED
    BY <2>1, <2>2
<1> QED
  BY <1>1, <1>3

\* One text before another is a text of the blocks of both.
LEMMA MixedIsTyped ==
  ASSUME NEW head \in Seq(KeyPair), NEW tail \in Seq(KeyPair), NEW f \in Mixed(head, tail)
  PROVE  f \in FileType /\ f.ring = head \o tail
<1>1. head \o tail \in Seq(KeyPair)
  OBVIOUS
<1>2. f = Damaged(head \o tail) \/ f = Whole(head \o tail)
  BY DEF Mixed
<1> DEFINE both == head \o tail
<1> HIDE DEF both
<1>3. both \in Seq(KeyPair) /\ (f = Damaged(both) \/ f = Whole(both))
  BY <1>1, <1>2 DEF both
<1>4. f \in FileType /\ f.ring = both
  BY <1>3 DEF FileType, Damaged, Whole
<1> QED
  BY <1>4 DEF both

\* A save that is cut short leaves a state of the file.
LEMMA TornIsTyped ==
  ASSUME NEW new \in Seq(KeyPair), NEW old \in FileType, NEW f \in Torn(new, old)
  PROVE  f \in FileType
<1>1. old.ring \in Seq(KeyPair)
  BY DEF FileType
<1>2. ASSUME NEW n \in 0..(Len(new) - 1) \cup {0}, NEW rest \in Remains(old.ring),
             f \in Mixed(SubSeq(new, 1, n), rest)
      PROVE  f \in FileType
  <2>1. SubSeq(new, 1, n) \in Seq(KeyPair)
    OBVIOUS
  <2>2. rest \in Seq(KeyPair)
    BY <1>1, RemainsAreRings
  <2> QED
    BY <1>2, <2>1, <2>2, MixedIsTyped
<1> QED
  BY <1>2 DEF Torn

\* So does a complete save, over whatever another process wrote in between.
LEMMA OverlayIsTyped ==
  ASSUME NEW new \in Seq(KeyPair), NEW old \in FileType, NEW f \in Overlay(new, old)
  PROVE  f \in FileType
<1>1. old.ring \in Seq(KeyPair)
  BY DEF FileType
<1>2. ASSUME NEW tail \in Suffixes(old.ring), f \in Mixed(new, tail)
      PROVE  f \in FileType
  BY <1>1, <1>2, RemainsAreRings, MixedIsTyped
<1>3. Whole(new) \in FileType
  BY DEF Whole, FileType
<1> QED
  BY <1>2, <1>3 DEF Overlay

\* A complete save into an empty file leaves the list.
LEMMA SaveIsWhole ==
  ASSUME NEW new, NEW f \in Overlay(new, Empty)
  PROVE  f = Whole(new)
  BY DEF Overlay

\* A save that is cut short in one that was empty leaves nothing it did not write.
LEMMA TornIsHonest ==
  ASSUME NEW new \in Seq(KeyPair), NEW f \in Torn(new, Empty)
  PROVE  /\ f.st \in {"absent", "empty"} => f.ring = << >>
         /\ KeysOf(f.ring) \subseteq KeysOf(new)
         /\ DistinctKeys(new) => DistinctKeys(f.ring)
<1>1. CASE f = Empty
  BY <1>1, EmptyRing DEF Empty
<1>2. ASSUME NEW n \in 0..(Len(new) - 1) \cup {0}, NEW rest \in Remains(<< >>),
             f \in Mixed(SubSeq(new, 1, n), rest)
      PROVE  /\ f.st \in {"absent", "empty"} => f.ring = << >>
             /\ KeysOf(f.ring) \subseteq KeysOf(new)
             /\ DistinctKeys(new) => DistinctKeys(f.ring)
  <2>1. rest = << >>
    <3>1. Suffixes(<< >>) = {<< >>}
      <4>1. Len(<< >>) = 0 /\ 1..0 = {}
        OBVIOUS
      <4> QED
        BY <4>1 DEF Suffixes
    <3> QED
      BY <1>2, <3>1 DEF Remains
  <2>2. n \in 0..Len(new)
    OBVIOUS
  <2>3. SubSeq(new, 1, n) \in Seq(KeyPair) /\ (DistinctKeys(new) => DistinctKeys(SubSeq(new, 1, n)))
    BY <2>2, FrontIsSafe
  <2>4. SubSeq(new, 1, n) \o << >> = SubSeq(new, 1, n)
    BY <2>3
  <2>5. f \in {Damaged(SubSeq(new, 1, n)), Whole(SubSeq(new, 1, n))}
    BY <1>2, <2>1, <2>4 DEF Mixed
  <2>6. f.st \in {"damaged", "whole"} /\ f.ring = SubSeq(new, 1, n)
    BY <2>5 DEF Damaged, Whole
  <2>7. KeysOf(SubSeq(new, 1, n)) \subseteq KeysOf(new)
    <3>1. \A i \in 1..n : SubSeq(new, 1, n)[i] = new[i] /\ i \in 1..Len(new)
      BY <2>2
    <3>2. DOMAIN SubSeq(new, 1, n) = 1..n /\ DOMAIN new = 1..Len(new)
      BY <2>2
    <3> QED
      BY <3>1, <3>2 DEF KeysOf
  <2> QED
    BY <2>3, <2>6, <2>7
<1>3. Empty.ring = << >>
  BY DEF Empty
<1> QED
  BY <1>1, <1>2, <1>3 DEF Torn

\* A file keeps distinct keys over a save, complete or not, that did not write
\* over another one's text.
LEMMA SaveKeepsDistinct ==
  ASSUME NEW p \in Proc, mem[p] \in Seq(KeyPair), Overlaps, ~overlapped',
         DistinctKeys(mem[p]), DistinctKeys(file.ring),
         file' \in Torn(mem[p], file) \cup Overlay(mem[p], file) \cup {file}
  PROVE  DistinctKeys(file'.ring)
<1>1. CASE file' = file
  BY <1>1
<1>2. CASE file = Empty /\ file' \in Torn(mem[p], Empty)
  BY <1>2, TornIsHonest
<1>3. CASE file = Empty /\ file' \in Overlay(mem[p], Empty)
  <2>1. file' = Whole(mem[p])
    BY <1>3, SaveIsWhole
  <2> QED
    BY <2>1 DEF Whole
<1> QED
  BY <1>1, <1>2, <1>3 DEF Overlaps

\* What holds whatever goes wrong.
StoreConsistent ==
  /\ TypeOK
  /\ \A p \in Proc : pc[p] \in {"pushed", "truncated"} => pend[p] \in Key
  /\ MemoryHasDistinctKeys
  /\ ~overlapped => DistinctKeys(file.ring)
  /\ OneAgent

LEMMA InitIsConsistent == Init => StoreConsistent
<1> SUFFICES ASSUME Init PROVE StoreConsistent
  OBVIOUS
<1>1. TypeOK
  BY EmptyRing DEF Init, TypeOK, Absent
<1>2. MemoryHasDistinctKeys /\ (~overlapped => DistinctKeys(file.ring))
  BY EmptyRing DEF Init, MemoryHasDistinctKeys, Absent
<1> QED
  BY <1>1, <1>2 DEF Init, StoreConsistent, OneAgent

\* A process that ends leaves the others as they were.
LEMMA EndIsSafe ==
  ASSUME StoreConsistent, NEW p \in Proc, End(p), overlapped => overlapped'
  PROVE  /\ pc' \in [Proc -> {"off", "loaded", "created", "saved", "serving", "pushed", "truncated"}]
         /\ mem' \in [Proc -> Seq(KeyPair)]
         /\ pend' \in [Proc -> Key \cup {None}]
         /\ agent' \in Proc \cup {None}
         /\ \A q \in Proc : pc'[q] \in {"pushed", "truncated"} => pend'[q] \in Key
         /\ MemoryHasDistinctKeys'
         /\ OneAgent'
  BY EmptyRing DEF StoreConsistent, TypeOK, End, Goto, MemoryHasDistinctKeys, OneAgent

\* Every step of a process keeps the store consistent.
LEMMA ProcessStep ==
  ASSUME StoreConsistent, NEW p \in Proc, Process(p)
  PROVE  StoreConsistent'
<1> USE StoreAssumption DEF StoreAssumption
<1>0. file \in FileType /\ mem[p] \in Seq(KeyPair)
  BY DEF StoreConsistent, TypeOK, FileType
<1>1. CASE Launch(p) \/ Reload(p)
  <2>1. mem' = [mem EXCEPT ![p] = file.ring] /\ file.ring \in Seq(KeyPair)
    BY <1>0, <1>1 DEF Launch, Reload, FileType
  <2>2. TypeOK' /\ MemoryHasDistinctKeys'
    BY <1>0, <1>1, <2>1 DEF StoreConsistent, TypeOK, MemoryHasDistinctKeys, Launch, Reload, Goto
  <2> QED
    BY <1>1, <2>2 DEF StoreConsistent, TypeOK, OneAgent, Launch, Reload, Goto
<1>2. CASE CreateFile(p)
  <2>1. file' \in FileType /\ DistinctKeys(file'.ring)
    BY <1>2, EmptyRing DEF CreateFile, Empty, FileType
  <2>2. TypeOK'
    BY <1>2, <2>1 DEF StoreConsistent, TypeOK, FileType, CreateFile, Goto
  <2> QED
    BY <1>2, <2>1, <2>2 DEF StoreConsistent, TypeOK, MemoryHasDistinctKeys, OneAgent, CreateFile, Goto
<1>3. CASE CreateFails(p)
  <2>1. CASE End(p)
    <3>1. interrupted' \in BOOLEAN /\ UNCHANGED <<file, acked, removed, overlapped>>
      BY <1>3 DEF StoreConsistent, TypeOK, CreateFails
    <3> QED
      BY <2>1, <3>1, EndIsSafe DEF StoreConsistent, TypeOK
  <2>2. CASE pc[p] = "pushed" /\ Goto(p, "serving") /\ pend' = [pend EXCEPT ![p] = None]
             /\ interrupted' = TRUE /\ UNCHANGED <<mem, agent>>
    BY <1>3, <2>2 DEF StoreConsistent, TypeOK, MemoryHasDistinctKeys, OneAgent, CreateFails, Goto
  <2> QED
    BY <1>3, <2>1, <2>2 DEF CreateFails
\* The three ways in which a save ends.
<1>4. ASSUME Overlaps, file' \in Torn(mem[p], file) \cup Overlay(mem[p], file) \cup {file}
      PROVE  /\ file' \in FileType /\ overlapped' \in BOOLEAN
             /\ overlapped => overlapped'
             /\ ~overlapped' => DistinctKeys(file'.ring)
  <2>1. file' \in FileType
    BY <1>0, <1>4, TornIsTyped, OverlayIsTyped
  <2>2. overlapped' \in BOOLEAN /\ (overlapped => overlapped')
    BY <1>4 DEF Overlaps, StoreConsistent, TypeOK
  <2>3. ~overlapped' => DistinctKeys(file'.ring)
    BY <1>0, <1>4, <2>2, SaveKeepsDistinct DEF StoreConsistent, MemoryHasDistinctKeys
  <2> QED
    BY <2>1, <2>2, <2>3
<1>5. CASE WriteFile(p)
  <2>1. /\ file' \in FileType /\ overlapped' \in BOOLEAN
        /\ overlapped => overlapped'
        /\ ~overlapped' => DistinctKeys(file'.ring)
    <3>1. Overlaps /\ file' \in Overlay(mem[p], file)
      BY <1>5 DEF WriteFile
    <3> QED
      BY <1>4, <3>1
  <2>2. CASE pc[p] = "created" /\ Goto(p, "saved") /\ UNCHANGED <<pend, acked>>
    BY <1>5, <2>1, <2>2 DEF StoreConsistent, TypeOK, FileType, MemoryHasDistinctKeys, OneAgent,
                            WriteFile, Goto
  <2>3. CASE /\ pc[p] = "truncated" /\ Goto(p, "serving") /\ Acknowledge(pend[p])
             /\ pend' = [pend EXCEPT ![p] = None]
    <3>1. acked' \in SUBSET Key
      BY <2>3 DEF StoreConsistent, TypeOK, Acknowledge
    <3> QED
      BY <1>5, <2>1, <2>3, <3>1 DEF StoreConsistent, TypeOK, FileType, MemoryHasDistinctKeys,
                                    OneAgent, WriteFile, Goto
  <2> QED
    BY <1>5, <2>2, <2>3 DEF WriteFile
<1>6. CASE WriteFails(p)
  <2>1. /\ file' \in FileType /\ overlapped' \in BOOLEAN
        /\ overlapped => overlapped'
        /\ ~overlapped' => DistinctKeys(file'.ring)
    <3>1. Overlaps /\ file' \in Torn(mem[p], file)
      BY <1>6 DEF WriteFails
    <3> QED
      BY <1>4, <3>1
  <2>2. CASE End(p)
    BY <1>6, <2>1, <2>2, EndIsSafe DEF StoreConsistent, TypeOK, FileType, WriteFails
  <2>3. CASE pc[p] = "truncated" /\ Goto(p, "serving") /\ pend' = [pend EXCEPT ![p] = None]
             /\ UNCHANGED <<mem, agent>>
    BY <1>6, <2>1, <2>3 DEF StoreConsistent, TypeOK, FileType, MemoryHasDistinctKeys, OneAgent,
                            WriteFails, Goto
  <2> QED
    BY <1>6, <2>2, <2>3 DEF WriteFails
\* No other process serves when this one finds no agent.
<1>7. CASE Serve(p)
  BY <1>7 DEF StoreConsistent, TypeOK, MemoryHasDistinctKeys, OneAgent, Serve, Goto
<1>8. CASE Leave(p) \/ Exit(p)
  <2>1. End(p) /\ UNCHANGED <<file, acked, removed, interrupted, overlapped>>
    BY <1>8 DEF Leave, Exit
  <2> QED
    BY <2>1, EndIsSafe DEF StoreConsistent, TypeOK
<1>9. ASSUME NEW pair \in KeyPair, AddKnown(p, pair)
      PROVE  StoreConsistent'
  <2>1. acked' \in SUBSET Key /\ removed' \in SUBSET Key
    BY <1>9 DEF StoreConsistent, TypeOK, AddKnown, Sent, Acknowledge, KeyPair
  <2> QED
    BY <1>9, <2>1 DEF StoreConsistent, TypeOK, MemoryHasDistinctKeys, OneAgent, AddKnown
<1>10. ASSUME NEW pair \in KeyPair, AddKey(p, pair)
       PROVE  StoreConsistent'
  <2>1. /\ mem' = [mem EXCEPT ![p] = PushNew(mem[p], pair)] /\ UNCHANGED overlapped
        /\ pair.key \in Key /\ removed' \in SUBSET Key
    BY <1>10 DEF StoreConsistent, TypeOK, AddKey, Sent, KeyPair
  <2>0. PushNew(mem[p], pair) \in Seq(KeyPair)
    BY <1>0 DEF PushNew
  <2>2. ~overlapped => DistinctKeys(PushNew(mem[p], pair))
    BY <1>0, <1>10, PushNewIsSafe DEF StoreConsistent, MemoryHasDistinctKeys
  <2>3. TypeOK' /\ MemoryHasDistinctKeys'
    BY <1>10, <2>0, <2>1, <2>2 DEF StoreConsistent, TypeOK, MemoryHasDistinctKeys, AddKey, Goto
  <2> QED
    BY <1>10, <2>1, <2>3 DEF StoreConsistent, TypeOK, OneAgent, AddKey, MayAdd, Goto
<1>11. CASE Kill(p)
  <2>1. End(p) /\ UNCHANGED <<acked, removed>> /\ interrupted' \in BOOLEAN
    BY <1>11 DEF Kill
  <2>2. /\ file' \in FileType /\ overlapped' \in BOOLEAN
        /\ overlapped => overlapped'
        /\ ~overlapped' => DistinctKeys(file'.ring)
    <3>1. Overlaps /\ file' \in Torn(mem[p], file) \cup Overlay(mem[p], file) \cup {file}
      BY <1>11 DEF Kill
    <3> QED
      BY <1>4, <3>1
  <2> QED
    BY <2>1, <2>2, EndIsSafe DEF StoreConsistent, TypeOK, FileType
<1> QED
  BY <1>1, <1>2, <1>3, <1>5, <1>6, <1>7, <1>8, <1>9, <1>10, <1>11 DEF Process

\* So does the user who deletes a block.
LEMMA UserStep ==
  ASSUME StoreConsistent, NEW i \in DOMAIN file.ring, RemoveBlock(i)
  PROVE  StoreConsistent'
<1>1. file.ring \in Seq(KeyPair) /\ file.ring[i].key \in Key
  <2>1. file.ring \in Seq(KeyPair)
    BY DEF StoreConsistent, TypeOK
  <2>2. i \in 1..Len(file.ring)
    BY <2>1
  <2>3. file.ring[i] \in KeyPair
    BY <2>1, <2>2, ElementOfSeq
  <2> QED
    BY <2>1, <2>3 DEF KeyPair
<1>2. file' \in FileType /\ (~overlapped => DistinctKeys(file'.ring))
  BY <1>1, EmptyRing, RemoveAtIsSafe DEF StoreConsistent, RemoveBlock, Empty, Whole, FileType
<1> QED
  BY <1>1, <1>2 DEF StoreConsistent, TypeOK, FileType, MemoryHasDistinctKeys, OneAgent, RemoveBlock

\* The invariant, under all faults.
THEOREM StoreIsConsistent == Spec => []StoreConsistent
<1>1. Init => StoreConsistent
  BY InitIsConsistent
<1>2. StoreConsistent /\ [Next]_vars => StoreConsistent'
  <2>1. StoreConsistent /\ UNCHANGED vars => StoreConsistent'
    BY DEF vars, StoreConsistent, TypeOK, MemoryHasDistinctKeys, OneAgent
  <2> QED
    BY <2>1, ProcessStep, UserStep DEF Next
<1> QED
  BY <1>1, <1>2, PTL DEF Spec

\* Every variable stays within its type.
THEOREM StoreTypeCorrect == Spec => []TypeOK
<1>1. StoreConsistent => TypeOK
  BY DEF StoreConsistent
<1> QED
  BY <1>1, StoreIsConsistent, PTL

\* get_key is not ambiguous, after any mix of saves, tears, edits and reloads of
\* any number of processes, unless one save wrote into the text of another.
THEOREM KeysStayDistinct == Spec => []MemoryHasDistinctKeys
<1>1. StoreConsistent => MemoryHasDistinctKeys
  BY DEF StoreConsistent
<1> QED
  BY <1>1, StoreIsConsistent, PTL

\* Two processes never serve at once.
THEOREM AgentIsUnique == Spec => []OneAgent
<1>1. StoreConsistent => OneAgent
  BY DEF StoreConsistent
<1> QED
  BY <1>1, StoreIsConsistent, PTL

-----------------------------------------------------------------------------
(***************************************************************************)
(* Permanent storage, for one process and a user who neither edits the     *)
(* file while it is being saved nor runs ssh-add before the agent has      *)
(* noticed an edit.  Saves may fail and the process may be killed.         *)
(***************************************************************************)

OneProcess == \A p, q \in Proc : p = q

UserWaits == Faults \cap {"edit_during_save", "add_before_reload"} = {}

\* The missing file is consistent with nothing being stored.
LEMMA InitIsStored == Init => StorageConsistent
  BY EmptyRing DEF Init, StorageConsistent, TextIsHonest, FileIsGood, MemoryIsGood, Absent, Saving

\* Every step of the process keeps the text honest, whatever fails.
LEMMA ProcessIsHonest ==
  ASSUME OneProcess, UserWaits, StoreConsistent, TextIsHonest, NEW p \in Proc, Process(p)
  PROVE  TextIsHonest'
<1>0. /\ file.ring \in Seq(KeyPair) /\ mem[p] \in Seq(KeyPair) /\ DistinctKeys(mem[p])
      /\ \A q \in Proc : q = p
      /\ TypeOK
  BY DEF OneProcess, StoreConsistent, TypeOK, TextIsHonest, MemoryHasDistinctKeys
\* The process writes only into a file that it has just emptied.
<1>o. ~overlapped'
  <2>1. ~overlapped /\ (Saving(p) => file = Empty)
    BY DEF TextIsHonest
  <2>2. Overlaps /\ (Saving(p) \/ file' = file) => ~overlapped'
    BY <2>1 DEF Overlaps
  <2>3. CASE WriteFile(p) \/ WriteFails(p) \/ Kill(p)
    BY <2>2, <2>3 DEF WriteFile, WriteFails, Kill, Saving
  <2>4. CASE ~(WriteFile(p) \/ WriteFails(p) \/ Kill(p))
    <3>1. UNCHANGED overlapped
      BY <2>4 DEF Process, Launch, CreateFile, CreateFails, Serve, Leave, AddKnown, AddKey, Reload, Exit
    <3> QED
      BY <2>1, <3>1
  <2> QED
    BY <2>3, <2>4
<1>1. CASE Launch(p)
  BY <1>0, <1>o, <1>1 DEF TextIsHonest, TypeOK, Saving, Launch, Loads, Goto
<1>2. CASE CreateFile(p)
  <2>1. file' = Empty /\ Empty.ring = << >> /\ UNCHANGED <<mem, removed>>
    BY <1>2 DEF CreateFile, Empty
  <2>2. CASE pc[p] = "loaded" /\ pc'[p] = "created"
    BY <1>0, <1>o, <2>1, <2>2, EmptyRing DEF TextIsHonest, Saving
  <2>3. CASE pc[p] = "pushed" /\ pc'[p] = "truncated"
    BY <1>0, <1>o, <2>1, <2>3, EmptyRing DEF TextIsHonest, Saving
  <2> QED
    BY <1>0, <1>2, <2>2, <2>3 DEF CreateFile, TypeOK, Goto
<1>3. CASE WriteFile(p)
  <2>1. file = Empty /\ KeysOf(mem[p]) \cap removed = {} /\ pc'[p] \in {"saved", "serving"}
    BY <1>0, <1>3 DEF TextIsHonest, TypeOK, Saving, WriteFile, Goto
  <2>2. file' = Whole(mem[p]) /\ removed' = removed
    BY <1>3, <2>1, SaveIsWhole DEF WriteFile
  <2> QED
    BY <1>0, <1>o, <2>1, <2>2 DEF TextIsHonest, Saving, Whole
<1>4. CASE WriteFails(p) \/ Kill(p)
  <2>1. pc'[p] \in {"off", "serving"} /\ removed' = removed
    BY <1>0, <1>4 DEF TypeOK, WriteFails, Kill, End, Goto
  <2>2. CASE file' = file
    BY <1>0, <1>o, <2>1, <2>2 DEF TextIsHonest, Saving
  <2>3. CASE Saving(p) /\ file' \in Torn(mem[p], file) \cup Overlay(mem[p], file)
    <3>0. file = Empty
      BY <2>3 DEF TextIsHonest
    <3>1. /\ file'.st \in {"absent", "empty"} => file'.ring = << >>
          /\ KeysOf(file'.ring) \subseteq KeysOf(mem[p])
      <4>1. CASE file' \in Torn(mem[p], Empty)
        BY <1>0, <4>1, TornIsHonest
      <4>2. CASE file' \in Overlay(mem[p], Empty)
        BY <4>2, SaveIsWhole DEF Whole
      <4> QED
        BY <2>3, <3>0, <4>1, <4>2
    <3>2. KeysOf(mem[p]) \cap removed = {}
      BY <2>3 DEF TextIsHonest, Saving
    <3> QED
      BY <1>0, <1>o, <2>1, <3>1, <3>2 DEF TextIsHonest, Saving
  <2> QED
    BY <1>4, <2>2, <2>3 DEF WriteFails, Kill, Saving
<1>5. CASE CreateFails(p) \/ Serve(p) \/ Leave(p) \/ Exit(p)
  <2>1. pc'[p] \in {"off", "serving"} /\ removed' = removed /\ file' = file
    BY <1>0, <1>5 DEF TypeOK, CreateFails, Serve, Leave, Exit, End, Goto
  <2> QED
    BY <1>0, <1>o, <2>1 DEF TextIsHonest, Saving
<1>6. CASE Reload(p)
  BY <1>0, <1>o, <1>6 DEF TextIsHonest, Saving, Reload
<1>7. ASSUME NEW pair \in KeyPair, AddKnown(p, pair)
      PROVE  TextIsHonest'
  BY <1>0, <1>o, <1>7 DEF TextIsHonest, Saving, AddKnown, MayAdd, Sent
<1>8. ASSUME NEW pair \in KeyPair, AddKey(p, pair)
      PROVE  TextIsHonest'
  <2>1. /\ KeysOf(mem'[p]) = KeysOf(mem[p]) \cup {pair.key}
        /\ KeysOf(mem[p]) \cap removed = {}
        /\ removed' = removed \ {pair.key} /\ file' = file /\ pc'[p] = "pushed"
    BY <1>0, <1>8, PushNewIsSafe DEF UserWaits, TypeOK, AddKey, MayAdd, Sent, Goto
  <2> QED
    BY <1>0, <1>o, <2>1 DEF TextIsHonest, Saving
<1> QED
  BY <1>1, <1>2, <1>3, <1>4, <1>5, <1>6, <1>7, <1>8 DEF Process

\* Until a save is interrupted, every step of the process keeps file and memory
\* good; one that interrupts a save has nothing to keep.
LEMMA ProcessKeepsStorage ==
  ASSUME OneProcess, UserWaits, StoreConsistent, TextIsHonest, FileIsGood, MemoryIsGood,
         NEW p \in Proc, Process(p), ~interrupted'
  PROVE  FileIsGood' /\ MemoryIsGood'
<1>0. /\ file.ring \in Seq(KeyPair) /\ mem[p] \in Seq(KeyPair) /\ DistinctKeys(mem[p])
      /\ \A q \in Proc : q = p
      /\ TypeOK
  BY DEF OneProcess, StoreConsistent, TypeOK, TextIsHonest, MemoryHasDistinctKeys
<1>1. CASE Launch(p)
  <2>1. /\ mem'[p] = file.ring /\ pc[p] = "off" /\ pc'[p] = "loaded"
        /\ UNCHANGED <<file, acked>>
    BY <1>0, <1>1 DEF TypeOK, Launch, Goto
  <2>2. Parses(file.ring) \/ "same_name" \in Faults
    BY <1>1, EmptyRing DEF TextIsHonest, FileIsGood, Launch, Loads
  <2> QED
    BY <1>0, <2>1, <2>2 DEF FileIsGood, MemoryIsGood, Saving
<1>2. CASE Reload(p)
  <2>1. /\ mem'[p] = file.ring /\ pc[p] = "serving"
        /\ UNCHANGED <<pc, file, acked, removed>>
    BY <1>0, <1>2 DEF TypeOK, Reload
  <2>2. Parses(file.ring) \/ "same_name" \in Faults
    BY <1>2, EmptyRing DEF TextIsHonest, FileIsGood, Reload, Loads
  <2> QED
    BY <1>0, <2>1, <2>2 DEF FileIsGood, MemoryIsGood, Saving
<1>3. CASE CreateFile(p)
  <2>1. file' = Empty /\ Empty.ring = << >> /\ Empty.st = "empty" /\ UNCHANGED <<mem, pend, acked>>
    BY <1>3 DEF CreateFile, Empty
  <2>2. /\ pc[p] \in {"loaded", "pushed"} /\ pc'[p] \in {"created", "truncated"}
        /\ pc[p] = "loaded" => pc'[p] = "created"
    BY <1>0, <1>3 DEF TypeOK, CreateFile, Goto
  <2>3. acked \subseteq KeysOf(mem[p])
    <3>1. acked \subseteq KeysOf(file.ring)
      BY <1>0, <2>2 DEF FileIsGood, Saving
    <3>2. KeysOf(file.ring) \subseteq KeysOf(mem[p])
      BY <2>2 DEF TextIsHonest, MemoryIsGood
    <3> QED
      BY <3>1, <3>2
  <2>4. FileIsGood'
    BY <1>0, <2>1, <2>2 DEF FileIsGood, Saving
  <2>5. MemoryIsGood'
    BY <1>0, <2>1, <2>2, <2>3 DEF MemoryIsGood, Saving
  <2> QED
    BY <2>4, <2>5
<1>4. CASE WriteFile(p)
  <2>1. /\ file = Empty /\ acked \subseteq KeysOf(mem[p])
        /\ Parses(mem[p]) \/ "same_name" \in Faults
    BY <1>4 DEF WriteFile, Saving, TextIsHonest, MemoryIsGood
  <2>2. file' = Whole(mem[p]) /\ file'.ring = mem[p] /\ file'.st = "whole" /\ mem' = mem
    BY <1>4, <2>1, SaveIsWhole DEF WriteFile, Whole
  <2>3. pc'[p] \in {"saved", "serving"} /\ acked' \subseteq KeysOf(mem[p])
    <3>1. CASE pc[p] = "created" /\ Goto(p, "saved") /\ UNCHANGED <<pend, acked>>
      BY <1>0, <2>1, <3>1 DEF TypeOK, Goto
    <3>2. CASE pc[p] = "truncated" /\ Goto(p, "serving") /\ Acknowledge(pend[p])
      BY <1>0, <2>1, <3>2 DEF MemoryIsGood, TypeOK, Goto, Acknowledge
    <3> QED
      BY <1>4, <3>1, <3>2 DEF WriteFile
  <2> QED
    BY <1>0, <2>1, <2>2, <2>3 DEF FileIsGood, MemoryIsGood, Saving
<1>5. CASE Serve(p)
  <2>1. pc[p] = "saved" /\ pc'[p] = "serving" /\ UNCHANGED <<file, mem, acked, removed>>
    BY <1>0, <1>5 DEF TypeOK, Serve, Goto
  <2> QED
    BY <1>0, <2>1 DEF FileIsGood, MemoryIsGood, Saving
\* A process that ends outside a save leaves the file as it should be.
<1>6. CASE Leave(p) \/ Exit(p) \/ Kill(p) \/ CreateFails(p)
  <2>1. pc'[p] = "off" /\ ~Saving(p) /\ UNCHANGED <<file, acked>>
    BY <1>0, <1>6 DEF TypeOK, Saving, Leave, Exit, Kill, CreateFails, End, Goto
  <2> QED
    BY <1>0, <2>1 DEF FileIsGood, MemoryIsGood, Saving
<1>7. ASSUME NEW pair \in KeyPair, AddKnown(p, pair)
      PROVE  FileIsGood' /\ MemoryIsGood'
  <2>1. /\ pair.key \in KeysOf(mem[p]) /\ KeysOf(mem[p]) \cap removed = {}
        /\ pc[p] = "serving" /\ UNCHANGED <<pc, mem, pend, file>>
        /\ acked' = acked \cup {pair.key} /\ removed' \subseteq removed
    BY <1>0, <1>7, PushNewIsSafe DEF UserWaits, AddKnown, MayAdd, Sent, Acknowledge
  <2>2. KeysOf(mem[p]) = KeysOf(file.ring)
    BY <2>1 DEF MemoryIsGood
  <2> QED
    BY <1>0, <2>1, <2>2 DEF FileIsGood, MemoryIsGood, Saving
<1>8. ASSUME NEW pair \in KeyPair, AddKey(p, pair)
      PROVE  FileIsGood' /\ MemoryIsGood'
  <2>1. /\ KeysOf(mem'[p]) = KeysOf(mem[p]) \cup {pair.key}
        /\ KeysOf(mem[p]) \cap removed = {}
        /\ pc[p] = "serving" /\ pc'[p] = "pushed" /\ pend'[p] = pair.key
        /\ UNCHANGED <<file, acked>>
    BY <1>0, <1>8, PushNewIsSafe DEF UserWaits, TypeOK, AddKey, MayAdd, Goto
  <2>2. KeysOf(mem[p]) = KeysOf(file.ring)
    BY <2>1 DEF MemoryIsGood
  <2>3. "same_name" \notin Faults => Parses(mem'[p])
    <3> SUFFICES ASSUME "same_name" \notin Faults PROVE Parses(mem'[p])
      OBVIOUS
    <3>1. Parses(mem[p])
      BY <2>1 DEF MemoryIsGood
    <3>2. \A i \in DOMAIN mem[p] : mem[p][i].name = pair.name => mem[p][i].key = pair.key
      BY <1>8 DEF AddKey, MayAdd, Range
    <3>3. mem'[p] = PushNew(mem[p], pair)
      BY <1>0, <1>8 DEF TypeOK, AddKey
    <3> QED
      BY <1>0, <3>1, <3>2, <3>3, PushNewParses
  <2> QED
    BY <1>0, <2>1, <2>2, <2>3 DEF FileIsGood, MemoryIsGood, Saving
<1>9. ~WriteFails(p)
  BY DEF WriteFails
<1> QED
  BY <1>1, <1>2, <1>3, <1>4, <1>5, <1>6, <1>7, <1>8, <1>9 DEF Process

\* What is left of the file when the user deletes block i.
LEMMA RemoveBlockTakesOneKey ==
  ASSUME StoreConsistent, ~overlapped, NEW i \in DOMAIN file.ring, RemoveBlock(i)
  PROVE  /\ KeysOf(file'.ring) = KeysOf(file.ring) \ {file.ring[i].key}
         /\ file'.st = "whole" \/ (file'.st = "empty" /\ file'.ring = << >>)
         /\ Parses(file.ring) => Parses(file'.ring)
<1>1. file.ring \in Seq(KeyPair) /\ DistinctKeys(file.ring)
  BY DEF StoreConsistent, TypeOK
<1> DEFINE rest == RemoveAt(file.ring, i)
<1>2. /\ rest \in Seq(KeyPair) /\ Len(rest) = Len(file.ring) - 1
      /\ KeysOf(rest) = KeysOf(file.ring) \ {file.ring[i].key}
      /\ Parses(file.ring) => Parses(rest)
  BY <1>1, RemoveAtIsSafe
<1> HIDE DEF rest
<1>3. CASE Len(file.ring) = 1
  <2>1. rest = << >>
    BY <1>2, <1>3, EmptySeq
  <2>2. file' = Empty
    BY <1>3 DEF RemoveBlock
  <2> QED
    BY <1>2, <2>1, <2>2 DEF Empty
<1>4. CASE Len(file.ring) # 1
  <2>1. file' = Whole(rest)
    BY <1>4 DEF RemoveBlock, rest
  <2> QED
    BY <1>2, <2>1 DEF Whole
<1> QED
  BY <1>3, <1>4

\* The user keeps storage consistent.
LEMMA UserKeepsStorage ==
  ASSUME UserWaits, StoreConsistent, StorageConsistent,
         NEW i \in DOMAIN file.ring, RemoveBlock(i)
  PROVE  StorageConsistent'
<1> DEFINE k == file.ring[i].key
<1>1. /\ \A p \in Proc : pc[p] \in {"off", "saved", "serving"}
      /\ file.st = "whole"
      /\ acked' = acked \ {k} /\ removed' = removed \cup {k}
      /\ UNCHANGED <<pc, mem, pend, interrupted, overlapped>>
  BY DEF UserWaits, RemoveBlock
<1>2. /\ KeysOf(file'.ring) = KeysOf(file.ring) \ {k}
      /\ file'.st = "whole" \/ (file'.st = "empty" /\ file'.ring = << >>)
      /\ Parses(file.ring) => Parses(file'.ring)
  BY RemoveBlockTakesOneKey DEF StorageConsistent, TextIsHonest
<1> HIDE DEF k
<1>3. TextIsHonest'
  BY <1>1, <1>2 DEF StorageConsistent, TextIsHonest, Saving
<1>4. FileIsGood => FileIsGood'
  BY <1>1, <1>2 DEF FileIsGood, Saving
<1>5. MemoryIsGood => MemoryIsGood'
  BY <1>1, <1>2 DEF MemoryIsGood, Saving
<1> QED
  BY <1>1, <1>3, <1>4, <1>5 DEF StorageConsistent

\* Once a save was interrupted, that stays so.
LEMMA InterruptionStays ==
  ASSUME StoreConsistent, NEW p \in Proc, Process(p)
  PROVE  interrupted => interrupted'
<1>1. interrupted' = interrupted \/ interrupted' = TRUE \/ interrupted' = (interrupted \/ Saving(p))
  BY DEF Process, Launch, CreateFile, CreateFails, WriteFile, WriteFails, Serve, Leave,
         AddKnown, AddKey, Reload, Exit, Kill
<1> QED
  BY <1>1

\* The invariant of one process whose saves may fail and which may be killed.
THEOREM StorageStaysConsistent ==
  ASSUME OneProcess, UserWaits
  PROVE  Spec => []StorageConsistent
<1>1. Init => StorageConsistent
  BY InitIsStored
<1>2. StoreConsistent /\ StorageConsistent /\ [Next]_vars => StorageConsistent'
  <2>1. StorageConsistent /\ UNCHANGED vars => StorageConsistent'
    BY DEF vars, StorageConsistent, TextIsHonest, FileIsGood, MemoryIsGood, Saving
  <2>2. ASSUME StoreConsistent, StorageConsistent, NEW p \in Proc, Process(p)
        PROVE  StorageConsistent'
    BY <2>2, ProcessIsHonest, ProcessKeepsStorage, InterruptionStays DEF StorageConsistent
  <2> QED
    BY <2>1, <2>2, UserKeepsStorage DEF Next
<1> QED
  BY <1>1, <1>2, StoreIsConsistent, PTL DEF Spec

\* README.md, "Permanent key storage": unless two keys have one name, and until
\* a save is interrupted, every key that ssh-add was told SUCCESS for is in a
\* file that the next launch can load, or about to be written to it.
THEOREM StorageSurvives ==
  ASSUME OneProcess, UserWaits, "same_name" \notin Faults
  PROVE  Spec => []StorageLasts
<1>1. TypeOK /\ StorageConsistent => StorageLasts
  <2> SUFFICES ASSUME TypeOK, StorageConsistent, ~interrupted, NEW k \in acked
               PROVE  \/ Loads(file) /\ Has(file.ring, k)
                      \/ \E p \in Proc : Saving(p) /\ Has(mem[p], k) /\ Parses(mem[p])
    BY DEF StorageLasts, PermanentStorage
  <2>1. CASE \E p \in Proc : Saving(p)
    <3> PICK p \in Proc : Saving(p)
      BY <2>1
    <3>1. k \in KeysOf(mem[p]) /\ Parses(mem[p])
      BY DEF StorageConsistent, MemoryIsGood, Saving
    <3> QED
      BY <3>1 DEF KeysOf, Has
  <2>2. CASE \A p \in Proc : ~Saving(p)
    <3>1. k \in KeysOf(file.ring)
      BY <2>2 DEF StorageConsistent, FileIsGood
    <3>2. file.st = "whole"
      BY <3>1, EmptyRing DEF TypeOK, StorageConsistent, TextIsHonest, FileIsGood
    <3> QED
      BY <3>1, <3>2 DEF StorageConsistent, FileIsGood, Loads, KeysOf, Has
  <2> QED
    BY <2>1, <2>2
<1> QED
  BY <1>1, StoreTypeCorrect, StorageStaysConsistent, PTL

\* README.md, "To remove key": a block that the user deleted is not written
\* back, whatever saves fail and wherever the process is killed.
THEOREM RemovalIsFinal ==
  ASSUME OneProcess, UserWaits
  PROVE  Spec => []RemovedStaysRemoved
<1>1. StorageConsistent => RemovedStaysRemoved
  BY DEF StorageConsistent, TextIsHonest, RemovedStaysRemoved, KeysOf, Has
<1> QED
  BY <1>1, StorageStaysConsistent, PTL

\* The save at launch never replaces a file that the launch could not read,
\* also when an earlier save was cut short.
THEOREM LaunchIsSafe ==
  ASSUME OneProcess, UserWaits
  PROVE  Spec => []LaunchKeepsKeys
<1>1. StorageConsistent => LaunchKeepsKeys
  BY DEF StorageConsistent, TextIsHonest, LaunchKeepsKeys
<1> QED
  BY <1>1, StorageStaysConsistent, PTL

-----------------------------------------------------------------------------
\* With one process, the stored keys are those it is saving or those of the file.
LEMMA StoredKeysOfOne ==
  ASSUME OneProcess, NEW p \in Proc
  PROVE  /\ StoredKeys = IF Saving(p) THEN KeysOf(mem[p]) ELSE KeysOf(file.ring)
         /\ StoredKeys' = IF Saving(p)' THEN KeysOf(mem'[p]) ELSE KeysOf(file'.ring)
<1>1. \A q \in Proc : q = p
  BY DEF OneProcess
<1>2. StoredKeys = IF Saving(p) THEN KeysOf(mem[p]) ELSE KeysOf(file.ring)
  <2>1. CASE Saving(p)
    <3>1. (CHOOSE q \in Proc : Saving(q)) = p
      BY <1>1, <2>1
    <3> QED
      BY <2>1, <3>1 DEF StoredKeys
  <2>2. CASE ~Saving(p)
    BY <1>1, <2>2 DEF StoredKeys
  <2> QED
    BY <2>1, <2>2
<1>3. StoredKeys' = IF Saving(p)' THEN KeysOf(mem'[p]) ELSE KeysOf(file'.ring)
  <2>1. CASE Saving(p)'
    <3>1. (CHOOSE q \in Proc : Saving(q)') = p
      BY <1>1, <2>1
    <3> QED
      BY <2>1, <3>1 DEF StoredKeys
  <2>2. CASE ~Saving(p)'
    BY <1>1, <2>2 DEF StoredKeys
  <2> QED
    BY <2>1, <2>2
<1> QED
  BY <1>2, <1>3

\* The keys of a list of pairs are keys.
LEMMA KeysAreKeys ==
  ASSUME NEW ring \in Seq(KeyPair)
  PROVE  KeysOf(ring) \in SUBSET Key
<1> SUFFICES ASSUME NEW i \in DOMAIN ring
             PROVE  ring[i].key \in Key
  BY DEF KeysOf
<1>1. ring[i] \in KeyPair
  BY ElementOfSeq
<1> QED
  BY <1>1 DEF KeyPair

\* A step of the process is a step of the key store.  File::create of add_key
\* adds the key it has just pushed, the end of a save acknowledges that key, and
\* ssh-add with a known key acknowledges one that is stored; every other step
\* that interrupts no save changes nothing.
LEMMA ProcessImplementsStore ==
  ASSUME OneProcess, UserWaits, StoreConsistent, StorageConsistent, StoreConsistent',
         NEW p \in Proc, Process(p)
  PROVE  [Store!Next]_(Store!vars)
<1> USE StoredKeysOfOne
<1>0. mem[p] \in Seq(KeyPair) /\ DistinctKeys(mem[p]) /\ TypeOK
  BY DEF StoreConsistent, TypeOK, StorageConsistent, TextIsHonest, MemoryHasDistinctKeys
<1>a. CASE interrupted'
  <2>1. /\ mem'[p] \in Seq(KeyPair) /\ file'.ring \in Seq(KeyPair)
        /\ acked' \in SUBSET Key /\ interrupted' = TRUE
    BY <1>a DEF StoreConsistent, TypeOK
  <2>2. KeysOf(mem'[p]) \in SUBSET Key /\ KeysOf(file'.ring) \in SUBSET Key
    BY <2>1, KeysAreKeys
  <2>3. StoredKeys' \in SUBSET Key
    BY <2>2
  <2> QED
    BY <2>1, <2>3 DEF Store!Next, Store!Break
<1>b. CASE ~interrupted'
  <2> USE <1>b
  <2>0. /\ ~interrupted /\ interrupted' = interrupted
        /\ TextIsHonest /\ FileIsGood /\ MemoryIsGood
    BY InterruptionStays DEF StorageConsistent, StoreConsistent, TypeOK
  <2>1. CASE Launch(p) \/ Reload(p) \/ Serve(p) \/ Leave(p) \/ Exit(p) \/ Kill(p) \/ CreateFails(p)
    <3>1. ~Saving(p) /\ ~Saving(p)' /\ file' = file /\ acked' = acked
      BY <1>0, <2>1 DEF TypeOK, Saving, Launch, Reload, Serve, Leave, Exit, Kill, CreateFails, End, Goto
    <3>2. StoredKeys' = StoredKeys
      BY <3>1
    <3> QED
      BY <2>0, <3>1, <3>2 DEF Store!vars
  <2>2. ASSUME NEW pair \in KeyPair, AddKnown(p, pair)
        PROVE  [Store!Next]_(Store!vars)
    <3>1. /\ pair.key \in KeysOf(mem[p]) /\ KeysOf(mem[p]) \cap removed = {}
          /\ pc[p] = "serving" /\ UNCHANGED <<pc, mem, file>>
          /\ acked' = acked \cup {pair.key} /\ pair.key \in Key
      BY <1>0, <2>2, PushNewIsSafe DEF UserWaits, AddKnown, MayAdd, Acknowledge, KeyPair
    <3>2. StoredKeys = KeysOf(file.ring) /\ StoredKeys' = StoredKeys
      BY <3>1 DEF Saving
    <3>3. pair.key \in StoredKeys
      BY <2>0, <3>1, <3>2 DEF MemoryIsGood
    <3> QED
      BY <2>0, <3>1, <3>2, <3>3 DEF Store!Next, Store!Acknowledge
  <2>3. ASSUME NEW pair \in KeyPair, AddKey(p, pair)
        PROVE  [Store!Next]_(Store!vars)
    <3>1. ~Saving(p) /\ ~Saving(p)' /\ file' = file /\ acked' = acked
      BY <1>0, <2>3 DEF TypeOK, Saving, AddKey, MayAdd, Goto
    <3>2. StoredKeys' = StoredKeys
      BY <3>1
    <3> QED
      BY <2>0, <3>1, <3>2 DEF Store!vars
  <2>4. CASE CreateFile(p)
    <3>1. Saving(p)' /\ ~Saving(p) /\ mem' = mem /\ acked' = acked
      BY <1>0, <2>4 DEF TypeOK, Saving, CreateFile, Goto
    <3>2. StoredKeys = KeysOf(file.ring) /\ StoredKeys' = KeysOf(mem[p])
      BY <3>1
    <3>3. CASE pc[p] = "loaded"
      <4>1. StoredKeys' = StoredKeys
        BY <2>0, <3>2, <3>3 DEF TextIsHonest
      <4> QED
        BY <2>0, <3>1, <4>1 DEF Store!vars
    <3>4. CASE pc[p] = "pushed"
      <4>1. StoredKeys' = StoredKeys \cup {pend[p]}
        BY <2>0, <3>2, <3>4 DEF MemoryIsGood
      <4>2. pend[p] \in Key
        BY <3>4 DEF StoreConsistent
      <4> QED
        BY <2>0, <3>1, <4>1, <4>2 DEF Store!Next, Store!Add
    <3> QED
      BY <2>4, <3>3, <3>4 DEF CreateFile
  <2>5. CASE WriteFile(p)
    <3>1. Saving(p) /\ ~Saving(p)'
      BY <1>0, <2>5 DEF TypeOK, Saving, WriteFile, Goto
    <3>2. file' = Whole(mem[p])
      BY <2>0, <2>5, <3>1, SaveIsWhole DEF WriteFile, TextIsHonest
    <3>3. StoredKeys' = StoredKeys /\ StoredKeys = KeysOf(mem[p])
      BY <3>1, <3>2 DEF Whole
    <3>4. CASE acked' = acked
      BY <2>0, <3>3, <3>4 DEF Store!vars
    <3>5. CASE pc[p] = "truncated" /\ acked' = acked \cup {pend[p]}
      <4>1. pend[p] \in KeysOf(mem[p]) /\ pend[p] \in Key
        BY <2>0, <3>5 DEF MemoryIsGood, StoreConsistent
      <4> QED
        BY <2>0, <3>3, <3>5, <4>1 DEF Store!Next, Store!Acknowledge
    <3> QED
      BY <2>5, <3>4, <3>5 DEF WriteFile, Acknowledge
  <2>6. ~WriteFails(p)
    BY DEF WriteFails
  <2> QED
    BY <2>1, <2>2, <2>3, <2>4, <2>5, <2>6 DEF Process
<1> QED
  BY <1>a, <1>b

\* Deleting a block removes its key, from the stored and the acknowledged ones.
LEMMA UserImplementsStore ==
  ASSUME UserWaits, StoreConsistent, ~overlapped, NEW i \in DOMAIN file.ring, RemoveBlock(i)
  PROVE  Store!Next
<1>1. \A p \in Proc : ~Saving(p) /\ ~Saving(p)'
  BY DEF UserWaits, RemoveBlock, Saving
<1>2. StoredKeys = KeysOf(file.ring) /\ StoredKeys' = KeysOf(file'.ring)
  BY <1>1 DEF StoredKeys
<1>3. file.ring[i].key \in Key
  <2>1. file.ring \in Seq(KeyPair)
    BY DEF StoreConsistent, TypeOK
  <2>2. i \in 1..Len(file.ring)
    BY <2>1
  <2>3. file.ring[i] \in KeyPair
    BY <2>1, <2>2, ElementOfSeq
  <2> QED
    BY <2>3 DEF KeyPair
<1>4. acked' = acked \ {file.ring[i].key} /\ interrupted' = interrupted
  BY DEF RemoveBlock
<1>5. StoredKeys' = StoredKeys \ {file.ring[i].key}
  BY <1>2, RemoveBlockTakesOneKey
<1> QED
  BY <1>3, <1>4, <1>5 DEF Store!Next, Store!Remove

\* One process and its file implement the abstract key store: until a save is
\* interrupted, launches, saves, reloads, exits and kills do not change what is
\* stored, and SUCCESS is answered only for keys that are.
THEOREM ImplementsKeyStore ==
  ASSUME OneProcess, UserWaits
  PROVE  Spec => StorageIsPermanent
<1>1. Init => Store!Init
  BY EmptyRing DEF Init, Absent, StoredKeys, Saving, Store!Init
<1>2. StoreConsistent /\ StoreConsistent' /\ StorageConsistent /\ [Next]_vars
        => [Store!Next]_(Store!vars)
  <2>1. UNCHANGED vars => UNCHANGED Store!vars
    BY DEF vars, StoredKeys, Saving, Store!vars
  <2> QED
    BY <2>1, ProcessImplementsStore, UserImplementsStore DEF Next, StorageConsistent, TextIsHonest
<1> QED
  BY <1>1, <1>2, StoreIsConsistent, StorageStaysConsistent, PTL
     DEF Spec, StorageIsPermanent, Store!Spec

=============================================================================
