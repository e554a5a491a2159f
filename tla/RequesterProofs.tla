---------------------------- MODULE RequesterProofs ----------------------------
(***************************************************************************)
(* Proofs about Requester, for any processes, ids and bounds.              *)
(***************************************************************************)
EXTENDS Requester, FiniteSets, FiniteSetTheorems, Functions, TLAPS

USE RequesterAssumption DEF RequesterAssumption

\* Whoever descends from a descendant descends from the ancestor.
LEMMA AncestorTransitive ==
  ASSUME NEW a, NEW b, NEW c \in Process, IsAncestor(a, b), IsAncestor(b, c)
  PROVE  IsAncestor(a, c)
  BY DEF IsAncestor

\* A process counts among its own ancestors, and so does its creator.
LEMMA AncestorBase ==
  ASSUME NEW p \in Process
  PROVE  IsAncestor(p, p) /\ (creator[p] # None => IsAncestor(creator[p], p))
  BY DEF IsAncestor

\* The initial state is consistent.
LEMMA InitConsistent == Init => Consistent
<1> SUFFICES ASSUME Init PROVE Consistent
  OBVIOUS
<1>1. TypeOK
  <2>1. status \in [Process -> {"new", "running", "ended"}]
    BY DEF Init
  <2>2. pid \in [Process -> Pid \cup {0}]
    BY DEF Init
  <2>3. creator \in [Process -> Process \cup {None}]
    BY DEF Init
  <2>4. win \in [Process -> {"none", "hidden", "visible"}]
    BY DEF Init
  <2>5. /\ changes \in 0..MaxChanges /\ cur = 0 /\ main = 0 /\ next = 1
        /\ asker = None /\ short = None /\ moved = {} /\ place = "idle"
        /\ stack = << >> /\ long = << >>
    BY DEF Init
  <2> QED
    BY <2>1, <2>2, <2>3, <2>4, <2>5 DEF TypeOK
<1>2. TableConsistent
  BY DEF Init, TableConsistent, Started
<1>3. WalkConsistent /\ AskerConsistent /\ ChainConsistent /\ ShowsTheAsker /\ ShowsTheVisibleOne
  BY DEF Init, WalkConsistent, AskerConsistent, ChainConsistent, ChainHolds, ShowsTheAsker, ShowsTheVisibleOne
<1> QED
  BY <1>1, <1>2, <1>3 DEF Consistent

-----------------------------------------------------------------------------
\* What a step of the system leaves as it is: the walk, and of the processes
\* that have started the id, the creator and what they descend from.
LEMMA StartedKeep ==
  ASSUME Consistent, System
  PROVE  /\ UNCHANGED walkVars
         /\ Started \subseteq Started'
         /\ \A p \in Started : pid'[p] = pid[p] /\ creator'[p] = creator[p]
         /\ \A p \in Started : status'[p] = "running" => status[p] = "running"
         /\ \A a, b : IsAncestor(a, b) => IsAncestor(a, b)'
         /\ Reused => Reused'
         /\ TypeOK' /\ TableConsistent'
<1> USE DEF Consistent, TypeOK
<1>1. CASE \E p, q \in Process, x \in Pid, w \in {"none", "hidden", "visible"} : StartProcess(p, q, x, w)
  <2> PICK p \in Process, q \in Process, x \in Pid, w \in {"none", "hidden", "visible"} :
        StartProcess(p, q, x, w)
    BY <1>1
  <2>1. UNCHANGED walkVars /\ TypeOK'
    BY DEF StartProcess, walkVars
  <2>2. /\ Started' = Started \cup {p} /\ p \notin Started /\ q \in Started
        /\ \A r \in Started : pid'[r] = pid[r] /\ creator'[r] = creator[r] /\ status'[r] = status[r]
        /\ pid'[p] = x /\ creator'[p] = q /\ status'[p] = "running"
    BY DEF StartProcess, Started
  <2>3. creator[p] = None
    BY DEF StartProcess, TableConsistent
  <2>4. \A a, b : IsAncestor(a, b) => IsAncestor(a, b)'
    <3> SUFFICES ASSUME NEW a, NEW b, IsAncestor(a, b),
                        NEW S \in SUBSET Process,
                        b \in S, \A r \in S : creator'[r] # None => creator'[r] \in S
                 PROVE  a \in S
      BY DEF IsAncestor
    <3>1. \A r \in S : creator[r] # None => creator[r] \in S
      BY <2>2, <2>3 DEF StartProcess
    <3> QED
      BY <3>1 DEF IsAncestor
  <2>5. Reused => Reused'
    BY <2>2 DEF Reused
  <2>6. TableConsistent'
    BY <2>2 DEF TableConsistent, StartProcess, Started, At
  <2> QED
    BY <2>1, <2>2, <2>4, <2>5, <2>6
<1>2. CASE (\E p \in Process : EndProcess(p))
           \/ (\E p \in Process, w \in {"none", "hidden", "visible"} : ChangeWindow(p, w))
  <2>1. UNCHANGED <<walkVars, pid, creator>> /\ Started' = Started
    BY <1>2 DEF EndProcess, ChangeWindow, walkVars, Started
  <2>2. TypeOK'
    BY <1>2 DEF EndProcess, ChangeWindow, walkVars, Moved
  <2>3. \A p \in Process : status'[p] = "running" => status[p] = "running"
    BY <1>2 DEF EndProcess, ChangeWindow
  <2>4. TableConsistent'
    <3>1. \A p \in Process : status'[p] = "new" => status[p] = "new"
      BY <1>2 DEF EndProcess, ChangeWindow
    <3> QED
      BY <2>1, <2>3, <3>1 DEF TableConsistent
  <2>5. Reused' = Reused /\ \A a, b : IsAncestor(a, b)' = IsAncestor(a, b)
    BY <2>1 DEF Reused, IsAncestor
  <2> QED
    BY <2>1, <2>2, <2>3, <2>4, <2>5 DEF Started
<1> QED
  BY <1>1, <1>2 DEF System

\* A window of a process that is on the stack changes only with the process
\* being noted as moved.
LEMMA WindowsMove ==
  ASSUME Consistent, System, place # "idle"
  PROVE  /\ moved \subseteq moved'
         /\ \A p \in Started : p \notin moved' => win'[p] = win[p]
<1> USE DEF Consistent, TypeOK
<1>1. CASE \E p, q \in Process, x \in Pid, w \in {"none", "hidden", "visible"} : StartProcess(p, q, x, w)
  BY <1>1 DEF StartProcess, Started
<1>2. CASE \E p \in Process : EndProcess(p)
  BY <1>2 DEF EndProcess, Moved, Started
<1>3. CASE \E p \in Process, w \in {"none", "hidden", "visible"} : ChangeWindow(p, w)
  BY <1>3 DEF ChangeWindow, Moved, Started
<1> QED
  BY <1>1, <1>2, <1>3 DEF System

\* A step of the system keeps the state consistent.
LEMMA SystemStep == Consistent /\ System => Consistent'
<1> SUFFICES ASSUME Consistent, System PROVE Consistent'
  OBVIOUS
<1> DEFINE S == Started
<1>1. /\ UNCHANGED <<place, asker, cur, stack, main, next, short, long>>
      /\ S \subseteq S'
      /\ \A p \in S : pid'[p] = pid[p] /\ creator'[p] = creator[p]
      /\ \A p \in S : status'[p] = "running" => status[p] = "running"
      /\ TypeOK' /\ TableConsistent'
  BY StartedKeep DEF walkVars
<1>2. \A a, b : IsAncestor(a, b) => IsAncestor(a, b)'
  BY StartedKeep
<1>3. Reused => Reused'
  BY StartedKeep
<1>4. WalkConsistent'
  BY <1>1 DEF Consistent, WalkConsistent
<1>5. AskerConsistent'
  BY <1>1 DEF Consistent, AskerConsistent, WalkConsistent
<1>6. ShowsTheAsker'
  BY <1>1, <1>2, <1>3 DEF Consistent, ShowsTheAsker
<1>7. ChainConsistent'
  <2> SUFFICES ASSUME ~Reused' PROVE ChainHolds'
    BY DEF ChainConsistent
  <2> DEFINE Known(x) == \E p \in S : pid[p] = x
  <2>1. ChainHolds
    BY <1>3 DEF Consistent, ChainConsistent
  <2>2. ASSUME NEW x, Known(x), NEW q \in S', pid'[q] = x
        PROVE  q \in S /\ pid[q] = x
    BY <1>1, <2>2 DEF Reused
  <2>3. \A i \in DOMAIN stack : \E p \in S : pid[p] = stack[i].pid /\ IsAncestor(p, asker)
    BY <2>1 DEF ChainHolds
  <2>4. \A i \in DOMAIN stack' : \E p \in S' : pid'[p] = stack'[i].pid /\ IsAncestor(p, asker)'
    BY <1>1, <1>2, <2>3
  <2>5. \A i, j \in DOMAIN stack' : i < j => \A p, q \in S' :
          pid'[p] = stack'[i].pid /\ pid'[q] = stack'[j].pid => IsAncestor(q, p)'
    BY <1>1, <1>2, <2>1, <2>2, <2>3 DEF ChainHolds
  <2>6. ASSUME place' \in {"waiting", "window"}
        PROVE  /\ \E p \in S' : pid'[p] = cur' /\ IsAncestor(p, asker)'
               /\ \A i \in DOMAIN stack' : \A p, q \in S' :
                    pid'[p] = stack'[i].pid /\ pid'[q] = cur' => IsAncestor(q, p)'
    <3>1. PICK r \in S : pid[r] = cur /\ IsAncestor(r, asker)
      BY <1>1, <2>1, <2>6 DEF ChainHolds
    <3>2. Known(cur)
      BY <3>1
    <3>3. \A i \in DOMAIN stack : \A p, q \in S :
            pid[p] = stack[i].pid /\ pid[q] = cur => IsAncestor(q, p)
      BY <1>1, <2>1, <2>6 DEF ChainHolds
    <3> QED
      BY <1>1, <1>2, <2>2, <2>3, <3>1, <3>2, <3>3
  <2>7. ASSUME place' = "long"
        PROVE  \A k \in DOMAIN long', j \in DOMAIN stack' : j >= next' =>
                 \A q \in S' : pid'[q] = stack'[j].pid => IsAncestor(q, long[k])'
    BY <1>1, <1>2, <2>1, <2>2, <2>3, <2>7 DEF ChainHolds
  <2> QED
    BY <2>4, <2>5, <2>6, <2>7 DEF ChainHolds
<1>8. ShowsTheVisibleOne'
  <2> SUFFICES ASSUME place' \in {"short", "long"}, NEW i \in DOMAIN stack', SteadilyVisible(i)'
               PROVE  \/ main' = i
                      \/ main' < i /\ HasWindow(main)' /\ (HasVisible(main)' \/ stack'[main'].window \in moved')
    BY DEF ShowsTheVisibleOne
  <2>1. /\ moved \subseteq moved'
        /\ \A p \in S : p \notin moved' => win'[p] = win[p]
    BY <1>1, WindowsMove
  <2>2. \A j \in DOMAIN stack : stack[j].window \in S \cup {None}
    BY DEF Consistent, WalkConsistent
  <2>3. main \in DOMAIN stack
    BY <1>1 DEF Consistent, WalkConsistent
  <2>4. SteadilyVisible(i)
    BY <1>1, <2>1, <2>2 DEF SteadilyVisible, HasVisible, HasWindow
  <2>5. main = i \/ (main < i /\ HasWindow(main) /\ (HasVisible(main) \/ stack[main].window \in moved))
    BY <1>1, <2>4 DEF Consistent, ShowsTheVisibleOne
  <2> QED
    BY <1>1, <2>1, <2>2, <2>3, <2>5 DEF HasVisible, HasWindow
<1> QED
  BY <1>1, <1>4, <1>5, <1>6, <1>7, <1>8 DEF Consistent

-----------------------------------------------------------------------------
\* A step of the listener leaves the process table alone.
LEMMA TableKeeps ==
  ASSUME Consistent, UNCHANGED tableVars
  PROVE  /\ TableConsistent' /\ Started' = Started /\ Reused' = Reused
         /\ \A a, b : IsAncestor(a, b)' = IsAncestor(a, b)
         /\ \A x : At(x)' = At(x) /\ Openable(x)' = Openable(x)
  BY DEF Consistent, TableConsistent, Started, Reused, IsAncestor, At, Openable, tableVars

\* As long as no id is used twice, the process that has an id now is the one
\* that ever had it.
LEMMA UniqueProcess ==
  ASSUME ~Reused, NEW x, NEW p \in At(x), NEW q \in Started, pid[q] = x
  PROVE  p = q
  BY DEF Reused, At, Started

\* The walk starts with the client.
LEMMA IdentifyStep ==
  ASSUME Consistent, NEW p \in Process, Identify(p)
  PROVE  Consistent'
<1> USE DEF Identify
<1>1. TypeOK'
  BY DEF Consistent, TypeOK, tableVars
<1>2. TableConsistent' /\ Started' = Started /\ Reused' = Reused
  BY TableKeeps
<1>3. p \in Started
  BY DEF Started
<1>4. WalkConsistent'
  BY <1>2, <1>3 DEF Consistent, WalkConsistent, tableVars
<1>5. AskerConsistent' /\ ShowsTheAsker' /\ ShowsTheVisibleOne'
  BY DEF Consistent, WalkConsistent, AskerConsistent, ShowsTheAsker, ShowsTheVisibleOne
<1>6. ChainConsistent'
  <2>1. IsAncestor(p, p)'
    BY DEF IsAncestor
  <2>2. stack' = << >>
    BY DEF Consistent, WalkConsistent
  <2> QED
    BY <1>2, <1>3, <2>1, <2>2 DEF ChainConsistent, ChainHolds, tableVars
<1> QED
  BY <1>1, <1>2, <1>4, <1>5, <1>6 DEF Consistent

\* An entry is pushed for the current process.
LEMMA FindWindowStep == Consistent /\ FindWindow => Consistent'
<1> SUFFICES ASSUME Consistent, FindWindow PROVE Consistent'
  OBVIOUS
<1> USE DEF FindWindow
<1>1. TableConsistent' /\ Started' = Started /\ Reused' = Reused
  BY TableKeeps
<1>2. \A a, b : IsAncestor(a, b)' = IsAncestor(a, b)
  BY TableKeeps
<1>3. cur \in Pid
  BY DEF Consistent, TypeOK, WalkConsistent
<1>4. PICK w \in Started \cup {None} : stack' = Append(stack, [pid |-> cur, window |-> w])
  BY DEF At, Started
<1>5. /\ TypeOK'
      /\ stack \in Seq(Entry) /\ Len(stack') = Len(stack) + 1
      /\ \A i \in DOMAIN stack : stack'[i] = stack[i]
      /\ DOMAIN stack = 1..Len(stack) /\ DOMAIN stack' = 1..(Len(stack) + 1)
      /\ stack'[Len(stack) + 1] = [pid |-> cur, window |-> w]
  <2>1. w \in Process \cup {None} /\ stack \in Seq(Entry)
    BY DEF Started, Consistent, TypeOK
  <2>2. [pid |-> cur, window |-> w] \in Entry
    BY <1>3, <2>1 DEF Entry
  <2>3. stack' \in Seq(Entry)
    BY <1>4, <2>1, <2>2
  <2> QED
    BY <1>4, <2>1, <2>2, <2>3 DEF Consistent, TypeOK, tableVars
<1>6. WalkConsistent'
  BY <1>1, <1>5 DEF Consistent, WalkConsistent, tableVars
<1>7. AskerConsistent' /\ ShowsTheAsker' /\ ShowsTheVisibleOne'
  BY <1>1, <1>2 DEF Consistent, WalkConsistent, AskerConsistent, ShowsTheAsker, ShowsTheVisibleOne, tableVars
<1>8. ChainConsistent'
  BY <1>1, <1>2, <1>5 DEF Consistent, ChainConsistent, ChainHolds, tableVars
<1> QED
  BY <1>1, <1>5, <1>6, <1>7, <1>8 DEF Consistent

\* The walk goes on to the process that created the current one, or ends.
LEMMA GoToParentStep == Consistent /\ GoToParent => Consistent'
<1> SUFFICES ASSUME Consistent, GoToParent PROVE Consistent'
  OBVIOUS
<1> USE DEF GoToParent
<1>1. TableConsistent' /\ Started' = Started /\ Reused' = Reused
  BY TableKeeps
<1>2. \A a, b : IsAncestor(a, b)' = IsAncestor(a, b)
  BY TableKeeps
<1>3. cur' # 0 => \E p \in At(cur) : creator[p] \in Started /\ cur' = pid[creator[p]]
  BY DEF ParentOf, ParentIds, Openable, At, Started, Consistent, TableConsistent
<1>4. cur' \in Pid \cup {0}
  BY <1>3 DEF Consistent, TableConsistent
<1>5. TypeOK'
  BY <1>4 DEF Consistent, TypeOK, tableVars
<1>6. WalkConsistent'
  BY <1>1 DEF Consistent, WalkConsistent, tableVars
<1>7. AskerConsistent' /\ ShowsTheAsker' /\ ShowsTheVisibleOne'
  BY <1>1, <1>2 DEF Consistent, WalkConsistent, AskerConsistent, ShowsTheAsker, ShowsTheVisibleOne, tableVars
<1>8. ChainConsistent'
  <2> SUFFICES ASSUME ~Reused PROVE ChainHolds'
    BY <1>1 DEF ChainConsistent
  <2>1. ChainHolds /\ stack \in Seq(Entry)
    BY DEF Consistent, ChainConsistent, TypeOK
  <2>2. stack # << >> /\ cur = stack[Len(stack)].pid /\ Len(stack) \in DOMAIN stack
    BY <2>1 DEF Consistent, WalkConsistent
  <2>3. ASSUME cur' # 0
        PROVE  /\ \E p \in Started : pid[p] = cur' /\ IsAncestor(p, asker)
               /\ \A i \in DOMAIN stack : \A p, q \in Started :
                    pid[p] = stack[i].pid /\ pid[q] = cur' => IsAncestor(q, p)
    <3>1. PICK r \in At(cur) : creator[r] \in Started /\ cur' = pid[creator[r]]
      BY <1>3, <2>3
    <3>2. r \in Process /\ r \in Started /\ pid[r] = cur /\ asker \in Process
      BY DEF At, Started, Consistent, WalkConsistent
    <3>3. IsAncestor(creator[r], r)
      BY <3>1, <3>2, AncestorBase DEF Started
    <3>4. IsAncestor(r, asker)
      BY <2>1, <2>2, <3>2, UniqueProcess DEF ChainHolds
    <3>5. IsAncestor(creator[r], asker)
      BY <3>2, <3>3, <3>4, AncestorTransitive
    <3>6. ASSUME NEW i \in DOMAIN stack, NEW p \in Started, NEW q \in Started,
                 pid[p] = stack[i].pid, pid[q] = cur'
          PROVE  IsAncestor(q, p)
      <4>1. q = creator[r] /\ p \in Process
        BY <3>1, <3>6 DEF Reused, Started
      <4>2. IsAncestor(r, p)
        <5>1. CASE i = Len(stack)
          BY <2>2, <3>2, <3>6, <5>1, AncestorBase DEF Reused, Started
        <5>2. CASE i < Len(stack)
          BY <2>1, <2>2, <3>2, <3>6, <5>2 DEF ChainHolds
        <5> QED
          BY <2>1, <5>1, <5>2
      <4> QED
        BY <3>3, <4>1, <4>2, AncestorTransitive
    <3> QED
      BY <3>1, <3>5, <3>6
  <2> QED
    BY <1>1, <1>2, <2>1, <2>3 DEF ChainHolds, tableVars
<1> QED
  BY <1>1, <1>5, <1>6, <1>7, <1>8 DEF Consistent

\* The main process is chosen: nothing on the stack changes.
LEMMA ChooseMainStep == Consistent /\ ChooseMain => Consistent'
<1> SUFFICES ASSUME Consistent, ChooseMain PROVE Consistent'
  OBVIOUS
<1> USE DEF ChooseMain
<1>1. TableConsistent' /\ Started' = Started /\ Reused' = Reused
  BY TableKeeps
<1>2. \A a, b : IsAncestor(a, b)' = IsAncestor(a, b)
  BY TableKeeps
<1>3. PICK i \in DOMAIN stack : IsMain(i) /\ main' = i
  OBVIOUS
<1>4. stack \in Seq(Entry) /\ i \in 1..Len(stack)
  BY DEF Consistent, TypeOK
<1>5. TypeOK'
  BY <1>3, <1>4 DEF Consistent, TypeOK, tableVars
<1>6. WalkConsistent'
  BY <1>1, <1>3 DEF Consistent, WalkConsistent, tableVars
<1>7. AskerConsistent' /\ ShowsTheAsker'
  BY <1>1, <1>2 DEF Consistent, WalkConsistent, AskerConsistent, ShowsTheAsker, tableVars
<1>8. ShowsTheVisibleOne'
  <2> SUFFICES ASSUME NEW j \in DOMAIN stack, SteadilyVisible(j)
               PROVE  i = j \/ (i < j /\ HasWindow(i) /\ HasVisible(i))
    BY <1>3 DEF ShowsTheVisibleOne, SteadilyVisible, HasVisible, HasWindow, tableVars
  <2>1. HasVisible(j) /\ j \in 1..Len(stack)
    BY <1>4 DEF SteadilyVisible
  <2>2. HasVisible(i) /\ \A k \in 1..(i - 1) : ~HasVisible(k)
    BY <1>3, <2>1 DEF IsMain
  <2>3. ~(j < i)
    BY <1>4, <2>1, <2>2
  <2> QED
    BY <1>4, <2>1, <2>2, <2>3 DEF HasVisible
<1>9. ChainConsistent'
  BY <1>1, <1>2 DEF Consistent, WalkConsistent, ChainConsistent, ChainHolds, tableVars
<1> QED
  BY <1>1, <1>5, <1>6, <1>7, <1>8, <1>9 DEF Consistent

\* The main process is described, or nothing is.
LEMMA DescribeMainStep == Consistent /\ DescribeMain => Consistent'
<1> SUFFICES ASSUME Consistent, DescribeMain PROVE Consistent'
  OBVIOUS
<1> USE DEF DescribeMain
<1>1. TableConsistent' /\ Started' = Started /\ Reused' = Reused
  BY TableKeeps
<1>2. \A a, b : IsAncestor(a, b)' = IsAncestor(a, b)
  BY TableKeeps
<1>3. short' # None => short' \in At(stack[main].pid)
  BY DEF Openable
<1>4. At(stack[main].pid) \subseteq Started /\ Started \subseteq Process
  BY DEF At, Started
<1>5. TypeOK'
  BY <1>3, <1>4 DEF Consistent, TypeOK, tableVars
<1>6. WalkConsistent'
  BY <1>1, <1>3, <1>4 DEF Consistent, WalkConsistent, tableVars
<1>7. AskerConsistent'
  BY <1>1 DEF Consistent, WalkConsistent, AskerConsistent, tableVars
<1>8. ShowsTheAsker'
  <2> SUFFICES ASSUME ~Reused, short' # None PROVE IsAncestor(short', asker)
    BY <1>1, <1>2 DEF Consistent, WalkConsistent, ShowsTheAsker
  <2>1. PICK p \in Started : pid[p] = stack[main].pid /\ IsAncestor(p, asker)
    BY DEF Consistent, WalkConsistent, ChainConsistent, ChainHolds
  <2> QED
    BY <1>3, <2>1, UniqueProcess
<1>9. ShowsTheVisibleOne'
  BY DEF Consistent, ShowsTheVisibleOne, SteadilyVisible, HasVisible, HasWindow, tableVars
<1>10. ChainConsistent'
  BY <1>1, <1>2 DEF Consistent, WalkConsistent, ChainConsistent, ChainHolds, tableVars
<1> QED
  BY <1>1, <1>5, <1>6, <1>7, <1>8, <1>9, <1>10 DEF Consistent

\* An entry is described, or left out.
LEMMA DescribeNextStep == Consistent /\ DescribeNext => Consistent'
<1> SUFFICES ASSUME Consistent, DescribeNext PROVE Consistent'
  OBVIOUS
<1> USE DEF DescribeNext
<1>1. TableConsistent' /\ Started' = Started /\ Reused' = Reused
  BY TableKeeps
<1>2. \A a, b : IsAncestor(a, b)' = IsAncestor(a, b)
  BY TableKeeps
<1>3. /\ stack \in Seq(Entry) /\ long \in Seq(Process)
      /\ next \in DOMAIN stack /\ next \in Nat /\ next >= 1
  BY DEF Consistent, TypeOK
<1>4. \/ long' = long /\ Openable(stack[next].pid) = {}
      \/ \E p \in Openable(stack[next].pid) : long' = Append(long, p)
  OBVIOUS
<1>5. \A p \in Openable(stack[next].pid) : p \in At(stack[next].pid) /\ p \in Started /\ p \in Process
  BY DEF Openable, At, Started
<1>6. TypeOK'
  <2>1. long' \in Seq(Process)
    BY <1>3, <1>4, <1>5
  <2> QED
    BY <1>3, <2>1 DEF Consistent, TypeOK, tableVars
<1>7. WalkConsistent'
  <2>1. \A k \in DOMAIN long' : long'[k] \in Started
    <3>1. \A k \in DOMAIN long : long[k] \in Started
      BY DEF Consistent, WalkConsistent
    <3>2. ASSUME NEW p \in Openable(stack[next].pid), long' = Append(long, p)
          PROVE  \A k \in DOMAIN long' : long'[k] \in Started
      BY <1>3, <1>5, <3>1, <3>2
    <3> QED
      BY <1>4, <3>1, <3>2
  <2>2. next' >= 1 /\ next' # 1
    BY <1>3
  <2> QED
    BY <1>1, <2>1, <2>2 DEF Consistent, WalkConsistent, tableVars
<1>8. AskerConsistent'
  <2> SUFFICES ASSUME status[asker] = "running", asker \notin Protected
               PROVE  long' # << >> /\ long'[1] = asker
    BY DEF AskerConsistent, tableVars
  <2>1. CASE next = 1
    <3>1. asker \in Openable(stack[next].pid) /\ long = << >>
      BY <2>1 DEF Openable, At, Started, Consistent, WalkConsistent
    <3>2. \A p \in At(stack[next].pid) : p = asker
      BY <2>1, <3>1 DEF At, Openable, Consistent, TableConsistent
    <3>3. long' = Append(<< >>, asker)
      BY <1>4, <1>5, <3>1, <3>2
    <3> QED
      BY <3>3
  <2>2. CASE next > 1
    <3>1. long # << >> /\ long[1] = asker
      BY <2>2 DEF Consistent, AskerConsistent
    <3>2. ASSUME NEW p PROVE Append(long, p) # << >> /\ Append(long, p)[1] = long[1]
      BY <1>3, <3>1
    <3> QED
      BY <1>4, <3>1, <3>2
  <2> QED
    BY <1>3, <2>1, <2>2
<1>9. ShowsTheVisibleOne'
  BY DEF Consistent, ShowsTheVisibleOne, SteadilyVisible, HasVisible, HasWindow, tableVars
<1>10. ASSUME ~Reused PROVE ChainHolds /\ asker \in Started /\ \A k \in DOMAIN long : long[k] \in Process
  BY <1>3, <1>10 DEF Consistent, ChainConsistent, WalkConsistent
<1>11. ASSUME ~Reused, NEW p \in Openable(stack[next].pid)
       PROVE  /\ IsAncestor(p, asker) /\ pid[p] = stack[next].pid
              /\ \A k \in DOMAIN long : IsAncestor(p, long[k])
              /\ \A j \in DOMAIN stack : j > next =>
                   \A q \in Started : pid[q] = stack[j].pid => IsAncestor(q, p)
  <2>1. p \in Started /\ pid[p] = stack[next].pid
    BY <1>5, <1>11 DEF At
  <2>2. PICK r \in Started : pid[r] = stack[next].pid /\ IsAncestor(r, asker)
    BY <1>3, <1>10, <1>11 DEF ChainHolds
  <2>3. r = p
    BY <1>5, <1>11, <2>2, UniqueProcess
  <2> QED
    BY <1>3, <1>10, <1>11, <2>1, <2>2, <2>3 DEF ChainHolds
<1>12. ShowsTheAsker'
  <2> SUFFICES ASSUME ~Reused
               PROVE  /\ \A k \in DOMAIN long' : IsAncestor(long'[k], asker)
                      /\ \A k, l \in DOMAIN long' : k < l => IsAncestor(long'[l], long'[k])
    BY <1>1, <1>2 DEF Consistent, ShowsTheAsker
  <2>1. /\ \A k \in DOMAIN long : IsAncestor(long[k], asker)
        /\ \A k, l \in DOMAIN long : k < l => IsAncestor(long[l], long[k])
    BY DEF Consistent, ShowsTheAsker
  <2>2. CASE long' = long
    BY <2>1, <2>2
  <2>3. ASSUME NEW p \in Openable(stack[next].pid), long' = Append(long, p)
        PROVE  /\ \A k \in DOMAIN long' : IsAncestor(long'[k], asker)
               /\ \A k, l \in DOMAIN long' : k < l => IsAncestor(long'[l], long'[k])
    <3>1. /\ DOMAIN long = 1..Len(long) /\ DOMAIN long' = 1..(Len(long) + 1) /\ Len(long) \in Nat
          /\ long'[Len(long) + 1] = p
          /\ \A k \in 1..Len(long) : long'[k] = long[k]
      BY <1>3, <1>5, <2>3
    <3>2. IsAncestor(p, asker) /\ \A k \in DOMAIN long : IsAncestor(p, long[k])
      BY <1>11
    <3> QED
      BY <2>1, <3>1, <3>2
  <2> QED
    BY <1>4, <2>2, <2>3
<1>13. ChainConsistent'
  <2> SUFFICES ASSUME ~Reused
               PROVE  \A k \in DOMAIN long', j \in DOMAIN stack : j >= next + 1 =>
                        \A q \in Started : pid[q] = stack[j].pid => IsAncestor(q, long'[k])
    BY <1>1, <1>2, <1>10 DEF ChainConsistent, ChainHolds, tableVars
  <2>1. \A k \in DOMAIN long, j \in DOMAIN stack : j >= next =>
          \A q \in Started : pid[q] = stack[j].pid => IsAncestor(q, long[k])
    BY <1>10 DEF ChainHolds
  <2> QED
    BY <1>3, <1>4, <1>5, <1>11, <2>1
<1> QED
  BY <1>1, <1>6, <1>7, <1>8, <1>9, <1>12, <1>13 DEF Consistent

\* The first and the last step of the walk.
LEMMA BeginEndStep == Consistent /\ (BeginWalk \/ FinishDescription) => Consistent'
<1> SUFFICES ASSUME Consistent, BeginWalk \/ FinishDescription PROVE Consistent'
  OBVIOUS
<1> USE DEF BeginWalk, FinishDescription
<1>1. TableConsistent' /\ Started' = Started /\ Reused' = Reused
  BY TableKeeps
<1>2. \A a, b : IsAncestor(a, b)' = IsAncestor(a, b)
  BY TableKeeps
<1>3. TypeOK'
  BY DEF Consistent, TypeOK, tableVars
<1>4. WalkConsistent'
  BY <1>1 DEF Consistent, TableConsistent, WalkConsistent, tableVars
<1>5. AskerConsistent'
  BY <1>1 DEF Consistent, TypeOK, WalkConsistent, AskerConsistent, tableVars
<1>6. ShowsTheAsker' /\ ShowsTheVisibleOne'
  BY <1>1, <1>2 DEF Consistent, WalkConsistent, ShowsTheAsker, ShowsTheVisibleOne, SteadilyVisible,
                    HasVisible, HasWindow, tableVars
<1>7. ChainConsistent'
  BY <1>1, <1>2 DEF Consistent, ChainConsistent, ChainHolds, tableVars
<1> QED
  BY <1>1, <1>3, <1>4, <1>5, <1>6, <1>7 DEF Consistent

\* The invariant of the requester lookup.
THEOREM RequesterIsConsistent == Spec => []Consistent
<1>1. Consistent /\ [Next]_vars => Consistent'
  <2> SUFFICES ASSUME Consistent, [Next]_vars PROVE Consistent'
    OBVIOUS
  <2>1. CASE UNCHANGED vars
    <3> USE <2>1 DEF vars
    <3>1. UNCHANGED tableVars /\ UNCHANGED walkVars
      BY DEF tableVars, walkVars
    <3>2. TableConsistent' /\ Started' = Started /\ Reused' = Reused
      BY <3>1, TableKeeps
    <3>3. \A a, b : IsAncestor(a, b)' = IsAncestor(a, b)
      BY <3>1, TableKeeps
    <3>4. TypeOK' /\ WalkConsistent' /\ AskerConsistent'
      BY <3>2 DEF Consistent, TypeOK, WalkConsistent, AskerConsistent
    <3>5. ChainConsistent' /\ ShowsTheAsker'
      BY <3>2, <3>3 DEF Consistent, ChainConsistent, ChainHolds, ShowsTheAsker
    <3>6. ShowsTheVisibleOne'
      BY DEF Consistent, ShowsTheVisibleOne, SteadilyVisible, HasVisible, HasWindow
    <3> QED
      BY <3>2, <3>4, <3>5, <3>6 DEF Consistent
  <2>2. CASE Walk
    BY <2>2, BeginEndStep, FindWindowStep, GoToParentStep, ChooseMainStep, DescribeMainStep,
       DescribeNextStep DEF Walk
  <2> QED
    BY <2>1, <2>2, SystemStep, IdentifyStep DEF Next, Finished
<1> QED
  BY <1>1, InitConsistent, PTL DEF Spec

\* The user is shown the process that asked and those it descends from.
THEOREM AskerIsShown == Spec => []ShowsTheAsker
<1>1. Consistent => ShowsTheAsker
  BY DEF Consistent
<1> QED
  BY <1>1, RequesterIsConsistent, PTL

\* A process with a window on screen is not passed over.
THEOREM VisibleOneIsShown == Spec => []ShowsTheVisibleOne
<1>1. Consistent => ShowsTheVisibleOne
  BY DEF Consistent
<1> QED
  BY <1>1, RequesterIsConsistent, PTL

\* A client that still runs comes first, also when ids are used again.
THEOREM AskerIsFirst == Spec => []AskerComesFirst
<1>1. Consistent => AskerComesFirst
  BY DEF Consistent, AskerConsistent, AskerComesFirst
<1> QED
  BY <1>1, RequesterIsConsistent, PTL

-----------------------------------------------------------------------------
\* A process that starts is an ancestor of itself only, and changes nothing
\* about the descent of the others.
LEMMA StartKeepsDescent ==
  ASSUME Consistent, DescentConsistent,
         NEW p \in Process, NEW q \in Process, NEW x \in Pid, NEW w, StartProcess(p, q, x, w)
  PROVE  DescentConsistent'
<1>1. /\ p \notin Started /\ q \in Started /\ creator \in [Process -> Process \cup {None}]
      /\ \A r \in Process : creator[r] # p
      /\ creator' = [creator EXCEPT ![p] = q]
  BY DEF StartProcess, Started, Consistent, TypeOK, TableConsistent
<1>2. \A r \in Process : creator'[r] # p /\ creator'[r] # r
  BY <1>1 DEF DescentConsistent
<1>3. ASSUME NEW b \in Process \ {p} PROVE ~IsAncestor(p, b)'
  <2>1. \A r \in Process \ {p} : creator'[r] # None => creator'[r] \in Process \ {p}
    BY <1>1, <1>2
  <2> QED
    BY <2>1 DEF IsAncestor
<1>4. ASSUME NEW a, NEW b \in Process \ {p}, IsAncestor(a, b)'
      PROVE  IsAncestor(a, b)
  <2> SUFFICES ASSUME NEW S \in SUBSET Process,
                      b \in S, \A r \in S : creator[r] # None => creator[r] \in S
               PROVE  a \in S
    BY DEF IsAncestor
  <2> DEFINE T == S \ {p}
  <2>1. \A r \in T : creator'[r] = creator[r] /\ creator[r] # p
    BY <1>1
  <2>2. T \in SUBSET Process /\ b \in T /\ \A r \in T : creator'[r] # None => creator'[r] \in T
    BY <2>1
  <2> HIDE DEF T
  <2>3. a \in T
    BY <1>4, <2>2 DEF IsAncestor
  <2> QED
    BY <2>3 DEF T
<1>5. ASSUME NEW a \in Process, NEW b \in Process, IsAncestor(a, b)', IsAncestor(b, a)'
      PROVE  a = b
  <2>1. CASE a = p \/ b = p
    BY <1>3, <1>5, <2>1
  <2>2. CASE a # p /\ b # p
    BY <1>4, <1>5, <2>2 DEF DescentConsistent
  <2> QED
    BY <2>1, <2>2
<1> QED
  BY <1>2, <1>5 DEF DescentConsistent

\* A step of the system keeps descent and visits consistent.
LEMMA SystemKeepsVisits == Consistent /\ VisitsConsistent /\ System => VisitsConsistent'
<1> SUFFICES ASSUME Consistent, VisitsConsistent, System PROVE VisitsConsistent'
  OBVIOUS
<1>1. DescentConsistent'
  <2>1. CASE \E p, q \in Process, x \in Pid, w \in {"none", "hidden", "visible"} : StartProcess(p, q, x, w)
    BY <2>1, StartKeepsDescent DEF VisitsConsistent
  <2>2. CASE (\E p \in Process : EndProcess(p))
             \/ (\E p \in Process, w \in {"none", "hidden", "visible"} : ChangeWindow(p, w))
    <3>1. UNCHANGED creator
      BY <2>2 DEF EndProcess, ChangeWindow
    <3> QED
      BY <3>1 DEF VisitsConsistent, DescentConsistent, IsAncestor
  <2> QED
    BY <2>1, <2>2 DEF System
<1>2. ASSUME ~Reused' PROVE VisitsHold'
  <2>1. VisitsHold
    BY <1>2, StartedKeep DEF VisitsConsistent
  <2>2. /\ UNCHANGED <<place, cur, stack, next, long>>
        /\ \A k \in DOMAIN long : pid'[long[k]] = pid[long[k]]
    BY StartedKeep DEF walkVars, Consistent, WalkConsistent
  <2> QED
    BY <2>1, <2>2 DEF VisitsHold
<1> QED
  BY <1>1, <1>2 DEF VisitsConsistent

\* The walk goes from a process to its creator, which is not on the stack yet:
\* the two would descend from each other.
LEMMA ParentIsNew ==
  ASSUME Consistent, VisitsConsistent, GoToParent, ~Reused, cur' # 0, NEW i \in DOMAIN stack
  PROVE  stack[i].pid # cur'
<1> SUFFICES ASSUME stack[i].pid = cur' PROVE FALSE
  OBVIOUS
<1>1. PICK r \in At(cur) : creator[r] \in Started /\ cur' = pid[creator[r]]
  BY DEF GoToParent, ParentOf, ParentIds, Openable, At, Started, Consistent, TableConsistent
<1>2. /\ r \in Process /\ r \in Started /\ pid[r] = cur /\ creator[r] \in Process
      /\ creator[r] # None
  BY <1>1 DEF At, Started
<1>3. stack \in Seq(Entry) /\ stack # << >> /\ cur = stack[Len(stack)].pid
  BY DEF Consistent, TypeOK, WalkConsistent, GoToParent
<1>4. IsAncestor(r, creator[r])
  <2>1. CASE i = Len(stack)
    BY <1>1, <1>2, <1>3, <2>1, AncestorBase DEF Reused
  <2>2. CASE i < Len(stack)
    BY <1>1, <1>2, <1>3, <2>2 DEF Consistent, ChainConsistent, ChainHolds
  <2> QED
    BY <1>3, <2>1, <2>2
<1>5. IsAncestor(creator[r], r)
  BY <1>2, AncestorBase
<1> QED
  BY <1>2, <1>4, <1>5 DEF VisitsConsistent, DescentConsistent

\* A step of the listener keeps descent and visits consistent.
LEMMA WalkKeepsVisits ==
  ASSUME Consistent, VisitsConsistent, Walk \/ \E p \in Process : Identify(p)
  PROVE  VisitsConsistent'
<1>1. UNCHANGED tableVars
  BY DEF Walk, Identify, BeginWalk, FindWindow, GoToParent, ChooseMain, DescribeMain, DescribeNext,
         FinishDescription
<1>2. UNCHANGED <<creator, pid>> /\ Reused' = Reused
  BY <1>1, TableKeeps DEF tableVars
<1>3. DescentConsistent'
  BY <1>2 DEF VisitsConsistent, DescentConsistent, IsAncestor
<1> SUFFICES ASSUME ~Reused PROVE VisitsHold'
  BY <1>2, <1>3 DEF VisitsConsistent
<1>4. VisitsHold /\ stack \in Seq(Entry) /\ long \in Seq(Process)
  BY DEF VisitsConsistent, Consistent, TypeOK
<1>5. CASE (\E p \in Process : Identify(p)) \/ BeginWalk
  <2>1. UNCHANGED <<stack, long, next>> /\ stack = << >>
    BY <1>5 DEF Identify, BeginWalk, Consistent, WalkConsistent
  <2> QED
    BY <1>2, <1>4, <2>1 DEF VisitsHold
<1>6. CASE FindWindow
  <2>1. PICK w : stack' = Append(stack, [pid |-> cur, window |-> w])
    BY <1>6 DEF FindWindow
  <2>2. /\ DOMAIN stack = 1..Len(stack) /\ DOMAIN stack' = 1..(Len(stack) + 1) /\ Len(stack) \in Nat
        /\ \A i \in 1..Len(stack) : stack'[i] = stack[i]
        /\ stack'[Len(stack) + 1].pid = cur
    BY <1>4, <2>1
  <2>3. place = "window" /\ place' = "parent" /\ UNCHANGED <<long, next>>
    BY <1>6 DEF FindWindow
  <2>4. \A i, j \in DOMAIN stack' : i < j => stack'[i].pid # stack'[j].pid
    BY <1>4, <2>2, <2>3 DEF VisitsHold
  <2>5. \A k \in DOMAIN long : \E j \in DOMAIN stack' : j < next /\ pid[long[k]] = stack'[j].pid
    <3> SUFFICES ASSUME NEW k \in DOMAIN long
                 PROVE  \E j \in DOMAIN stack' : j < next /\ pid[long[k]] = stack'[j].pid
      OBVIOUS
    <3>1. PICK j \in DOMAIN stack : j < next /\ pid[long[k]] = stack[j].pid
      BY <1>4 DEF VisitsHold
    <3>2. j \in DOMAIN stack' /\ stack'[j] = stack[j]
      BY <2>2
    <3> QED
      BY <3>1, <3>2
  <2>6. \A k, l \in DOMAIN long : k < l => pid[long[k]] # pid[long[l]]
    BY <1>4 DEF VisitsHold
  <2> QED
    BY <1>2, <2>3, <2>4, <2>5, <2>6 DEF VisitsHold
<1>7. CASE GoToParent
  <2>1. UNCHANGED <<stack, long, next>> /\ (place' = "window" => cur' # 0)
    BY <1>7 DEF GoToParent
  <2>2. place' = "window" => \A i \in DOMAIN stack : stack[i].pid # cur'
    BY <1>7, <2>1, ParentIsNew
  <2> QED
    BY <1>2, <1>4, <2>1, <2>2 DEF VisitsHold
<1>8. CASE ChooseMain \/ DescribeMain \/ FinishDescription
  <2>1. UNCHANGED <<stack, long, next, cur>> /\ place' # "window"
    BY <1>8 DEF ChooseMain, DescribeMain, FinishDescription
  <2> QED
    BY <1>2, <1>4, <2>1 DEF VisitsHold
<1>9. CASE DescribeNext
  <2>1. /\ UNCHANGED <<stack, place>> /\ place = "long" /\ next' = next + 1
        /\ next \in DOMAIN stack /\ next \in Nat /\ DOMAIN stack = 1..Len(stack)
    BY <1>4, <1>9 DEF DescribeNext
  <2>2. CASE long' = long
    BY <1>2, <1>4, <2>1, <2>2 DEF VisitsHold
  <2>3. ASSUME NEW p \in Openable(stack[next].pid), long' = Append(long, p)
        PROVE  VisitsHold'
    <3>1. pid[p] = stack[next].pid /\ p \in Process
      BY DEF Openable, At
    <3>2. /\ DOMAIN long = 1..Len(long) /\ DOMAIN long' = 1..(Len(long) + 1) /\ Len(long) \in Nat
          /\ long'[Len(long) + 1] = p
          /\ \A k \in 1..Len(long) : long'[k] = long[k]
      BY <1>4, <2>3, <3>1
    <3>3. \A k \in DOMAIN long : \E j \in DOMAIN stack : j < next /\ pid[long[k]] = stack[j].pid
      BY <1>4 DEF VisitsHold
    <3>4. \A k \in DOMAIN long : pid[long[k]] # pid[p]
      BY <1>4, <2>1, <3>1, <3>3 DEF VisitsHold
    <3>5. \A k \in DOMAIN long' : \E j \in DOMAIN stack : j < next + 1 /\ pid[long'[k]] = stack[j].pid
      BY <2>1, <3>1, <3>2, <3>3
    <3>6. \A k, l \in DOMAIN long' : k < l => pid[long'[k]] # pid[long'[l]]
      BY <1>4, <3>2, <3>4 DEF VisitsHold
    <3> QED
      BY <1>2, <1>4, <2>1, <3>5, <3>6 DEF VisitsHold
  <2> QED
    BY <1>9, <2>2, <2>3 DEF DescribeNext
<1> QED
  BY <1>5, <1>6, <1>7, <1>8, <1>9 DEF Walk

\* The invariant of the visits.
THEOREM VisitsAreConsistent == Spec => []VisitsConsistent
<1>1. Init => VisitsConsistent
  <2> SUFFICES ASSUME Init PROVE VisitsConsistent
    OBVIOUS
  <2>1. \A p \in Process : creator[p] = None
    BY DEF Init
  <2>2. \A p, q \in Process : IsAncestor(p, q) => p = q
    <3> SUFFICES ASSUME NEW p \in Process, NEW q \in Process, IsAncestor(p, q) PROVE p = q
      OBVIOUS
    <3>1. {q} \in SUBSET Process /\ q \in {q} /\ \A x \in {q} : creator[x] # None => creator[x] \in {q}
      BY <2>1
    <3>2. p \in {q}
      BY <3>1 DEF IsAncestor
    <3> QED
      BY <3>2
  <2>3. VisitsHold
    BY DEF Init, VisitsHold
  <2> QED
    BY <2>1, <2>2, <2>3 DEF VisitsConsistent, DescentConsistent
<1>2. Consistent /\ VisitsConsistent /\ [Next]_vars => VisitsConsistent'
  <2> SUFFICES ASSUME Consistent, VisitsConsistent, [Next]_vars PROVE VisitsConsistent'
    OBVIOUS
  <2>1. CASE UNCHANGED vars
    BY <2>1 DEF vars, VisitsConsistent, DescentConsistent, VisitsHold, IsAncestor, Reused, Started
  <2> QED
    BY <2>1, SystemKeepsVisits, WalkKeepsVisits DEF Next, Finished
<1> QED
  BY <1>1, <1>2, RequesterIsConsistent, PTL DEF Spec

\* No process is visited or described twice unless an id is used twice.
THEOREM NobodyIsVisitedTwice == Spec => []NobodyTwice
<1>1. VisitsConsistent => NobodyTwice
  BY DEF VisitsConsistent, VisitsHold, NobodyTwice
<1> QED
  BY <1>1, VisitsAreConsistent, PTL

\* The walk passes no more processes than there are ids, whatever the bound of
\* the model: it is their number that ends it.
THEOREM WalkIsBounded ==
  IsFiniteSet(Pid) => (Spec => [](~Reused => Len(stack) <= Cardinality(Pid)))
<1> SUFFICES ASSUME IsFiniteSet(Pid)
             PROVE  Spec => [](~Reused => Len(stack) <= Cardinality(Pid))
  OBVIOUS
<1>1. Consistent /\ VisitsConsistent => (~Reused => Len(stack) <= Cardinality(Pid))
  <2> SUFFICES ASSUME Consistent, VisitsHold PROVE Len(stack) <= Cardinality(Pid)
    BY DEF VisitsConsistent
  <2> DEFINE n == Len(stack)
             f == [i \in 1..n |-> stack[i].pid]
  <2>1. n \in Nat /\ DOMAIN stack = 1..n /\ \A i \in 1..n : stack[i] \in Entry
    BY DEF Consistent, TypeOK
  <2>2. f \in Injection(1..n, Pid)
    <3>1. \A i \in 1..n : stack[i].pid \in Pid
      BY <2>1 DEF Entry
    <3>2. \A i, j \in 1..n : f[i] = f[j] => i = j
      BY <2>1 DEF VisitsHold
    <3> QED
      BY <3>1, <3>2 DEF Injection, IsInjective
  <2> HIDE DEF n
  <2>3. Cardinality(1..n) = n
    <3>1. Cardinality(1..n) = IF 1 > n THEN 0 ELSE n - 1 + 1
      BY <2>1, FS_Interval
    <3> QED
      BY <2>1, <3>1
  <2>4. Cardinality(1..n) <= Cardinality(Pid)
    BY <2>2, FS_Injection
  <2> QED
    BY <2>3, <2>4 DEF n
<1> QED
  BY <1>1, RequesterIsConsistent, VisitsAreConsistent, PTL

=============================================================================
