------------------------------- MODULE Requester -------------------------------
(***************************************************************************)
(* collect_requester_info: which application is shown to the user.         *)
(*                                                                         *)
(* A listener learns the process id of the client that asks, waits for the *)
(* agent mutex, and then, holding it, walks from that process to its       *)
(* parents, noting each one's window; it picks the process to show, and    *)
(* describes it and all the others.  Meanwhile processes start and end,    *)
(* and their ids are used again: the walk knows only ids, and a process    *)
(* remembers the id of its creator also when the creator is gone.          *)
(***************************************************************************)
EXTENDS Naturals, Sequences

CONSTANTS
  Process,     \* processes of the system, each of which starts at most once
  Pid,         \* process ids
  Root,        \* the process that runs from the beginning
  Protected,   \* processes OpenProcess refuses
  MaxChanges,  \* bound: times a window is shown or hidden
  MaxDepth,    \* bound: length of the walk
  None         \* no value

ASSUME RequesterAssumption ==
  /\ Pid \subseteq Nat \ {0}
  /\ Root \in Process
  /\ Protected \subseteq Process
  /\ MaxChanges \in Nat /\ MaxDepth \in Nat
  /\ None \notin Process

VARIABLES
  status,   \* each process: not started, running, ended
  pid,      \* its id, 0 until it starts
  creator,  \* the process that started it
  win,      \* its primary window
  changes,  \* how often a window was shown or hidden
  place,    \* where the listener is
  asker,    \* the process that asks
  cur,      \* `pid` of collect_requester_info
  stack,    \* process_stack: ids, with the process whose window was found
  main,     \* main_process, as an index of the stack
  next,     \* the entry of the stack that is described next
  short,    \* the process of description_short
  long,     \* the processes of description_long
  moved     \* history: processes that ended or whose window changed since the request

tableVars == <<status, pid, creator, win, changes, moved>>
walkVars  == <<place, asker, cur, stack, main, next, short, long>>
vars == <<status, pid, creator, win, changes, moved,
          place, asker, cur, stack, main, next, short, long>>

Entry == [pid : Pid, window : Process \cup {None}]

TypeOK ==
  /\ status \in [Process -> {"new", "running", "ended"}]
  /\ pid \in [Process -> Pid \cup {0}]
  /\ creator \in [Process -> Process \cup {None}]
  /\ win \in [Process -> {"none", "hidden", "visible"}]
  /\ changes \in 0..MaxChanges
  /\ place \in {"idle", "waiting", "window", "parent", "choose", "short", "long", "done"}
  /\ asker \in Process \cup {None}
  /\ cur \in Pid \cup {0}
  /\ stack \in Seq(Entry)
  /\ main \in Nat
  /\ next \in Nat
  /\ short \in Process \cup {None}
  /\ long \in Seq(Process)
  /\ moved \in SUBSET Process

Init ==
  /\ status = [p \in Process |-> IF p = Root THEN "running" ELSE "new"]
  /\ \E x \in Pid : pid = [p \in Process |-> IF p = Root THEN x ELSE 0]
  /\ creator = [p \in Process |-> None]
  /\ win = [p \in Process |-> "none"]
  /\ changes = 0
  /\ place = "idle"
  /\ asker = None
  /\ cur = 0
  /\ stack = << >>
  /\ main = 0
  /\ next = 1
  /\ short = None
  /\ long = << >>
  /\ moved = {}

-----------------------------------------------------------------------------
(***************************************************************************)
(* The system.                                                             *)
(***************************************************************************)

Started == {p \in Process : status[p] # "new"}

\* The process that has the id x now, if there is one.
At(x) == {p \in Process : status[p] = "running" /\ pid[p] = x}

\* OpenProcess succeeds for it.  GetModuleFileNameExW and NtQueryInformationProcess,
\* which may fail for a process that can be opened, and the separate OpenProcess
\* calls of one description are one outcome here.
Openable(x) == At(x) \ Protected

\* Only what happens during a request is remembered.
Moved(p) == moved' = IF place = "idle" THEN moved ELSE moved \cup {p}

\* q starts p; the id may have been that of a process that has ended.
StartProcess(p, q, x, w) ==
  /\ status[p] = "new"
  /\ status[q] = "running"
  /\ At(x) = {}
  /\ status' = [status EXCEPT ![p] = "running"]
  /\ pid' = [pid EXCEPT ![p] = x]
  /\ creator' = [creator EXCEPT ![p] = q]
  /\ win' = [win EXCEPT ![p] = w]
  /\ UNCHANGED <<changes, moved, walkVars>>

\* A process ends, and its windows are gone.
EndProcess(p) ==
  /\ status[p] = "running"
  /\ status' = [status EXCEPT ![p] = "ended"]
  /\ win' = [win EXCEPT ![p] = "none"]
  /\ Moved(p)
  /\ UNCHANGED <<pid, creator, changes, walkVars>>

ChangeWindow(p, w) ==
  /\ status[p] = "running"
  /\ w # win[p]
  /\ changes < MaxChanges
  /\ win' = [win EXCEPT ![p] = w]
  /\ changes' = changes + 1
  /\ Moved(p)
  /\ UNCHANGED <<status, pid, creator, walkVars>>

System ==
  \/ \E p, q \in Process, x \in Pid, w \in {"none", "hidden", "visible"} : StartProcess(p, q, x, w)
  \/ \E p \in Process : EndProcess(p)
  \/ \E p \in Process, w \in {"none", "hidden", "visible"} : ChangeWindow(p, w)

-----------------------------------------------------------------------------
(***************************************************************************)
(* The listener.                                                           *)
(***************************************************************************)

\* A client asks, and its process id is looked up.
Identify(p) ==
  /\ place = "idle"
  /\ status[p] = "running"
  /\ place' = "waiting"
  /\ asker' = p
  /\ cur' = pid[p]
  /\ UNCHANGED <<stack, main, next, short, long, tableVars>>

\* find_primary_window: a visible window of the process, or any.
FindWindow ==
  /\ place = "window"
  /\ Len(stack) < MaxDepth
  /\ \E w \in Process \cup {None} :
       /\ IF \E p \in At(cur) : win[p] # "none"
          THEN w \in At(cur)
          ELSE w = None
       /\ stack' = Append(stack, [pid |-> cur, window |-> w])
  /\ place' = "parent"
  /\ UNCHANGED <<asker, cur, main, next, short, long, tableVars>>

\* The id of the creator, as the process has it; none for the first process.
ParentIds(x) == {pid[creator[p]] : p \in {q \in Openable(x) : creator[q] # None}}

\* A variant that stays where it is when the process cannot be opened.
MutParentOf(x) ==
  IF ParentIds(x) # {} THEN CHOOSE y \in ParentIds(x) : TRUE
  ELSE IF Openable(x) = {} THEN x ELSE 0

\* get_parent_pid: 0 if the process cannot be opened.
ParentOf(x) == IF ParentIds(x) = {} THEN 0 ELSE CHOOSE y \in ParentIds(x) : TRUE

\* A variant that begins with the parent of the client.
MutBeginWalk ==
  /\ place = "waiting"
  /\ place' = "window"
  /\ cur' = IF ParentOf(cur) = 0 THEN cur ELSE ParentOf(cur)
  /\ UNCHANGED <<asker, stack, main, next, short, long, tableVars>>

\* The mutex is there, and the walk begins.
BeginWalk ==
  /\ place = "waiting"
  /\ place' = "window"
  /\ UNCHANGED <<asker, cur, stack, main, next, short, long, tableVars>>

\* The walk ends only at 0.
GoToParent ==
  /\ place = "parent"
  /\ cur' = ParentOf(cur)
  /\ place' = IF cur' = 0 THEN "choose" ELSE "window"
  /\ UNCHANGED <<asker, stack, main, next, short, long, tableVars>>

HasWindow(i) == stack[i].window # None

\* IsWindowVisible, which is asked again: FALSE for a window that is gone.
HasVisible(i) == HasWindow(i) /\ win[stack[i].window] = "visible"

\* A variant that takes the first window, visible or not.
MutIsMain(i) ==
  \/ HasWindow(i) /\ \A j \in 1..(i - 1) : ~HasWindow(j)
  \/ i = 1 /\ \A j \in DOMAIN stack : ~HasWindow(j)

\* The first process with a visible window, or else the first with a window,
\* or else the one that asks.
IsMain(i) ==
  \/ HasVisible(i) /\ \A j \in 1..(i - 1) : ~HasVisible(j)
  \/ /\ \A j \in DOMAIN stack : ~HasVisible(j)
     /\ \/ HasWindow(i) /\ \A j \in 1..(i - 1) : ~HasWindow(j)
        \/ i = 1 /\ \A j \in DOMAIN stack : ~HasWindow(j)

ChooseMain ==
  /\ place = "choose"
  /\ \E i \in DOMAIN stack : IsMain(i) /\ main' = i
  /\ place' = "short"
  /\ UNCHANGED <<asker, cur, stack, next, short, long, tableVars>>

\* describe of the main process: if it cannot be opened the whole request is
\* shown as that of an unknown application.
DescribeMain ==
  /\ place = "short"
  /\ IF Openable(stack[main].pid) = {}
     THEN short' = None /\ place' = "done"
     ELSE /\ \E p \in Openable(stack[main].pid) : short' = p
          /\ place' = "long"
  /\ UNCHANGED <<asker, cur, stack, main, next, long, tableVars>>

\* A variant that puts each description in front of the others.
MutDescribeNext ==
  /\ place = "long"
  /\ next \in DOMAIN stack
  /\ IF Openable(stack[next].pid) = {}
     THEN long' = long
     ELSE \E p \in Openable(stack[next].pid) : long' = <<p>> \o long
  /\ next' = next + 1
  /\ UNCHANGED <<place, asker, cur, stack, main, short, tableVars>>

\* describe of an entry of the stack; one that cannot be opened is left out.
DescribeNext ==
  /\ place = "long"
  /\ next \in DOMAIN stack
  /\ IF Openable(stack[next].pid) = {}
     THEN long' = long
     ELSE \E p \in Openable(stack[next].pid) : long' = Append(long, p)
  /\ next' = next + 1
  /\ UNCHANGED <<place, asker, cur, stack, main, short, tableVars>>

FinishDescription ==
  /\ place = "long"
  /\ next \notin DOMAIN stack
  /\ place' = "done"
  /\ UNCHANGED <<asker, cur, stack, main, next, short, long, tableVars>>

Walk ==
  \/ BeginWalk
  \/ FindWindow
  \/ GoToParent
  \/ ChooseMain
  \/ DescribeMain
  \/ DescribeNext
  \/ FinishDescription

\* The request is through, nobody is left to ask, or the bound is reached.
Finished ==
  /\ \/ place = "done"
     \/ place = "idle" /\ \A p \in Process : status[p] # "running"
     \/ place = "window" /\ Len(stack) = MaxDepth
  /\ UNCHANGED vars

Next == System \/ (\E p \in Process : Identify(p)) \/ Walk \/ Finished

Spec == Init /\ [][Next]_vars

\* The listener's thread runs, and gets the mutex in the end (PipeListener).
FairSpec == Spec /\ WF_vars(Walk)

-----------------------------------------------------------------------------
(***************************************************************************)
(* Properties.                                                             *)
(***************************************************************************)

\* Every set that has p, and with a process its creator, has a: a is p or one
\* of those p descends from.
IsAncestor(a, p) ==
  \A S \in SUBSET Process :
    (p \in S /\ \A x \in S : creator[x] # None => creator[x] \in S) => a \in S

\* Two processes, one after the other, have had the same id.
Reused == \E p, q \in Started : p # q /\ pid[p] = pid[q]

\* A chain of running processes in which each one's parent id leads to the
\* next never comes to an end.
Cyclic ==
  \E S \in SUBSET Process :
    /\ S # {}
    /\ \A p \in S : /\ status[p] = "running"
                    /\ creator[p] # None
                    /\ \E q \in S : pid[q] = pid[creator[p]]

\* What the user is shown is the process that asked and those it descends from,
\* from the inside out ("Displays which application wants to use key",
\* README.md), whatever started and ended meanwhile, as long as no id was used
\* twice.
ShowsTheAsker ==
  ~Reused =>
    /\ short # None => IsAncestor(short, asker)
    /\ \A i \in DOMAIN long : IsAncestor(long[i], asker)
    /\ \A i, j \in DOMAIN long : i < j => IsAncestor(long[j], long[i])

\* The window of an entry has been on screen since it was found.
SteadilyVisible(i) == HasVisible(i) /\ stack[i].window \notin moved

\* No process is shown in place of a nearer one whose window was on screen all
\* the time; and one without a window on screen is shown, if at all, only when
\* its window went away or none of the others has one on screen.
ShowsTheVisibleOne ==
  place \in {"short", "long"} =>
    \A i \in DOMAIN stack : SteadilyVisible(i) =>
      \/ main = i
      \/ main < i /\ HasWindow(main) /\ (HasVisible(main) \/ stack[main].window \in moved)

\* A client that is still there, and can be opened, comes first in the long
\* description, also when ids are used again: pipe.rs looks the id up before it
\* waits for the mutex, but a running process keeps its id.
AskerComesFirst ==
  (place = "done" /\ short # None /\ status[asker] = "running" /\ asker \notin Protected) =>
    long # << >> /\ long[1] = asker

\* No process is visited or described twice, so that the walk, which knows no
\* bound and stops only at the id 0, cannot be longer than there are processes,
\* unless an id is used twice while it is under way or was before.
NobodyTwice ==
  ~Reused =>
    /\ \A i, j \in DOMAIN stack : i < j => stack[i].pid # stack[j].pid
    /\ \A k, l \in DOMAIN long : k < l => long[k] # long[l]

\* The walk, which holds the agent mutex, comes to an end if the parents never
\* form a cycle.
WalkEnds == ([]~Cyclic) => (place = "waiting" ~> place = "done")

-----------------------------------------------------------------------------
(***************************************************************************)
(* The inductive invariant behind the safety properties.                   *)
(***************************************************************************)

\* A process has an id from its start on, and no two that run have the same.
TableConsistent ==
  /\ \A p \in Process : status[p] = "new" => creator[p] = None
  /\ \A p \in Started : pid[p] \in Pid /\ creator[p] \in Started \cup {None}
  /\ \A p, q \in Process :
       status[p] = "running" /\ status[q] = "running" /\ pid[p] = pid[q] => p = q

\* Where the walk is, and what it has found so far.
WalkConsistent ==
  /\ place # "idle" => asker \in Started
  /\ place \in {"idle", "waiting"} => stack = << >>
  /\ place \in {"waiting", "window"} /\ stack = << >> => cur = pid[asker]
  /\ stack # << >> => stack[1].pid = pid[asker]
  /\ place = "window" => cur # 0
  /\ place = "parent" => stack # << >> /\ cur = stack[Len(stack)].pid
  /\ place \in {"choose", "short", "long"} => stack # << >>
  /\ place \in {"short", "long"} => main \in DOMAIN stack
  /\ place \notin {"long", "done"} => short = None /\ next = 1
  /\ next >= 1
  /\ next = 1 => long = << >>
  /\ short \in Started \cup {None}
  /\ \A i \in DOMAIN long : long[i] \in Started
  /\ \A i \in DOMAIN stack : stack[i].window \in Started \cup {None}

\* A client that still runs has been described once the first entry has.
AskerConsistent ==
  (place \in {"long", "done"} /\ (next > 1 \/ (place = "done" /\ short # None))
     /\ status[asker] = "running" /\ asker \notin Protected) =>
    long # << >> /\ long[1] = asker

\* The ids on the stack are those of the client and of the processes it
\* descends from, from the inside out, and what has been described of them is
\* inside of what has not.
ChainHolds ==
  /\ \A i \in DOMAIN stack : \E p \in Started : pid[p] = stack[i].pid /\ IsAncestor(p, asker)
  /\ \A i, j \in DOMAIN stack : i < j =>
       \A p, q \in Started : pid[p] = stack[i].pid /\ pid[q] = stack[j].pid => IsAncestor(q, p)
  /\ place \in {"waiting", "window"} =>
       /\ \E p \in Started : pid[p] = cur /\ IsAncestor(p, asker)
       /\ \A i \in DOMAIN stack : \A p, q \in Started :
            pid[p] = stack[i].pid /\ pid[q] = cur => IsAncestor(q, p)
  /\ place = "long" =>
       \A k \in DOMAIN long, j \in DOMAIN stack : j >= next =>
         \A q \in Started : pid[q] = stack[j].pid => IsAncestor(q, long[k])

ChainConsistent == ~Reused => ChainHolds

\* Process table, walk and descriptions agree with each other.
Consistent ==
  /\ TypeOK
  /\ TableConsistent
  /\ WalkConsistent
  /\ AskerConsistent
  /\ ChainConsistent
  /\ ShowsTheAsker
  /\ ShowsTheVisibleOne

\* No process started itself, and no two descend from each other.
DescentConsistent ==
  /\ \A p \in Process : creator[p] # p
  /\ \A p, q \in Process : IsAncestor(p, q) /\ IsAncestor(q, p) => p = q

\* The walk goes on to an id it has not seen, and what has been described is
\* each time another entry of those before the next.
VisitsHold ==
  /\ \A i, j \in DOMAIN stack : i < j => stack[i].pid # stack[j].pid
  /\ place = "window" => \A i \in DOMAIN stack : stack[i].pid # cur
  /\ \A k \in DOMAIN long : \E j \in DOMAIN stack : j < next /\ pid[long[k]] = stack[j].pid
  /\ \A k, l \in DOMAIN long : k < l => pid[long[k]] # pid[long[l]]

\* Descent and visits agree with each other.
VisitsConsistent ==
  /\ DescentConsistent
  /\ ~Reused => VisitsHold

=============================================================================
