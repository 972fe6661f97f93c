---------------------------- MODULE PsProcessProofs ----------------------------
(***************************************************************************)
(* The life of processes for any number of processes and threads, any size *)
(* of PidTable and any number of system PTEs: the counters are exact, no   *)
(* process is freed under its users, what it took is accounted for, and of *)
(* the assertions of the exit and close paths only that on the bits of the *)
(* user stack can fail, after a fork.                                      *)
(***************************************************************************)
EXTENDS PsProcess, FiniteSetTheorems, TLAPS

-----------------------------------------------------------------------------
(* The inductive invariant: who runs.                                       *)

\* Between ObCreateObject and the counters of its first thread, a process is its
\* creator's; the places of an exit.
Building == {"ObInsertHandle", "PsIncProcessRundownProtect", "MmCloneUserPtes",
             "PspInsertProcess", "PspCreateThread", "CountThread"}
Exits == {"ObReferenceObject", "EmptyThreadList", "PspRemoveProcess", "ObDereferenceObject",
          "PsExitThread", "gone"}

\* The types, with no bound from below for count or from above for pages.
Types ==
    /\ state \in [Processes -> {"none", "CREATION", "ACTIVE", "TERMINATED"}]
    /\ refs \in [Processes -> Nat]
    /\ rundown \in [Processes -> Nat]
    /\ active \in [Processes -> Nat]
    /\ flags \in [Processes -> SUBSET Flags]
    /\ parent \in [Processes -> Processes \cup {None}]
    /\ pid \in [Processes -> Slots]
    /\ space \subseteq Processes
    /\ list \in [Processes -> SUBSET Threads]
    /\ count \in [Processes -> Int]
    /\ PidTable \in [Slots -> Processes \cup {None}]
    /\ activeList \subseteq Processes
    /\ pages \in Nat
    /\ tstate \in [Threads -> {"none", "READY", "RUNNING", "WAITING", "TERMINATED"}]
    /\ owner \in [Threads -> Processes \cup {None}]
    /\ pc \in [Threads -> Places]
    /\ cameBy \in [Threads -> {"start", "Schedule", "wait"}]
    /\ child \in [Threads -> Processes \cup {None}]
    /\ cpu \in Threads
    /\ ready \in Seq(Threads)
    /\ lock \in {"none", "ProcessLock", "ExitThreadLock"}
    /\ exitList \in Seq(Threads)
    /\ drop \in Processes \cup {None}
    /\ unwind \in Seq(Processes)
    /\ dead \subseteq Processes \cup {None}
    /\ stale \subseteq {"pid", "lock", "rundown", "exit", "close"}
    /\ leaked \in Nat
    /\ userStack \in BOOLEAN /\ closed \in BOOLEAN /\ debug \in BOOLEAN

\* A thread's state, place and process agree.
Running(t) ==
    /\ tstate[t] = "none" <=> owner[t] = None
    /\ tstate[t] = "none" => pc[t] = "run"
    /\ tstate[t] = "TERMINATED" <=> pc[t] = "gone"
    /\ tstate[t] = "RUNNING" <=> cpu = t
    /\ pc[t] = "CountThread" => cpu = t /\ lock = "ProcessLock"
    /\ pc[t] \in Building => child[t] \in Processes

\* The lists hold threads in the state they are for, once each.
ListOf(s, which) ==
    /\ \A i \in 1 .. Len(s) : tstate[s[i]] = which
    /\ \A i, j \in 1 .. Len(s) : s[i] = s[j] => i = j

ControlInv ==
    /\ Types
    /\ \A t \in Threads : Running(t)
    /\ ListOf(ready, "READY") /\ ListOf(exitList, "TERMINATED")
    /\ lock # "ExitThreadLock" => drop = None /\ unwind = <<>> /\ dead = {}
    /\ lock = "ProcessLock" => pc[cpu] = "CountThread"

-----------------------------------------------------------------------------
(* The inductive invariant: the life of processes.                          *)

Unwound(p) == \E i \in 1 .. Len(unwind) : unwind[i] = p

Builds(t, c) == pc[t] \in Building /\ child[t] = c

\* A process while its creator builds it: nobody else knows it.
BuildFits(t, c) ==
    Builds(t, c) =>
      /\ Alive(c) /\ c # System /\ ~Unwound(c) /\ drop # c
      /\ \A u \in Threads \ {t} : ~Builds(u, c)
      /\ refs[c] = 1 /\ rundown[c] = 0 /\ active[c] = 0
      /\ \A q \in Processes : Alive(q) => parent[q] # c
      /\ pc[t] # "CountThread" => list[c] = {} /\ count[c] = 0 /\ \A u \in Threads : owner[u] # c
      /\ pc[t] \in {"MmCloneUserPtes", "PspInsertProcess", "PspCreateThread", "CountThread"} => c \in space
      /\ pc[t] \in {"ObInsertHandle", "PsIncProcessRundownProtect"} => parent[c] = None
      /\ pc[t] \in {"PspCreateThread", "CountThread"} => flags[c] = Flags /\ state[c] = "ACTIVE"

\* A user process with its thread, through the steps of the exit.
OwnerFits(t, p) ==
    owner[t] = p /\ p # System =>
      /\ Alive(p) /\ p \in space /\ ~Unwound(p)
      /\ \A u \in Threads \ {t} : owner[u] # p
      /\ "ALLOCATED" \in flags[p]
      /\ refs[p] = IF pc[t] \in {"EmptyThreadList", "PspRemoveProcess", "ObDereferenceObject"}
                   THEN 2 ELSE 1
      /\ IF pc[t] \in {"PspRemoveProcess", "ObDereferenceObject", "PsExitThread", "gone"}
         THEN list[p] = {} /\ count[p] = 0
         ELSE list[p] = {t} /\ count[p] = 1 /\ flags[p] = Flags
      /\ pc[t] \notin Exits => state[p] = "ACTIVE"

\* The system process is there for ever, with its two threads, which do not exit.
SystemFits ==
    /\ Alive(System) /\ System \in space /\ ~Unwound(System)
    /\ \A t \in Threads : owner[t] = System <=> t \in {Boot, Idle}
    /\ \A t \in Threads : pc[t] \in Exits => owner[t] # System

\* A process whose thread is closed, and which waits for its children.
WaitFits(p) ==
    Alive(p) /\ p # System /\ ~Unwound(p)
    /\ (\A t \in Threads : owner[t] # p /\ ~Builds(t, p)) =>
      refs[p] = 1 /\ "ALLOCATED" \in flags[p]

\* A process that is being freed.
UnwindFits ==
    /\ \A i, j \in 1 .. Len(unwind) : unwind[i] = unwind[j] => i = j
    /\ \A i \in 1 .. Len(unwind) :
          Alive(unwind[i]) /\ rundown[unwind[i]] = 0 /\ \A t \in Threads : owner[t] # unwind[i]

DropFits ==
    drop # None =>
      /\ Alive(drop) /\ ~Unwound(drop)
      /\ unwind # <<>> => drop = parent[unwind[Len(unwind)]]

Dropping(p) == IF drop = p /\ unwind = <<>> THEN 1 ELSE 0

\* The two counters of a process.
CountFits(p) ==
    Alive(p) =>
      /\ rundown[p] + Cardinality(Uncounted(p))
            = Cardinality(Counted(p)) + Cardinality(Children(p)) + Dropping(p)
      /\ active[p] + Cardinality(Uncounted(p)) = Cardinality(Counted(p))

ParentFits(p) == Alive(p) /\ parent[p] # None => Alive(parent[p]) \/ Unwound(p)

LifeInv ==
    /\ SystemFits /\ UnwindFits /\ DropFits
    /\ \A t \in Threads, p \in Processes : BuildFits(t, p) /\ OwnerFits(t, p)
    /\ \A p \in Processes : WaitFits(p) /\ CountFits(p) /\ ParentFits(p)
    /\ KnownStaleUses

-----------------------------------------------------------------------------
(* The inductive invariant: what processes took.                            *)

Stops == {"none", "no binary", "no pid", "no handle table", "no address space", "no bitmap",
          "no stack", "user stack"}
KnownStop == bug \in Stops

ResourceInv ==
    /\ KnownStop
    /\ \A p \in Processes : count[p] >= -1
    /\ PidsExact
    /\ \A t \in Threads : pc[t] = "ObInsertHandle" => \A i \in Slots : PidTable[i] # child[t]

PsInv == ControlInv /\ LifeInv /\ ResourceInv

\* The stacks that hold system PTEs, and the steps in which the new process has
\* no handle table, no address space and no bitmap page.
Stacks == {t \in Threads \ {Boot, Idle} : tstate[t] # "none"}
NoTable == {"ObInsertHandle"}
NoSpace == {"ObInsertHandle", "PsIncProcessRundownProtect"}
NoBitmap == {"ObInsertHandle", "PsIncProcessRundownProtect", "MmCloneUserPtes"}

PagesInv == space \ {System} = Beyond(NoSpace) /\ PagesAccounted

\* As long as a program or a fork of it has a thread, the bits of the user stack
\* are set, or a thread that shared them has been closed.
StackInv ==
    /\ bug = "user stack" => debug /\ closed
    /\ (\E t \in Threads : owner[t] \notin {None, System}) => userStack \/ closed

-----------------------------------------------------------------------------
(* The processor.                                                           *)

LEMMA ConstantsFit ==
    /\ System \in Processes /\ Boot \in Threads /\ Idle \in Threads /\ Boot # Idle
    /\ None \notin Processes /\ None \notin Threads
    /\ EX_MAX_HANDLE \in Nat \ {0} /\ NSystemPages \in Nat \ {0} /\ StackPages \in Nat \ {0}
    /\ IsFiniteSet(Processes) /\ IsFiniteSet(Threads) /\ 0 \in Slots
BY PsAssumption DEF Slots

\* The current thread is a thread of some process, has not exited and, unless
\* it holds ProcessLock, no process is half counted.
LEMMA CurrentThread ==
    ASSUME ControlInv, NEW t \in Threads, cpu = t
    PROVE  /\ tstate[t] = "RUNNING" /\ owner[t] \in Processes /\ pc[t] # "gone"
           /\ pc[t] \in Building => child[t] \in Processes
           /\ lock # "ProcessLock" => \A u \in Threads : pc[u] # "CountThread"
           /\ \A u \in Threads \ {t} : pc[u] # "CountThread" /\ tstate[u] # "RUNNING"
<1>1. Running(t) /\ owner \in [Threads -> Processes \cup {None}]
  BY DEF ControlInv, Types
<1>2. \A u \in Threads : Running(u)
  BY DEF ControlInv
<1>. QED
  BY <1>1, <1>2 DEF Running

\* The current thread goes to another place.
LEMMA MoveControl ==
    ASSUME ControlInv, NEW t \in Threads, cpu = t, Types',
           UNCHANGED <<tstate, owner, cpu, ready, exitList>>,
           NEW place \in Places \ {"gone"}, pc' = [pc EXCEPT ![t] = place],
           place \in Building => child'[t] \in Processes,
           \A u \in Threads \ {t} : child'[u] = child[u],
           lock' = "ProcessLock" <=> place = "CountThread",
           lock' # "ExitThreadLock" => drop' = None /\ unwind' = <<>> /\ dead' = {}
    PROVE  ControlInv'
<1>1. pc'[t] = place /\ \A u \in Threads \ {t} : pc'[u] = pc[u]
  BY DEF ControlInv, Types
<1>2. ASSUME NEW u \in Threads PROVE Running(u)'
  <2>1. Running(u)
    BY DEF ControlInv
  <2>2. CASE u = t
    BY <1>1, <2>1, <2>2, CurrentThread DEF Running
  <2>3. CASE u # t
    BY <1>1, <2>1, <2>3, CurrentThread DEF Running
  <2>. QED
    BY <2>2, <2>3
<1>3. ListOf(ready, "READY")' /\ ListOf(exitList, "TERMINATED")'
  BY DEF ControlInv, ListOf
<1>. QED
  BY <1>1, <1>2, <1>3 DEF ControlInv

LEMMA ListTail ==
    ASSUME NEW s \in Seq(Threads), s # <<>>
    PROVE  /\ Head(s) \in Threads /\ Head(s) = s[1] /\ Tail(s) \in Seq(Threads)
           /\ Len(s) \in Nat /\ Len(s) >= 1 /\ Len(Tail(s)) = Len(s) - 1
           /\ \A i \in 1 .. Len(s) - 1 : Tail(s)[i] = s[i + 1] /\ i + 1 \in 1 .. Len(s)
OBVIOUS

\* What is left of a list has other elements than its head.
LEMMA TailOthers ==
    ASSUME NEW s \in Seq(Threads), s # <<>>, NEW which, ListOf(s, which)
    PROVE  /\ tstate[Head(s)] = which
           /\ \A i \in 1 .. Len(Tail(s)) :
                 Tail(s)[i] # Head(s) /\ tstate[Tail(s)[i]] = which /\ Tail(s)[i] \in Threads
           /\ \A i, j \in 1 .. Len(Tail(s)) : Tail(s)[i] = Tail(s)[j] => i = j
<1>1. 1 \in 1 .. Len(s) /\ tstate[s[1]] = which
  BY ListTail DEF ListOf
<1>2. ASSUME NEW i \in 1 .. Len(Tail(s))
      PROVE  Tail(s)[i] # Head(s) /\ tstate[Tail(s)[i]] = which /\ Tail(s)[i] \in Threads
  <2>1. Tail(s)[i] = s[i + 1] /\ i + 1 \in 1 .. Len(s) /\ i + 1 # 1
    BY ListTail
  <2>. QED
    BY <1>1, <2>1, ListTail DEF ListOf
<1>3. ASSUME NEW i \in 1 .. Len(Tail(s)), NEW j \in 1 .. Len(Tail(s)), Tail(s)[i] = Tail(s)[j]
      PROVE  i = j
  <2>1. /\ Tail(s)[i] = s[i + 1] /\ i + 1 \in 1 .. Len(s)
        /\ Tail(s)[j] = s[j + 1] /\ j + 1 \in 1 .. Len(s)
    BY ListTail
  <2>2. i + 1 = j + 1
    BY <1>3, <2>1 DEF ListOf
  <2>. QED
    BY <2>2
<1>. QED
  BY <1>1, <1>2, <1>3, ListTail

\* A thread at the end of a list of others.
LEMMA ListAppend ==
    ASSUME NEW s \in Seq(Threads), NEW t \in Threads, \A i \in 1 .. Len(s) : s[i] # t,
           \A i, j \in 1 .. Len(s) : s[i] = s[j] => i = j
    PROVE  /\ Append(s, t) \in Seq(Threads)
           /\ \A i \in 1 .. Len(Append(s, t)) :
                 Append(s, t)[i] = t \/ \E j \in 1 .. Len(s) : Append(s, t)[i] = s[j]
           /\ \A i, j \in 1 .. Len(Append(s, t)) : Append(s, t)[i] = Append(s, t)[j] => i = j
<1>1. Len(Append(s, t)) = Len(s) + 1 /\ Append(s, t) \in Seq(Threads) /\ Len(s) \in Nat
  OBVIOUS
<1>2. \A i \in 1 .. Len(s) : Append(s, t)[i] = s[i]
  OBVIOUS
<1>3. Append(s, t)[Len(s) + 1] = t
  OBVIOUS
<1>4. \A i \in 1 .. Len(s) + 1 : i \in 1 .. Len(s) \/ i = Len(s) + 1
  BY <1>1
<1>. QED
  BY <1>1, <1>2, <1>3, <1>4

\* The first ready thread gets the processor.
LEMMA SwapControl ==
    ASSUME ControlInv, NEW t \in Threads, cpu = t, lock = "none",
           NEW how \in {"start", "Schedule", "wait"}, NEW left \in {"READY", "WAITING", "TERMINATED"},
           KiSwapThread(t, how, left),
           UNCHANGED <<processVars, tableVars, owner, child, closeVars, stale>>,
           NEW place \in Places \ {"CountThread"}, pc' = [pc EXCEPT ![t] = place],
           place = "gone" <=> left = "TERMINATED", place \in Building => pc[t] = place,
           IF left = "TERMINATED" THEN exitList' = Append(exitList, t) ELSE exitList' = exitList
    PROVE  ControlInv'
<1>. PICK h : h = Head(ready)
  OBVIOUS
<1>. PICK r : r = Tail(ready)
  OBVIOUS
<1>1. /\ ready # <<>> /\ tstate' = [tstate EXCEPT ![t] = left, ![h] = "RUNNING"]
      /\ ready' = (IF left = "READY" THEN Append(r, t) ELSE r)
      /\ cameBy' = [cameBy EXCEPT ![t] = how] /\ cpu' = h /\ lock' \in {"ExitThreadLock", "none"}
  BY DEF KiSwapThread
<1>2. ready \in Seq(Threads) /\ ListOf(ready, "READY") /\ exitList \in Seq(Threads)
      /\ ListOf(exitList, "TERMINATED")
  BY DEF ControlInv, Types
<1>3. /\ h \in Threads /\ tstate[h] = "READY"
      /\ \A i \in 1 .. Len(r) : r[i] # h /\ tstate[r[i]] = "READY"
                                            /\ r[i] \in Threads
      /\ \A i, j \in 1 .. Len(r) : r[i] = r[j] => i = j
      /\ r \in Seq(Threads)
  <2>1. h \in Threads /\ r \in Seq(Threads)
    BY <1>1, <1>2, ListTail
  <2>2. /\ tstate[Head(ready)] = "READY"
        /\ \A i \in 1 .. Len(Tail(ready)) :
              /\ Tail(ready)[i] # Head(ready) /\ tstate[Tail(ready)[i]] = "READY"
              /\ Tail(ready)[i] \in Threads
        /\ \A i, j \in 1 .. Len(Tail(ready)) : Tail(ready)[i] = Tail(ready)[j] => i = j
    BY <1>1, <1>2, TailOthers
  <2>. QED
    BY <2>1, <2>2
<1>4. tstate[t] = "RUNNING" /\ h # t
  BY <1>3, CurrentThread
<1>5. /\ tstate'[t] = left /\ tstate'[h] = "RUNNING"
      /\ \A u \in Threads \ {t, h} : tstate'[u] = tstate[u]
      /\ pc'[t] = place /\ \A u \in Threads \ {t} : pc'[u] = pc[u]
  BY <1>1, <1>3, <1>4 DEF ControlInv, Types
<1>6. /\ UNCHANGED <<state, refs, rundown, active, flags, parent, pid, space, list, count, PidTable,
                     activeList, pages, owner, child, drop, unwind, dead, leaked,
                     userStack, closed, debug, stale>>
  BY DEF processVars, tableVars, closeVars
<1>7. ready' \in Seq(Threads) /\ ListOf(ready, "READY")'
  <2>1. \A i \in 1 .. Len(r) : r[i] # t
    BY <1>3, <1>4
  <2>2. \A i \in 1 .. Len(r) : tstate'[r[i]] = "READY"
    BY <1>3, <1>5, <2>1
  <2>3. CASE left = "READY"
    <3>1. ready' = Append(r, t)
      BY <1>1, <2>3
    <3>2. /\ ready' \in Seq(Threads)
          /\ \A i \in 1 .. Len(ready') : ready'[i] = t \/ \E j \in 1 .. Len(r) : ready'[i] = r[j]
          /\ \A i, j \in 1 .. Len(ready') : ready'[i] = ready'[j] => i = j
      <4>1. r \in Seq(Threads) /\ \A i, j \in 1 .. Len(r) : r[i] = r[j] => i = j
        BY <1>3
      <4>2. /\ Append(r, t) \in Seq(Threads)
            /\ \A i \in 1 .. Len(Append(r, t)) :
                 Append(r, t)[i] = t \/ \E j \in 1 .. Len(r) : Append(r, t)[i] = r[j]
            /\ \A i, j \in 1 .. Len(Append(r, t)) : Append(r, t)[i] = Append(r, t)[j] => i = j
        BY ONLY t \in Threads, <4>1, <2>1, ListAppend
      <4>. QED
        BY <3>1, <4>2
    <3>3. \A i \in 1 .. Len(ready') : tstate'[ready'[i]] = "READY"
      BY <3>2, <2>2, <2>3, <1>5
    <3>. QED
      BY <3>2, <3>3 DEF ListOf
  <2>4. CASE left # "READY"
    <3>1. ready' = r
      BY <1>1, <2>4
    <3>. QED
      BY <1>3, <2>2, <3>1 DEF ListOf
  <2>. QED
    BY <2>3, <2>4
<1>8. exitList' \in Seq(Threads) /\ ListOf(exitList, "TERMINATED")'
  <2>1. \A i \in 1 .. Len(exitList) : exitList[i] \in Threads /\ tstate[exitList[i]] = "TERMINATED"
    BY <1>2 DEF ListOf
  <2>2. \A i \in 1 .. Len(exitList) : exitList[i] # t /\ exitList[i] # h
    BY <2>1, <1>3, <1>4
  <2>3. \A i \in 1 .. Len(exitList) : tstate'[exitList[i]] = "TERMINATED"
    BY <2>1, <2>2, <1>5
  <2>4. CASE left = "TERMINATED"
    <3>1. exitList' = Append(exitList, t)
      BY <2>4
    <3>2. /\ exitList' \in Seq(Threads)
          /\ \A i \in 1 .. Len(exitList') :
                exitList'[i] = t \/ \E j \in 1 .. Len(exitList) : exitList'[i] = exitList[j]
          /\ \A i, j \in 1 .. Len(exitList') : exitList'[i] = exitList'[j] => i = j
      BY <3>1, <2>2, <1>2, ListAppend DEF ListOf
    <3>3. \A i \in 1 .. Len(exitList') : tstate'[exitList'[i]] = "TERMINATED"
      BY <3>2, <2>3, <2>4, <1>5
    <3>. QED
      BY <3>2, <3>3 DEF ListOf
  <2>5. CASE left # "TERMINATED"
    BY <1>2, <2>3, <2>5 DEF ListOf
  <2>. QED
    BY <2>4, <2>5
<1>9. Types'
  BY <1>1, <1>3, <1>6, <1>7, <1>8 DEF ControlInv, Types
<1>10. ASSUME NEW u \in Threads PROVE Running(u)'
  <2>1. Running(u) /\ pc[u] # "CountThread"
    BY CurrentThread DEF ControlInv
  <2>2. CASE u = t
    BY <1>1, <1>4, <1>5, <1>6, <2>1, <2>2 DEF Running
  <2>3. CASE u = h
    BY <1>1, <1>3, <1>4, <1>5, <1>6, <2>1, <2>3 DEF Running
  <2>4. CASE u # t /\ u # h
    BY <1>1, <1>5, <1>6, <2>1, <2>4 DEF Running
  <2>. QED
    BY <2>2, <2>3, <2>4
<1>. QED
  BY <1>1, <1>6, <1>7, <1>8, <1>9, <1>10 DEF ControlInv

\* Steps that only the processor takes.
LEMMA ControlSchedule ==
    ASSUME ControlInv, NEW t \in Threads, Schedule(t) \/ KiBlockThread(t) \/ PsExitThread(t)
    PROVE  ControlInv'
<1>1. CASE Schedule(t)
  <2>1. /\ cpu = t /\ lock = "none" /\ KiSwapThread(t, "Schedule", "READY")
        /\ UNCHANGED <<processVars, tableVars, owner, child, closeVars, stale>> /\ exitList' = exitList
        /\ pc' = pc
    BY <1>1 DEF Schedule
  <2>2. pc' = [pc EXCEPT ![t] = pc[t]] /\ pc[t] \in Places \ {"CountThread", "gone"}
    BY <2>1, CurrentThread DEF ControlInv, Types
  <2>. QED
    BY <2>1, <2>2, SwapControl
<1>2. CASE KiBlockThread(t)
  <2>1. /\ cpu = t /\ lock = "none" /\ KiSwapThread(t, "wait", "WAITING")
        /\ UNCHANGED <<processVars, tableVars, owner, child, closeVars, stale>> /\ exitList' = exitList
        /\ pc' = [pc EXCEPT ![t] = "BinaryRead"]
    BY <1>2 DEF KiBlockThread, At, Goto
  <2>2. "BinaryRead" \in Places \ {"CountThread", "gone"} /\ "BinaryRead" \notin Building
    BY DEF Places, Building
  <2>. QED
    BY <2>1, <2>2, SwapControl
<1>3. CASE PsExitThread(t)
  <2>1. /\ cpu = t /\ lock = "none" /\ KiSwapThread(t, "Schedule", "TERMINATED")
        /\ UNCHANGED <<processVars, tableVars, owner, child, closeVars, stale>>
        /\ exitList' = Append(exitList, t)
        /\ pc' = [pc EXCEPT ![t] = "gone"]
    BY <1>3 DEF PsExitThread, At, Goto
  <2>2. "gone" \in Places \ {"CountThread"} /\ "gone" \notin Building
    BY DEF Places, Building
  <2>. QED
    BY <2>1, <2>2, SwapControl
<1>. QED
  BY <1>1, <1>2, <1>3

LEMMA ControlReady ==
    ASSUME ControlInv, NEW t \in Threads, KiReadyThread(t)
    PROVE  ControlInv'
<1>1. /\ tstate[t] = "WAITING" /\ tstate' = [tstate EXCEPT ![t] = "READY"] /\ ready' = Append(ready, t)
      /\ UNCHANGED <<state, refs, rundown, active, flags, parent, pid, space, list, count, PidTable,
                     activeList, pages, owner, pc, cameBy, child, cpu, lock, exitList, drop, unwind,
                     dead, leaked, userStack, closed, debug, stale>>
  BY DEF KiReadyThread, processVars, tableVars, closeVars
<1>2. /\ ready \in Seq(Threads) /\ ListOf(ready, "READY")
      /\ exitList \in Seq(Threads) /\ ListOf(exitList, "TERMINATED")
  BY DEF ControlInv, Types
<1>3. tstate'[t] = "READY" /\ \A u \in Threads \ {t} : tstate'[u] = tstate[u]
  BY <1>1 DEF ControlInv, Types
<1>4. \A i \in 1 .. Len(ready) : ready[i] \in Threads /\ ready[i] # t /\ tstate'[ready[i]] = "READY"
  BY <1>1, <1>2, <1>3 DEF ListOf
<1>5. /\ ready' \in Seq(Threads)
      /\ \A i \in 1 .. Len(ready') : ready'[i] = t \/ \E j \in 1 .. Len(ready) : ready'[i] = ready[j]
      /\ \A i, j \in 1 .. Len(ready') : ready'[i] = ready'[j] => i = j
  BY <1>1, <1>2, <1>4, ListAppend DEF ListOf
<1>6. ListOf(ready, "READY")'
  <2>1. \A i \in 1 .. Len(ready') : tstate'[ready'[i]] = "READY"
    BY <1>3, <1>4, <1>5
  <2>. QED
    BY <1>5, <2>1 DEF ListOf
<1>7. ListOf(exitList, "TERMINATED")'
  <2>1. \A i \in 1 .. Len(exitList) : exitList[i] \in Threads /\ exitList[i] # t
    BY <1>1, <1>2 DEF ListOf
  <2>. QED
    BY <1>1, <1>2, <1>3, <2>1 DEF ListOf
<1>8. Types'
  BY <1>1, <1>5 DEF ControlInv, Types
<1>9. ASSUME NEW u \in Threads PROVE Running(u)'
  <2>1. Running(u)
    BY DEF ControlInv
  <2>2. CASE u = t
    BY <1>1, <1>3, <2>1, <2>2 DEF Running
  <2>3. CASE u # t
    BY <1>1, <1>3, <2>1, <2>3 DEF Running
  <2>. QED
    BY <2>2, <2>3
<1>. QED
  BY <1>1, <1>6, <1>7, <1>8, <1>9 DEF ControlInv

\* The places of a call, one step at a time.
LEMMA CallPlaces ==
    /\ {"run", "PspReadBinary", "ObCreateObject", "ObInsertHandle", "PsIncProcessRundownProtect",
        "MmCloneUserPtes", "PspInsertProcess", "PspCreateThread", "UniqueProcessId",
        "ObReferenceObject", "EmptyThreadList", "PspRemoveProcess", "ObDereferenceObject", "PsExitThread"}
          \subseteq Places \ {"gone", "CountThread"}
    /\ "CountThread" \in Places \ {"gone"}
    /\ {"run", "PspReadBinary", "BinaryRead", "PsCreateProcess", "ObCreateObject", "UniqueProcessId"}
          \cap (Building \cup Exits) = {}
    /\ Exits \cap Building = {}
BY DEF Places, Building, Exits

\* Nothing happens but that the machine stops or memory was used.
LEMMA ControlStops ==
    ASSUME ControlInv, stale' \subseteq {"pid", "lock", "rundown", "exit", "close"},
           UNCHANGED <<processVars, tableVars, threadVars, cpuVars, closeVars>>
    PROVE  ControlInv'
<1>1. UNCHANGED <<state, refs, rundown, active, flags, parent, pid, space, list, count, PidTable,
                  activeList, pages, tstate, owner, pc, cameBy, child, cpu, ready, lock, exitList,
                  drop, unwind, dead, leaked, userStack, closed, debug>>
  BY DEF processVars, tableVars, threadVars, cpuVars, closeVars
<1>2. Types'
  BY <1>1 DEF ControlInv, Types
<1>3. \A u \in Threads : Running(u)'
  BY <1>1 DEF ControlInv, Running
<1>4. ListOf(ready, "READY")' /\ ListOf(exitList, "TERMINATED")'
  BY <1>1 DEF ControlInv, ListOf
<1>. QED
  BY <1>1, <1>2, <1>3, <1>4 DEF ControlInv

LEMMA UsesTyped ==
    ASSUME ControlInv, NEW p, NEW how \in {"pid", "lock", "rundown", "exit", "close"}, Uses(p, how)
    PROVE  stale' \subseteq {"pid", "lock", "rundown", "exit", "close"}
BY DEF Uses, ControlInv, Types

\* A step of a call that moves only its thread, outside the tail of Schedule.
LEMMA ControlCall ==
    ASSUME ControlInv, NEW t \in Threads, cpu = t, lock = "none", Types',
           UNCHANGED <<tstate, owner, cpu, ready, exitList, lock, drop, unwind, dead>>,
           NEW place \in Places \ {"gone", "CountThread"}, pc' = [pc EXCEPT ![t] = place],
           place \in Building => child'[t] \in Processes,
           \A u \in Threads \ {t} : child'[u] = child[u]
    PROVE  ControlInv'
<1>1. lock' = "none" /\ drop' = None /\ unwind' = <<>> /\ dead' = {}
  BY DEF ControlInv
<1>. QED
  BY <1>1, MoveControl

-----------------------------------------------------------------------------
(* What a step leaves alone.                                                *)

\* A thread stays where it is, moves outside forks and exits, or leaves for good.
Ambles(u) ==
    \/ pc'[u] = pc[u] /\ child'[u] = child[u]
    \/ pc[u] \notin Building \cup Exits /\ pc'[u] \notin Building \cup Exits
    \/ pc[u] = "PsExitThread" /\ pc'[u] = "gone"

\* The sets that the counters count.
LEMMA UncountedSame ==
    ASSUME NEW p,
           \A u \in Threads : (child'[u] = p /\ pc'[u] = "CountThread")
                                 <=> (child[u] = p /\ pc[u] = "CountThread")
    PROVE  Uncounted(p)' = Uncounted(p)
BY DEF Uncounted

LEMMA CountedSame ==
    ASSUME NEW p, \A u \in Threads : owner'[u] = p <=> owner[u] = p
    PROVE  Counted(p)' = Counted(p)
BY DEF Counted

LEMMA ChildrenSame ==
    ASSUME NEW p, drop' = drop, unwind' = unwind,
           \A q \in Processes : (Alive(q)' /\ parent'[q] = p) <=> (Alive(q) /\ parent[q] = p)
    PROVE  Children(p)' = Children(p)
BY DEF Children

LEMMA FiniteCounts ==
    ASSUME NEW p
    PROVE  /\ IsFiniteSet(Uncounted(p)) /\ IsFiniteSet(Counted(p)) /\ IsFiniteSet(Children(p))
           /\ Cardinality(Uncounted(p)) \in Nat /\ Cardinality(Counted(p)) \in Nat
           /\ Cardinality(Children(p)) \in Nat
<1>1. /\ Uncounted(p) \subseteq Threads /\ Counted(p) \subseteq Threads
      /\ Children(p) \subseteq Processes
  BY DEF Uncounted, Counted, Children
<1>2. IsFiniteSet(Uncounted(p)) /\ IsFiniteSet(Counted(p)) /\ IsFiniteSet(Children(p))
  BY <1>1, ConstantsFit, FS_Subset
<1>. QED
  BY <1>2, FS_CardinalityType

LEMMA CountSame ==
    ASSUME NEW p, CountFits(p), state'[p] # "none" => state[p] # "none",
           rundown'[p] = rundown[p], active'[p] = active[p],
           Uncounted(p)' = Uncounted(p), Counted(p)' = Counted(p), Children(p)' = Children(p),
           drop' = drop, unwind' = unwind
    PROVE  CountFits(p)'
BY DEF CountFits, Alive, Dropping

\* Threads amble, and no process changes.
LEMMA LifeAmbles ==
    ASSUME LifeInv, UNCHANGED <<processVars, owner, drop, unwind>>,
           \A u \in Threads : Ambles(u), stale' \subseteq {"pid", "lock"}
    PROVE  LifeInv'
<1>0. UNCHANGED <<state, refs, rundown, active, flags, parent, pid, space, list, count>>
  BY DEF processVars
<1>1. \A u \in Threads, p \in Processes : Builds(u, p)' <=> Builds(u, p)
  BY CallPlaces DEF Ambles, Builds, Exits
<1>2. \A p \in Processes : (Unwound(p)' <=> Unwound(p)) /\ (Alive(p)' <=> Alive(p))
  BY <1>0 DEF Unwound, Alive
<1>3. \A u \in Threads :
          /\ pc'[u] \in Exits <=> pc[u] \in Exits
          /\ pc'[u] = pc[u] \/ pc[u] \notin Building \cup Exits
                \/ (pc[u] = "PsExitThread" /\ pc'[u] = "gone")
  BY DEF Ambles, Exits
<1>4. SystemFits'
  BY <1>0, <1>2, <1>3, ConstantsFit DEF LifeInv, SystemFits
<1>5. UnwindFits' /\ DropFits'
  <2>1. UnwindFits'
    BY <1>0 DEF LifeInv, UnwindFits, Alive
  <2>2. DropFits'
    BY <1>0 DEF LifeInv, DropFits, Alive, Unwound
  <2>. QED
    BY <2>1, <2>2
<1>6. ASSUME NEW t \in Threads, NEW p \in Processes PROVE BuildFits(t, p)'
  <2>1. SUFFICES ASSUME Builds(t, p) PROVE BuildFits(t, p)'
    BY <1>1 DEF BuildFits
  <2>2. BuildFits(t, p) /\ pc'[t] = pc[t]
    BY <2>1, CallPlaces DEF LifeInv, Ambles, Builds, Exits
  <2>. QED
    BY <1>0, <1>1, <1>2, <2>1, <2>2 DEF BuildFits, Alive
<1>7. ASSUME NEW t \in Threads, NEW p \in Processes PROVE OwnerFits(t, p)'
  <2>1. OwnerFits(t, p)
    BY DEF LifeInv
  <2>2. CASE pc'[t] = pc[t]
    BY <1>0, <1>2, <2>1, <2>2 DEF OwnerFits
  <2>3. CASE pc[t] \notin Building \cup Exits /\ pc'[t] \notin Building \cup Exits
    BY <1>0, <1>2, <2>1, <2>3 DEF OwnerFits, Exits
  <2>4. CASE pc[t] = "PsExitThread" /\ pc'[t] = "gone"
    BY <1>0, <1>2, <2>1, <2>4 DEF OwnerFits, Exits
  <2>. QED
    BY <2>2, <2>3, <2>4 DEF Ambles
<1>8. ASSUME NEW p \in Processes PROVE WaitFits(p)' /\ CountFits(p)' /\ ParentFits(p)'
  <2>1. WaitFits(p) /\ CountFits(p) /\ ParentFits(p)
    BY DEF LifeInv
  <2>2. WaitFits(p)'
    BY <1>0, <1>1, <1>2, <2>1 DEF WaitFits
  <2>3. ParentFits(p)'
    BY <1>0, <1>2, <2>1 DEF ParentFits, Alive
  <2>4. Uncounted(p)' = Uncounted(p)
    <3>1. ASSUME NEW u \in Threads
          PROVE  (child'[u] = p /\ pc'[u] = "CountThread") <=> (child[u] = p /\ pc[u] = "CountThread")
      BY DEF Ambles, Building, Exits
    <3>. QED
      BY <3>1, UncountedSame
  <2>5. Counted(p)' = Counted(p) /\ Children(p)' = Children(p)
    BY <1>0, CountedSame, ChildrenSame DEF Alive
  <2>. QED
    BY <1>0, <2>1, <2>2, <2>3, <2>4, <2>5, CountSame
<1>9. KnownStaleUses'
  BY DEF KnownStaleUses
<1>. QED
  BY <1>4, <1>5, <1>6, <1>7, <1>8, <1>9 DEF LifeInv

\* Nobody takes or gives back anything.
LEMMA ResourceSame ==
    ASSUME ControlInv, ResourceInv, UNCHANGED <<PidTable, pid>>, bug' \in Stops,
           \A p \in Processes : (state'[p] # "none" <=> state[p] # "none") /\ count'[p] >= -1,
           \A t \in Threads : tstate'[t] # "none" <=> tstate[t] # "none",
           \A t \in Threads : pc'[t] = "ObInsertHandle" <=> pc[t] = "ObInsertHandle",
           \A t \in Threads : pc[t] = "ObInsertHandle" => child'[t] = child[t]
    PROVE  ResourceInv'
<1>1. KnownStop'
  BY DEF KnownStop, Stops
<1>2. PidsExact'
  <2>1. ASSUME NEW i \in Slots, PidTable[i] # None PROVE Alive(PidTable[i])' /\ pid[PidTable[i]] = i
    <3>1. Alive(PidTable[i]) /\ pid[PidTable[i]] = i
      BY <2>1 DEF ResourceInv, PidsExact
    <3>2. PidTable[i] \in Processes
      BY <2>1 DEF ControlInv, Types
    <3>. QED
      BY <3>1, <3>2 DEF Alive
  <2>2. ASSUME NEW p \in Processes, Alive(p)'
        PROVE  \/ PidTable[pid[p]] = p
               \/ \E t \in Threads : child'[t] = p /\ pc'[t] = "ObInsertHandle"
    BY <2>2 DEF ResourceInv, PidsExact, Alive
  <2>. QED
    BY <2>1, <2>2 DEF PidsExact, Alive
<1>. QED
  BY <1>1, <1>2 DEF ResourceInv

\* The machine stops for want of something, and memory was used as is known.
LEMMA MachineStops ==
    ASSUME PsInv, bug' \in Stops, stale' \subseteq {"pid", "lock"},
           UNCHANGED <<processVars, tableVars, threadVars, cpuVars, closeVars>>
    PROVE  PsInv'
<1>1. ControlInv'
  BY ControlStops DEF PsInv
<1>2. LifeInv'
  BY LifeAmbles DEF PsInv, threadVars, closeVars, Ambles
<1>3. ResourceInv'
  <2>1. UNCHANGED <<PidTable, pid, state, count, tstate, pc, child>>
    BY DEF processVars, tableVars, threadVars, closeVars
  <2>2. \A p \in Processes : count'[p] >= -1
    BY <2>1 DEF PsInv, ResourceInv
  <2>. QED
    BY <2>1, <2>2, ResourceSame DEF PsInv
<1>. QED
  BY <1>1, <1>2, <1>3 DEF PsInv

\* Threads amble, and no process changes and nothing is taken.
LEMMA AmbleKeeps ==
    ASSUME PsInv, ControlInv', bug' \in Stops, stale' \subseteq {"pid", "lock"},
           UNCHANGED <<processVars, tableVars, owner, drop, unwind>>,
           \A u \in Threads : Ambles(u),
           \A u \in Threads : tstate'[u] # "none" <=> tstate[u] # "none"
    PROVE  PsInv'
<1>1. LifeInv'
  BY LifeAmbles DEF PsInv
<1>2. ResourceInv'
  <2>1. UNCHANGED <<PidTable, pid, state, count>>
    BY DEF processVars, tableVars
  <2>2. \A p \in Processes : count'[p] >= -1
    BY <2>1 DEF PsInv, ResourceInv
  <2>3. ASSUME NEW u \in Threads
        PROVE  /\ pc'[u] = "ObInsertHandle" <=> pc[u] = "ObInsertHandle"
               /\ pc[u] = "ObInsertHandle" => child'[u] = child[u]
    BY DEF Ambles, Building, Exits
  <2>. QED
    BY <2>1, <2>2, <2>3, ResourceSame DEF PsInv
<1>. QED
  BY <1>1, <1>2 DEF PsInv

-----------------------------------------------------------------------------
(* Steps of the processor, and of calls that change nothing.                *)

\* The facts about a swap that do not depend on the lists.
LEMMA SwapStates ==
    ASSUME ControlInv, NEW t \in Threads, cpu = t, NEW how, NEW left \in {"READY", "WAITING", "TERMINATED"},
           KiSwapThread(t, how, left)
    PROVE  \A u \in Threads : tstate'[u] # "none" <=> tstate[u] # "none"
<1>1. ready # <<>> /\ ready \in Seq(Threads) /\ ListOf(ready, "READY")
  BY DEF KiSwapThread, ControlInv, Types
<1>. PICK h : h = Head(ready)
  OBVIOUS
<1>2. h \in Threads /\ tstate[h] = "READY"
  BY <1>1, ListTail, TailOthers
<1>3. tstate' = [tstate EXCEPT ![t] = left, ![h] = "RUNNING"] /\ tstate[t] = "RUNNING"
  BY CurrentThread DEF KiSwapThread
<1>. QED
  BY <1>2, <1>3 DEF ControlInv, Types

LEMMA KeepsSchedule ==
    ASSUME PsInv, NEW t \in Threads, Schedule(t) \/ KiBlockThread(t) \/ PsExitThread(t)
    PROVE  PsInv'
<1>1. /\ cpu = t /\ \E how, left \in {"READY", "WAITING", "TERMINATED", "Schedule", "wait"} :
                       left \in {"READY", "WAITING", "TERMINATED"} /\ KiSwapThread(t, how, left)
      /\ UNCHANGED <<processVars, tableVars, owner, child, closeVars, stale, bug>>
  BY DEF Schedule, KiBlockThread, PsExitThread, At
<1>2. \A u \in Threads : tstate'[u] # "none" <=> tstate[u] # "none"
  BY <1>1, SwapStates DEF PsInv
<1>3. ASSUME NEW u \in Threads PROVE Ambles(u)
  <2>0. child'[u] = child[u] /\ pc \in [Threads -> Places]
    BY <1>1 DEF PsInv, ControlInv, Types
  <2>1. CASE Schedule(t)
    BY <2>0, <2>1 DEF Schedule, Ambles
  <2>2. CASE KiBlockThread(t)
    BY <2>0, <2>2, CallPlaces DEF KiBlockThread, At, Goto, Ambles
  <2>3. CASE PsExitThread(t)
    BY <2>0, <2>3 DEF PsExitThread, At, Goto, Ambles
  <2>. QED
    BY <2>1, <2>2, <2>3
<1>4. bug' \in Stops /\ stale' \subseteq {"pid", "lock"}
  BY <1>1 DEF PsInv, LifeInv, ResourceInv, KnownStaleUses, KnownStop, Stops
<1>5. ControlInv'
  BY ControlSchedule DEF PsInv
<1>. QED
  BY <1>1, <1>2, <1>3, <1>4, <1>5, AmbleKeeps DEF closeVars

LEMMA KeepsReadyThread ==
    ASSUME PsInv, NEW t \in Threads, KiReadyThread(t)
    PROVE  PsInv'
<1>1. /\ tstate[t] = "WAITING" /\ tstate' = [tstate EXCEPT ![t] = "READY"]
      /\ UNCHANGED <<processVars, tableVars, owner, pc, child, drop, unwind, stale, bug>>
  BY DEF KiReadyThread, closeVars
<1>2. \A u \in Threads : tstate'[u] # "none" <=> tstate[u] # "none"
  BY <1>1 DEF PsInv, ControlInv, Types
<1>3. \A u \in Threads : Ambles(u)
  BY <1>1 DEF Ambles
<1>4. bug' \in Stops /\ stale' \subseteq {"pid", "lock"}
  BY <1>1 DEF PsInv, LifeInv, ResourceInv, KnownStaleUses, KnownStop, Stops
<1>. QED
  BY <1>1, <1>2, <1>3, <1>4, ControlReady, AmbleKeeps DEF PsInv

\* A call begins, or goes on outside forks and exits.
LEMMA CallAmbles ==
    ASSUME PsInv, NEW t \in Threads, cpu = t, lock = "none", bug' \in Stops,
           stale' \subseteq {"pid", "lock"}, pc[t] \notin Building \cup Exits,
           NEW place \in {"run", "PspReadBinary", "ObCreateObject"}, pc' = [pc EXCEPT ![t] = place],
           UNCHANGED <<processVars, tableVars, tstate, owner, cameBy, cpuVars, closeVars>>,
           child' \in [Threads -> Processes \cup {None}],
           \A u \in Threads \ {t} : child'[u] = child[u]
    PROVE  PsInv'
<1>1. UNCHANGED <<state, refs, rundown, active, flags, parent, pid, space, list, count, PidTable,
                  activeList, pages, tstate, owner, cameBy, cpu, ready, lock, exitList, drop, unwind,
                  dead, leaked, userStack, closed, debug>>
  BY DEF processVars, tableVars, cpuVars, closeVars
<1>2. place \in Places \ {"gone", "CountThread"} /\ place \notin Building /\ place \notin Exits
  BY CallPlaces
<1>3. Types'
  BY <1>1, <1>2 DEF PsInv, ControlInv, Types
<1>4. ControlInv'
  BY <1>1, <1>2, <1>3, ControlCall DEF PsInv
<1>5. ASSUME NEW u \in Threads PROVE Ambles(u)
  BY <1>2 DEF Ambles, PsInv, ControlInv, Types
<1>. QED
  BY <1>1, <1>4, <1>5, AmbleKeeps

LEMMA KeepsCalls ==
    ASSUME PsInv, NEW t \in Threads, PsCreateProcess(t) \/ PspReadBinary(t) \/ UniqueProcessId(t)
    PROVE  PsInv'
<1>0. /\ bug \in Stops /\ stale \subseteq {"pid", "lock"}
      /\ child \in [Threads -> Processes \cup {None}]
  BY DEF PsInv, LifeInv, ResourceInv, KnownStaleUses, KnownStop, Stops, ControlInv, Types
<1>1. CASE PsCreateProcess(t)
  <2>1. /\ cpu = t /\ lock = "none" /\ pc[t] \in {"PsCreateProcess", "run"}
        /\ UNCHANGED <<processVars, tableVars, tstate, owner, cameBy, cpuVars, closeVars, child,
                       stale, bug>>
    BY <1>1 DEF PsCreateProcess, At
  <2>2. \E place \in {"run", "PspReadBinary", "ObCreateObject"} : pc' = [pc EXCEPT ![t] = place]
    BY <1>1 DEF PsCreateProcess, Goto
  <2>3. pc[t] \notin Building \cup Exits
    BY <2>1, CallPlaces
  <2>. QED
    BY <1>0, <2>1, <2>2, <2>3, CallAmbles
<1>2. CASE PspReadBinary(t)
  <2>1. /\ cpu = t /\ lock = "none" /\ pc[t] \in {"PspReadBinary", "BinaryRead"} /\ stale' = stale
    BY <1>2 DEF PspReadBinary, At
  <2>2. \/ /\ pc' = [pc EXCEPT ![t] = "ObCreateObject"] /\ bug' = bug
           /\ UNCHANGED <<processVars, tableVars, tstate, owner, cameBy, child, cpuVars, closeVars>>
        \/ /\ bug' = "no binary"
           /\ UNCHANGED <<processVars, tableVars, threadVars, cpuVars, closeVars>>
    BY <1>2 DEF PspReadBinary, Checked, Goto
  <2>3. pc[t] \notin Building \cup Exits
    BY <2>1, CallPlaces
  <2>4. CASE /\ pc' = [pc EXCEPT ![t] = "ObCreateObject"] /\ bug' = bug
             /\ UNCHANGED <<processVars, tableVars, tstate, owner, cameBy, child, cpuVars, closeVars>>
    BY <1>0, <2>1, <2>3, <2>4, CallAmbles
  <2>5. CASE /\ bug' = "no binary"
             /\ UNCHANGED <<processVars, tableVars, threadVars, cpuVars, closeVars>>
    BY <1>0, <2>1, <2>5, MachineStops DEF Stops
  <2>. QED
    BY <2>2, <2>4, <2>5
<1>3. CASE UniqueProcessId(t)
  <2>1. /\ cpu = t /\ lock = "none" /\ pc[t] = "UniqueProcessId" /\ Uses(child[t], "pid")
        /\ child' = [child EXCEPT ![t] = None] /\ pc' = [pc EXCEPT ![t] = "run"]
        /\ UNCHANGED <<processVars, tableVars, tstate, owner, cameBy, cpuVars, closeVars, bug>>
    BY <1>3 DEF UniqueProcessId, At, Goto
  <2>2. stale' \subseteq {"pid", "lock"}
    BY <1>0, <2>1 DEF Uses
  <2>3. /\ child' \in [Threads -> Processes \cup {None}]
        /\ \A u \in Threads \ {t} : child'[u] = child[u]
    BY <1>0, <2>1
  <2>4. pc[t] \notin Building \cup Exits
    BY <2>1, CallPlaces
  <2>. QED
    BY <1>0, <2>1, <2>2, <2>3, <2>4, CallAmbles
<1>. QED
  BY <1>1, <1>2, <1>3

-----------------------------------------------------------------------------
(* Steps of a call that change one process.                                 *)

SameProcess(q) ==
    /\ state'[q] = state[q] /\ refs'[q] = refs[q] /\ flags'[q] = flags[q] /\ parent'[q] = parent[q]
    /\ list'[q] = list[q] /\ count'[q] = count[q] /\ (q \in space' <=> q \in space)

SameCounts(q) == rundown'[q] = rundown[q] /\ active'[q] = active[q]

\* A thread stands to a process as it did.
SameThread(u, q) ==
    /\ Builds(u, q)' <=> Builds(u, q)
    /\ Builds(u, q) => pc'[u] = pc[u]
    /\ owner'[u] = q <=> owner[u] = q
    /\ owner[u] = q => pc'[u] = pc[u] \/ (pc[u] \notin Exits /\ pc'[u] \notin Exits)

Fits(q) ==
    /\ \A u \in Threads : BuildFits(u, q) /\ OwnerFits(u, q)
    /\ WaitFits(q) /\ ParentFits(q)

LEMMA LifeParts ==
    LifeInv <=> /\ SystemFits /\ UnwindFits /\ DropFits /\ KnownStaleUses
                /\ \A q \in Processes : Fits(q) /\ CountFits(q)
BY DEF LifeInv, Fits

\* A process that the step does not concern.
LEMMA FitsElsewhere ==
    ASSUME LifeInv, NEW q \in Processes, SameProcess(q), \A u \in Threads : SameThread(u, q),
           Unwound(q)' <=> Unwound(q),
           \A u \in Threads : Builds(u, q) =>
              SameCounts(q) /\ drop' # q /\ \A r \in Processes : state'[r] # "none" => parent'[r] # q,
           state[q] # "none" /\ parent[q] # None => state'[parent[q]] # "none" \/ Unwound(q)
    PROVE  Fits(q)'
<1>0. WaitFits(q) /\ ParentFits(q) /\ Alive(q)' = Alive(q)
  BY DEF LifeInv, SameProcess, Alive
<1>1. ASSUME NEW u \in Threads PROVE BuildFits(u, q)'
  <2>1. SUFFICES ASSUME Builds(u, q)' PROVE BuildFits(u, q)'
    BY DEF BuildFits
  <2>2. Builds(u, q) /\ pc'[u] = pc[u] /\ BuildFits(u, q)
    BY <2>1 DEF SameThread, LifeInv
  <2>3. SameCounts(q) /\ drop' # q /\ \A r \in Processes : Alive(r)' => parent'[r] # q
    BY <2>2 DEF Alive
  <2>4. \A v \in Threads : (Builds(v, q)' <=> Builds(v, q)) /\ (owner'[v] # q <=> owner[v] # q)
    BY DEF SameThread
  <2>. QED
    BY <1>0, <2>2, <2>3, <2>4 DEF BuildFits, SameProcess, SameCounts
<1>2. ASSUME NEW u \in Threads PROVE OwnerFits(u, q)'
  <2>1. SUFFICES ASSUME owner'[u] = q, q # System PROVE OwnerFits(u, q)'
    BY DEF OwnerFits
  <2>2. /\ owner[u] = q /\ OwnerFits(u, q)
        /\ pc'[u] = pc[u] \/ (pc[u] \notin Exits /\ pc'[u] \notin Exits)
    BY <2>1 DEF SameThread, LifeInv
  <2>3. \A v \in Threads : owner'[v] # q <=> owner[v] # q
    BY DEF SameThread
  <2>4. CASE pc'[u] = pc[u]
    BY <1>0, <2>1, <2>2, <2>3, <2>4 DEF OwnerFits, SameProcess
  <2>5. CASE pc[u] \notin Exits /\ pc'[u] \notin Exits
    BY <1>0, <2>1, <2>2, <2>3, <2>5 DEF OwnerFits, SameProcess, Exits
  <2>. QED
    BY <2>2, <2>4, <2>5
<1>3. WaitFits(q)'
  BY <1>0 DEF WaitFits, SameProcess, SameThread
<1>4. ParentFits(q)'
  BY <1>0 DEF ParentFits, SameProcess, Alive
<1>. QED
  BY <1>1, <1>2, <1>3, <1>4 DEF Fits

\* Outside the tail of Schedule no process is being freed.
LEMMA NoClose ==
    ASSUME ControlInv, lock # "ExitThreadLock"
    PROVE  drop = None /\ unwind = <<>> /\ dead = {} /\ UnwindFits /\ DropFits
           /\ \A q : ~Unwound(q) /\ Dropping(q) = IF q = None THEN 1 ELSE 0
<1>1. drop = None /\ unwind = <<>> /\ dead = {} /\ Len(unwind) = 0
  BY DEF ControlInv
<1>2. \A i \in 1 .. Len(unwind) : FALSE
  BY <1>1
<1>. QED
  BY <1>1, <1>2 DEF UnwindFits, DropFits, Unwound, Dropping

LEMMA NoCloseNext ==
    ASSUME ControlInv', lock' # "ExitThreadLock"
    PROVE  drop' = None /\ unwind' = <<>> /\ dead' = {} /\ UnwindFits' /\ DropFits'
           /\ \A q : ~Unwound(q)'
<1>1. drop' = None /\ unwind' = <<>> /\ dead' = {} /\ Len(unwind') = 0
  BY DEF ControlInv
<1>2. \A i \in 1 .. Len(unwind') : FALSE
  BY <1>1
<1>. QED
  BY <1>1, <1>2 DEF UnwindFits, DropFits, Unwound

\* A step of a call that concerns one process and leaves the others alone.
LEMMA OneProcess ==
    ASSUME PsInv, ControlInv', lock # "ExitThreadLock", lock' # "ExitThreadLock",
           stale' \subseteq {"pid", "lock"},
           NEW c \in Processes, c # System, state'[c] # "none", Fits(c)',
           \A q \in Processes : CountFits(q)',
           \A q \in Processes \ {c} : SameProcess(q),
           \A u \in Threads, q \in Processes \ {c} : SameThread(u, q),
           \A u \in Threads, q \in Processes \ {c} : Builds(u, q) => SameCounts(q) /\ parent'[c] # q
    PROVE  LifeInv'
<1>1. /\ drop = None /\ drop' = None /\ UnwindFits' /\ DropFits'
      /\ \A q : ~Unwound(q)' /\ ~Unwound(q)
  BY NoClose, NoCloseNext DEF PsInv
<1>2. \A q \in Processes : state[q] # "none" => state'[q] # "none"
  BY DEF SameProcess
<1>3. ASSUME NEW q \in Processes \ {c} PROVE Fits(q)'
  <2>1. ASSUME NEW u \in Threads, Builds(u, q)
        PROVE  /\ SameCounts(q) /\ drop' # q
               /\ \A r \in Processes : state'[r] # "none" => parent'[r] # q
    <3>1. BuildFits(u, q) /\ q # None
      BY ConstantsFit DEF PsInv, LifeInv
    <3>2. \A r \in Processes : state[r] # "none" => parent[r] # q
      BY <2>1, <3>1 DEF BuildFits, Alive
    <3>. QED
      BY <1>1, <2>1, <3>1, <3>2 DEF SameProcess
  <2>2. state[q] # "none" /\ parent[q] # None => state'[parent[q]] # "none" \/ Unwound(q)
    <3>1. ParentFits(q) /\ parent[q] \in Processes \cup {None}
      BY DEF PsInv, LifeInv, ControlInv, Types
    <3>. QED
      BY <1>1, <1>2, <3>1 DEF ParentFits, Alive
  <2>. QED
    BY <1>1, <2>1, <2>2, FitsElsewhere DEF PsInv
<1>4. SystemFits'
  <2>1. SystemFits /\ SameProcess(System) /\ \A u \in Threads : SameThread(u, System)
    BY ConstantsFit DEF PsInv, LifeInv
  <2>2. Alive(System)' /\ System \in space' /\ ~Unwound(System)'
    BY <1>1, <2>1 DEF SystemFits, SameProcess, Alive
  <2>3. ASSUME NEW u \in Threads
        PROVE  /\ owner'[u] = System <=> u \in {Boot, Idle}
               /\ pc'[u] \in Exits => owner'[u] # System
    BY <2>1 DEF SystemFits, SameThread
  <2>. QED
    BY <2>2, <2>3 DEF SystemFits
<1>5. KnownStaleUses'
  BY DEF KnownStaleUses
<1>6. \A q \in Processes : Fits(q)' /\ CountFits(q)'
  BY <1>3
<1>. QED
  BY <1>1, <1>4, <1>5, <1>6 DEF LifeInv, Fits

\* The counters of a process whose threads and children are the same.
LEMMA CountElsewhere ==
    ASSUME PsInv, ControlInv', lock # "ExitThreadLock", lock' # "ExitThreadLock",
           NEW q \in Processes, SameCounts(q), state'[q] # "none" => state[q] # "none",
           \A u \in Threads : owner'[u] = q <=> owner[u] = q,
           \A u \in Threads : (child'[u] = q /\ pc'[u] = "CountThread")
                                 <=> (child[u] = q /\ pc[u] = "CountThread"),
           \A r \in Processes : (state'[r] # "none" /\ parent'[r] = q)
                                   <=> (state[r] # "none" /\ parent[r] = q)
    PROVE  CountFits(q)'
<1>1. drop' = drop /\ unwind' = unwind
  BY NoClose, NoCloseNext DEF PsInv
<1>2. CountFits(q)
  BY DEF PsInv, LifeInv
<1>3. Uncounted(q)' = Uncounted(q) /\ Counted(q)' = Counted(q)
  BY UncountedSame, CountedSame
<1>4. Children(q)' = Children(q)
  BY <1>1, ChildrenSame DEF Alive
<1>. QED
  BY <1>1, <1>2, <1>3, <1>4, CountSame DEF SameCounts

-----------------------------------------------------------------------------
(* Steps of an exit.                                                        *)

\* The owner of a thread that is not a system thread is there and is its own.
LEMMA OwnerAlive ==
    ASSUME PsInv, NEW t \in Threads, cpu = t, lock = "none"
    PROVE  /\ owner[t] \in Processes /\ Alive(owner[t]) /\ OwnerFits(t, owner[t])
           /\ stale \subseteq {"pid", "lock"} /\ bug \in Stops
           /\ \A how : Uses(owner[t], how) => stale' = stale
<1>1. owner[t] \in Processes /\ OwnerFits(t, owner[t]) /\ SystemFits
  BY CurrentThread DEF PsInv, LifeInv
<1>2. Alive(owner[t])
  BY <1>1 DEF OwnerFits, SystemFits
<1>. QED
  BY <1>1, <1>2 DEF Uses, Alive, PsInv, LifeInv, ResourceInv, KnownStaleUses, KnownStop, Stops

\* The current thread takes a step of the exit of its process.
LEMMA ExitKeeps ==
    ASSUME PsInv, NEW t \in Threads, cpu = t, lock = "none", NEW p, p = owner[t], p # System,
           pc[t] \in Exits \cup {"run"},
           NEW place \in Exits \ {"gone"}, pc' = [pc EXCEPT ![t] = place], Types',
           UNCHANGED <<rundown, active, parent, pid, space, PidTable, pages, tstate, owner, cameBy,
                       child, cpuVars, closeVars, stale, bug>>,
           state'[p] # "none", \A q \in Processes \ {p} : SameProcess(q),
           count'[p] >= -1, OwnerFits(t, p)'
    PROVE  PsInv'
<1>0. UNCHANGED <<cpu, ready, lock, exitList, drop, unwind, dead, leaked, userStack, closed, debug>>
  BY DEF cpuVars, closeVars
<1>1. p \in Processes /\ Alive(p) /\ OwnerFits(t, p) /\ stale' \subseteq {"pid", "lock"}
  BY OwnerAlive
<1>2. place \in Places \ {"gone", "CountThread"} /\ place \notin Building
      /\ pc[t] \notin Building /\ pc[t] # "CountThread"
  BY CallPlaces DEF Exits, Places, Building
<1>3. pc'[t] = place /\ \A u \in Threads \ {t} : pc'[u] = pc[u]
  BY DEF PsInv, ControlInv, Types
<1>4. ControlInv'
  BY <1>0, <1>2, ControlCall DEF PsInv
<1>5. \A u \in Threads, q \in Processes : Builds(u, q)' <=> Builds(u, q)
  BY <1>2, <1>3 DEF Builds
<1>6. ASSUME NEW q \in Processes PROVE CountFits(q)'
  <2>1. \A u \in Threads : (child'[u] = q /\ pc'[u] = "CountThread")
                                 <=> (child[u] = q /\ pc[u] = "CountThread")
    BY <1>2, <1>3
  <2>2. \A r \in Processes : state'[r] # "none" <=> state[r] # "none"
    BY <1>1 DEF SameProcess, Alive
  <2>. QED
    BY <1>0, <1>4, <2>1, <2>2, CountElsewhere DEF SameCounts
<1>7. ASSUME NEW u \in Threads, NEW q \in Processes \ {p} PROVE SameThread(u, q)
  BY <1>3, <1>2, <1>5 DEF SameThread, Builds
<1>8. Fits(p)'
  <2>1. \A u \in Threads : owner[u] = p => u = t
    BY <1>1 DEF OwnerFits
  <2>2. \A u \in Threads : OwnerFits(u, p)'
    BY <2>1 DEF OwnerFits
  <2>3. ASSUME NEW u \in Threads, Builds(u, p) PROVE FALSE
    <3>1. BuildFits(u, p) /\ pc[u] # "CountThread"
      BY CurrentThread DEF PsInv, LifeInv
    <3>. QED
      BY <2>3, <3>1 DEF BuildFits
  <2>4. \A u \in Threads : BuildFits(u, p)'
    BY <1>1, <1>5, <2>3 DEF BuildFits
  <2>5. WaitFits(p)'
    BY <1>0 DEF WaitFits
  <2>6. ParentFits(p)'
    <3>1. ParentFits(p) /\ parent[p] \in Processes \cup {None}
      BY <1>1 DEF PsInv, LifeInv, ControlInv, Types
    <3>2. parent[p] # p => ParentFits(p)'
      BY <1>0, <1>1, <3>1 DEF ParentFits, SameProcess, Alive, Unwound
    <3>. QED
      BY <3>2 DEF ParentFits, Alive
  <2>. QED
    BY <2>2, <2>4, <2>5, <2>6 DEF Fits
<1>9. LifeInv'
  <2>1. ASSUME NEW u \in Threads, NEW q \in Processes \ {p}, Builds(u, q)
        PROVE  SameCounts(q) /\ parent'[p] # q
    <3>1. BuildFits(u, q)
      BY DEF PsInv, LifeInv
    <3>. QED
      BY <1>1, <2>1, <3>1 DEF BuildFits, SameCounts
  <2>. QED
    BY <1>0, <1>1, <1>4, <1>6, <1>7, <1>8, <2>1, OneProcess
<1>10. ResourceInv'
  <2>1. \A q \in Processes : (state'[q] # "none" <=> state[q] # "none") /\ count'[q] >= -1
    <3>1. \A q \in Processes : count[q] >= -1
      BY DEF PsInv, ResourceInv
    <3>. QED
      BY <1>1, <3>1 DEF SameProcess, Alive
  <2>2. \A u \in Threads : pc'[u] = "ObInsertHandle" <=> pc[u] = "ObInsertHandle"
    BY <1>2, <1>3 DEF Building
  <2>3. bug' \in Stops
    BY OwnerAlive
  <2>. QED
    BY <1>0, <2>1, <2>2, <2>3, ResourceSame DEF PsInv
<1>. QED
  BY <1>4, <1>9, <1>10 DEF PsInv

LEMMA KeepsPspExitProcess ==
    ASSUME PsInv, NEW t \in Threads, PspExitProcess(t)
    PROVE  PsInv'
<1>. PICK p : p = owner[t]
  OBVIOUS
<1>1. cpu = t /\ lock = "none" /\ pc[t] = "run" /\ p # System /\ Uses(p, "exit")
  BY DEF PspExitProcess, At
<1>2. p \in Processes /\ OwnerFits(t, p) /\ stale' = stale /\ pc[t] \notin Exits
  BY <1>1, OwnerAlive, CallPlaces
<1>3. state[p] = "ACTIVE" /\ flags[p] = Flags /\ list[p] = {t} /\ count[p] = 1 /\ refs[p] = 1
  BY <1>1, <1>2 DEF OwnerFits, Exits
<1>4. /\ state' = [state EXCEPT ![p] = "TERMINATED"] /\ pc' = [pc EXCEPT ![t] = "ObReferenceObject"]
      /\ UNCHANGED <<refs, rundown, active, flags, parent, pid, space, list, count, tableVars,
                     tstate, owner, cameBy, child, cpuVars, closeVars, bug>>
  BY <1>3 DEF PspExitProcess, Checked, Goto
<1>5. UNCHANGED <<PidTable, activeList, pages, cpu, ready, lock, exitList, drop, unwind, dead, leaked,
                  userStack, closed, debug>>
  BY <1>4 DEF tableVars, cpuVars, closeVars
<1>6. state'[p] = "TERMINATED" /\ pc'[t] = "ObReferenceObject"
  BY <1>2, <1>4 DEF PsInv, ControlInv, Types
<1>7. Types'
  BY <1>2, <1>4, <1>5, CallPlaces DEF PsInv, ControlInv, Types
<1>8. OwnerFits(t, p)'
  BY <1>1, <1>2, <1>3, <1>4, <1>5, <1>6 DEF OwnerFits, Alive, Exits, Unwound
<1>9. \A q \in Processes \ {p} : SameProcess(q)
  BY <1>4 DEF SameProcess, PsInv, ControlInv, Types
<1>10. state'[p] # "none" /\ count'[p] >= -1
  BY <1>3, <1>4, <1>6
<1>. QED
  BY <1>1, <1>2, <1>4, <1>5, <1>7, <1>8, <1>9, <1>10, ExitKeeps DEF Exits

LEMMA KeepsObReferenceObject ==
    ASSUME PsInv, NEW t \in Threads, ObReferenceObject(t)
    PROVE  PsInv'
<1>. PICK p : p = owner[t]
  OBVIOUS
<1>1. cpu = t /\ lock = "none" /\ pc[t] = "ObReferenceObject" /\ Uses(p, "exit")
  BY DEF ObReferenceObject, At
<1>2. p \in Processes /\ OwnerFits(t, p) /\ stale' = stale /\ pc[t] \in Exits /\ p # System
  BY <1>1, OwnerAlive DEF Exits, PsInv, LifeInv, SystemFits
<1>3. /\ list[p] = {t} /\ count[p] = 1 /\ refs[p] = 1 /\ flags[p] = Flags
  BY <1>1, <1>2 DEF OwnerFits
<1>4. /\ refs' = [refs EXCEPT ![p] = @ + 1] /\ pc' = [pc EXCEPT ![t] = "EmptyThreadList"]
      /\ UNCHANGED <<state, rundown, active, flags, parent, pid, space, list, count, tableVars,
                     tstate, owner, cameBy, child, cpuVars, closeVars, bug>>
  BY DEF ObReferenceObject, Goto
<1>5. UNCHANGED <<PidTable, activeList, pages, cpu, ready, lock, exitList, drop, unwind, dead, leaked,
                  userStack, closed, debug>>
  BY <1>4 DEF tableVars, cpuVars, closeVars
<1>6. refs'[p] = 2 /\ pc'[t] = "EmptyThreadList" /\ \A q \in Processes \ {p} : refs'[q] = refs[q]
  BY <1>2, <1>3, <1>4 DEF PsInv, ControlInv, Types
<1>7. Types'
  <2>1. refs' \in [Processes -> Nat]
    <3>1. refs[p] + 1 = 2
      BY <1>3
    <3>2. refs' = [refs EXCEPT ![p] = 2]
      BY <1>4, <3>1
    <3>. QED
      BY <1>2, <3>2 DEF PsInv, ControlInv, Types
  <2>. QED
    BY <1>2, <1>4, <1>5, <2>1, CallPlaces DEF PsInv, ControlInv, Types
<1>8. OwnerFits(t, p)'
  BY <1>1, <1>2, <1>3, <1>4, <1>5, <1>6 DEF OwnerFits, Alive, Exits, Unwound
<1>9. \A q \in Processes \ {p} : SameProcess(q)
  BY <1>4, <1>6 DEF SameProcess
<1>10. state'[p] # "none" /\ count'[p] >= -1
  BY <1>1, <1>2, <1>3, <1>4 DEF OwnerFits, Alive
<1>. QED
  BY <1>1, <1>2, <1>4, <1>5, <1>7, <1>8, <1>9, <1>10, ExitKeeps DEF Exits

LEMMA KeepsEmptyThreadList ==
    ASSUME PsInv, NEW t \in Threads, EmptyThreadList(t)
    PROVE  PsInv'
<1>. PICK p : p = owner[t]
  OBVIOUS
<1>1. cpu = t /\ lock = "none" /\ pc[t] = "EmptyThreadList" /\ Uses(p, "exit")
  BY DEF EmptyThreadList, At
<1>2. p \in Processes /\ OwnerFits(t, p) /\ stale' = stale /\ pc[t] \in Exits /\ p # System
  BY <1>1, OwnerAlive DEF Exits, PsInv, LifeInv, SystemFits
<1>3. /\ list[p] = {t} /\ count[p] = 1 /\ refs[p] = 2 /\ flags[p] = Flags
  BY <1>1, <1>2 DEF OwnerFits
<1>4. /\ list' = [list EXCEPT ![p] = {}] /\ count' = [count EXCEPT ![p] = @ - 1]
      /\ flags' = [flags EXCEPT ![p] = @ \ {"FIRST_THREAD_CREATED"}]
      /\ pc' = [pc EXCEPT ![t] = "PspRemoveProcess"]
      /\ UNCHANGED <<state, refs, rundown, active, parent, pid, space, tableVars,
                     tstate, owner, cameBy, child, cpuVars, closeVars, bug>>
  BY <1>3 DEF EmptyThreadList, Checked, Goto
<1>5. UNCHANGED <<PidTable, activeList, pages, cpu, ready, lock, exitList, drop, unwind, dead, leaked,
                  userStack, closed, debug>>
  BY <1>4 DEF tableVars, cpuVars, closeVars
<1>6. /\ list'[p] = {} /\ count'[p] = 0 /\ pc'[t] = "PspRemoveProcess"
      /\ \A q \in Processes \ {p} : list'[q] = list[q] /\ count'[q] = count[q] /\ flags'[q] = flags[q]
  BY <1>2, <1>3, <1>4 DEF PsInv, ControlInv, Types
<1>61. "ALLOCATED" \in flags'[p]
  BY <1>2, <1>3, <1>4 DEF PsInv, ControlInv, Types, Flags
<1>7. Types'
  <2>1. list' \in [Processes -> SUBSET Threads] /\ flags' \in [Processes -> SUBSET Flags]
    BY <1>2, <1>4 DEF PsInv, ControlInv, Types
  <2>2. count' \in [Processes -> Int]
    BY <1>2, <1>4, <1>6 DEF PsInv, ControlInv, Types
  <2>. QED
    BY <1>2, <1>4, <1>5, <2>1, <2>2, CallPlaces DEF PsInv, ControlInv, Types
<1>8. OwnerFits(t, p)'
  BY <1>1, <1>2, <1>3, <1>4, <1>5, <1>6, <1>61 DEF OwnerFits, Alive, Exits, Unwound
<1>9. \A q \in Processes \ {p} : SameProcess(q)
  BY <1>4, <1>6 DEF SameProcess
<1>10. state'[p] # "none" /\ count'[p] >= -1
  BY <1>1, <1>2, <1>6, <1>4 DEF OwnerFits, Alive
<1>. QED
  BY <1>1, <1>2, <1>4, <1>5, <1>7, <1>8, <1>9, <1>10, ExitKeeps DEF Exits

LEMMA KeepsPspRemoveProcess ==
    ASSUME PsInv, NEW t \in Threads, PspRemoveProcess(t)
    PROVE  PsInv'
<1>. PICK p : p = owner[t]
  OBVIOUS
<1>1. cpu = t /\ lock = "none" /\ pc[t] = "PspRemoveProcess" /\ Uses(p, "exit")
  BY DEF PspRemoveProcess, At
<1>2. p \in Processes /\ OwnerFits(t, p) /\ stale' = stale /\ pc[t] \in Exits /\ p # System
  BY <1>1, OwnerAlive DEF Exits, PsInv, LifeInv, SystemFits
<1>3. /\ list[p] = {} /\ count[p] = 0 /\ refs[p] = 2 /\ "ALLOCATED" \in flags[p]
  BY <1>1, <1>2 DEF OwnerFits
<1>4. /\ activeList' = activeList \ {p} /\ flags' = [flags EXCEPT ![p] = @ \ {"INSERTED"}]
      /\ pc' = [pc EXCEPT ![t] = "ObDereferenceObject"]
      /\ UNCHANGED <<state, refs, rundown, active, parent, pid, space, list, count, PidTable, pages,
                     tstate, owner, cameBy, child, cpuVars, closeVars, bug>>
  BY DEF PspRemoveProcess, Goto
<1>5. UNCHANGED <<cpu, ready, lock, exitList, drop, unwind, dead, leaked, userStack, closed, debug>>
  BY <1>4 DEF cpuVars, closeVars
<1>6. pc'[t] = "ObDereferenceObject" /\ \A q \in Processes \ {p} : flags'[q] = flags[q]
  BY <1>2, <1>4 DEF PsInv, ControlInv, Types
<1>61. "ALLOCATED" \in flags'[p]
  BY <1>2, <1>3, <1>4 DEF PsInv, ControlInv, Types
<1>7. Types'
  BY <1>2, <1>4, <1>5, CallPlaces DEF PsInv, ControlInv, Types
<1>8. OwnerFits(t, p)'
  BY <1>1, <1>2, <1>3, <1>4, <1>5, <1>6, <1>61 DEF OwnerFits, Alive, Exits, Unwound
<1>9. \A q \in Processes \ {p} : SameProcess(q)
  BY <1>4, <1>6 DEF SameProcess
<1>10. state'[p] # "none" /\ count'[p] >= -1
  BY <1>1, <1>2, <1>3, <1>4 DEF OwnerFits, Alive
<1>. QED
  BY <1>1, <1>2, <1>4, <1>5, <1>7, <1>8, <1>9, <1>10, ExitKeeps DEF Exits

LEMMA KeepsObDereferenceObject ==
    ASSUME PsInv, NEW t \in Threads, ObDereferenceObject(t)
    PROVE  PsInv'
<1>. PICK p : p = owner[t]
  OBVIOUS
<1>1. cpu = t /\ lock = "none" /\ pc[t] = "ObDereferenceObject" /\ Uses(p, "exit")
  BY DEF ObDereferenceObject, At
<1>2. p \in Processes /\ OwnerFits(t, p) /\ stale' = stale /\ pc[t] \in Exits /\ p # System
  BY <1>1, OwnerAlive DEF Exits, PsInv, LifeInv, SystemFits
<1>3. /\ list[p] = {} /\ count[p] = 0 /\ refs[p] = 2 /\ "ALLOCATED" \in flags[p]
  BY <1>1, <1>2 DEF OwnerFits
<1>4. /\ refs' = [refs EXCEPT ![p] = @ - 1] /\ pc' = [pc EXCEPT ![t] = "PsExitThread"]
      /\ UNCHANGED <<state, rundown, active, flags, parent, pid, space, list, count, tableVars,
                     tstate, owner, cameBy, child, cpuVars, closeVars, bug>>
  BY <1>3 DEF ObDereferenceObject, Checked, Dereference, Goto
<1>5. UNCHANGED <<PidTable, activeList, pages, cpu, ready, lock, exitList, drop, unwind, dead, leaked,
                  userStack, closed, debug>>
  BY <1>4 DEF tableVars, cpuVars, closeVars
<1>6. refs'[p] = 1 /\ pc'[t] = "PsExitThread" /\ \A q \in Processes \ {p} : refs'[q] = refs[q]
  BY <1>2, <1>3, <1>4 DEF PsInv, ControlInv, Types
<1>7. Types'
  <2>1. refs' \in [Processes -> Nat]
    BY <1>2, <1>4, <1>6 DEF PsInv, ControlInv, Types
  <2>. QED
    BY <1>2, <1>4, <1>5, <2>1, CallPlaces DEF PsInv, ControlInv, Types
<1>8. OwnerFits(t, p)'
  BY <1>1, <1>2, <1>3, <1>4, <1>5, <1>6 DEF OwnerFits, Alive, Exits, Unwound
<1>9. \A q \in Processes \ {p} : SameProcess(q)
  BY <1>4, <1>6 DEF SameProcess
<1>10. state'[p] # "none" /\ count'[p] >= -1
  BY <1>1, <1>2, <1>3, <1>4 DEF OwnerFits, Alive
<1>. QED
  BY <1>1, <1>2, <1>4, <1>5, <1>7, <1>8, <1>9, <1>10, ExitKeeps DEF Exits

-----------------------------------------------------------------------------
(* Steps of a fork.                                                         *)

\* The child of the current thread, while it is built before its thread is there.
LEMMA ChildAlone ==
    ASSUME PsInv, NEW t \in Threads, cpu = t, pc[t] \in Building \ {"CountThread"}
    PROVE  /\ child[t] \in Processes /\ Builds(t, child[t]) /\ BuildFits(t, child[t])
           /\ Alive(child[t]) /\ child[t] # System /\ owner[t] # child[t]
           /\ \A u \in Threads : owner[u] # child[t]
           /\ \A u \in Threads \ {t} : ~Builds(u, child[t])
<1>1. child[t] \in Processes /\ Builds(t, child[t])
  BY CurrentThread DEF PsInv, Builds
<1>2. BuildFits(t, child[t])
  BY <1>1 DEF PsInv, LifeInv
<1>. QED
  BY <1>1, <1>2 DEF BuildFits

\* The creator builds on, and nothing but its child changes.
LEMMA BuildKeeps ==
    ASSUME PsInv, NEW t \in Threads, cpu = t, lock = "none", NEW c, c = child[t],
           pc[t] \in Building \ {"CountThread"},
           NEW place \in Building \ {"CountThread"}, pc' = [pc EXCEPT ![t] = place], Types',
           UNCHANGED <<tstate, owner, child, cpuVars, closeVars>>,
           stale' \subseteq {"pid", "lock"}, state'[c] # "none",
           \A q \in Processes \ {c} : SameProcess(q),
           \A q \in Processes : CountFits(q)',
           \A u \in Threads, q \in Processes \ {c} : Builds(u, q) => SameCounts(q) /\ parent'[c] # q,
           BuildFits(t, c)', ParentFits(c)'
    PROVE  ControlInv' /\ LifeInv'
<1>0. UNCHANGED <<cpu, ready, lock, exitList, drop, unwind, dead, leaked, userStack, closed, debug>>
  BY DEF cpuVars, closeVars
<1>1. /\ c \in Processes /\ Builds(t, c) /\ BuildFits(t, c) /\ c # System
      /\ \A u \in Threads : owner[u] # c
      /\ \A u \in Threads \ {t} : ~Builds(u, c)
  BY ChildAlone
<1>2. /\ place \in Places \ {"gone", "CountThread"} /\ place \notin Exits /\ pc[t] \notin Exits
      /\ place \in Building
  BY CallPlaces DEF Building, Exits
<1>3. pc'[t] = place /\ \A u \in Threads \ {t} : pc'[u] = pc[u]
  BY DEF PsInv, ControlInv, Types
<1>4. ControlInv'
  BY <1>0, <1>1, <1>2, ControlCall DEF PsInv
<1>5. ASSUME NEW u \in Threads, NEW q \in Processes \ {c} PROVE SameThread(u, q)
  <2>1. CASE u = t
    BY <1>2, <1>3, <2>1 DEF SameThread, Builds
  <2>2. CASE u # t
    BY <1>3, <2>2 DEF SameThread, Builds
  <2>. QED
    BY <2>1, <2>2
<1>6. Fits(c)'
  <2>1. \A u \in Threads \ {t} : ~Builds(u, c)'
    BY <1>1, <1>3 DEF Builds
  <2>2. \A u \in Threads : BuildFits(u, c)' /\ OwnerFits(u, c)'
    BY <1>1, <2>1 DEF BuildFits, OwnerFits
  <2>3. Builds(t, c)'
    BY <1>2, <1>3 DEF Builds
  <2>4. WaitFits(c)'
    BY <2>3 DEF WaitFits
  <2>. QED
    BY <2>2, <2>4 DEF Fits
<1>7. LifeInv'
  BY <1>0, <1>1, <1>4, <1>5, <1>6, OneProcess
<1>. QED
  BY <1>4, <1>7

LEMMA KeepsMmCloneUserPtes ==
    ASSUME PsInv, NEW t \in Threads, MmCloneUserPtes(t)
    PROVE  PsInv'
<1>. PICK c : c = child[t]
  OBVIOUS
<1>1. /\ cpu = t /\ lock = "none" /\ pc[t] = "MmCloneUserPtes" /\ stale' = stale
  BY DEF MmCloneUserPtes, At
<1>0. \/ bug' \in Stops /\ UNCHANGED <<processVars, tableVars, threadVars, cpuVars, closeVars>>
      \/ /\ pages >= 1 /\ pages' = pages - 1 /\ bug' = bug
         /\ pc' = [pc EXCEPT ![t] = "PspInsertProcess"]
         /\ UNCHANGED <<processVars, PidTable, activeList, tstate, owner, cameBy, child, cpuVars,
                        closeVars>>
  BY DEF MmCloneUserPtes, Goto, Checked, MmAllocateSystemPtes, Stops
<1>2. stale' \subseteq {"pid", "lock"} /\ bug \in Stops
  BY <1>1, OwnerAlive
<1>3. SUFFICES ASSUME /\ pages >= 1 /\ pages' = pages - 1 /\ bug' = bug
                      /\ pc' = [pc EXCEPT ![t] = "PspInsertProcess"]
                      /\ UNCHANGED <<processVars, PidTable, activeList, tstate, owner, cameBy, child,
                                     cpuVars, closeVars>>
               PROVE  PsInv'
  BY <1>0, <1>2, MachineStops
<1>4. UNCHANGED <<state, refs, rundown, active, flags, parent, pid, space, list, count,
                  cpu, ready, lock, exitList, drop, unwind, dead, leaked, userStack, closed, debug>>
  BY <1>3 DEF processVars, cpuVars, closeVars
<1>5. pc[t] \in Building \ {"CountThread"} /\ "PspInsertProcess" \in Building \ {"CountThread"}
  BY <1>1 DEF Building
<1>6. /\ c \in Processes /\ Builds(t, c) /\ BuildFits(t, c) /\ Alive(c)
      /\ \A u \in Threads \ {t} : ~Builds(u, c)
  BY <1>1, <1>5, ChildAlone
<1>7. pc'[t] = "PspInsertProcess" /\ \A u \in Threads \ {t} : pc'[u] = pc[u]
  BY <1>3 DEF PsInv, ControlInv, Types
<1>8. Types'
  <2>1. pages' \in Nat
    BY <1>3 DEF PsInv, ControlInv, Types
  <2>. QED
    BY <1>1, <1>3, <1>4, <2>1, CallPlaces DEF PsInv, ControlInv, Types
<1>9. \A q \in Processes : SameProcess(q) /\ SameCounts(q)
  BY <1>4 DEF SameProcess, SameCounts
<1>10. BuildFits(t, c)'
  <2>1. \A u \in Threads \ {t} : ~Builds(u, c)'
    BY <1>3, <1>6, <1>7 DEF Builds
  <2>. QED
    BY <1>1, <1>3, <1>4, <1>6, <1>7, <2>1 DEF BuildFits, Alive, Unwound
<1>11. ParentFits(c)'
  <2>1. ParentFits(c)
    BY <1>6 DEF PsInv, LifeInv
  <2>. QED
    BY <1>4, <2>1 DEF ParentFits, Alive, Unwound
<1>12. ControlInv'
  BY <1>1, <1>3, <1>4, <1>6, <1>8, ControlCall, CallPlaces DEF PsInv
<1>13. ASSUME NEW q \in Processes PROVE CountFits(q)'
  <2>1. \A u \in Threads : pc'[u] = "CountThread" <=> pc[u] = "CountThread"
    BY <1>1, <1>7
  <2>. QED
    BY <1>1, <1>3, <1>4, <1>9, <1>12, <2>1, CountElsewhere
<1>14. LifeInv'
  <2>1. state'[c] # "none"
    BY <1>4, <1>6 DEF Alive
  <2>2. \A u \in Threads, q \in Processes \ {c} : Builds(u, q) => parent'[c] # q
    BY <1>4, <1>6 DEF PsInv, LifeInv, BuildFits
  <2>. QED
    BY <1>1, <1>2, <1>3, <1>5, <1>8, <1>9, <1>10, <1>11, <1>13, <2>1, <2>2, BuildKeeps
<1>15. ResourceInv'
  <2>1. \A q \in Processes : count'[q] >= -1
    BY <1>4 DEF PsInv, ResourceInv
  <2>2. \A u \in Threads : pc'[u] = "ObInsertHandle" <=> pc[u] = "ObInsertHandle"
    BY <1>1, <1>7
  <2>. QED
    BY <1>2, <1>3, <1>4, <2>1, <2>2, ResourceSame DEF PsInv
<1>. QED
  BY <1>12, <1>14, <1>15 DEF PsInv

LEMMA KeepsPspInsertProcess ==
    ASSUME PsInv, NEW t \in Threads, PspInsertProcess(t)
    PROVE  PsInv'
<1>. PICK c : c = child[t]
  OBVIOUS
<1>1. /\ cpu = t /\ lock = "none" /\ pc[t] = "PspInsertProcess"
      /\ state' = [state EXCEPT ![c] = "ACTIVE"] /\ activeList' = activeList \cup {c}
      /\ flags' = [flags EXCEPT ![c] = Flags] /\ pc' = [pc EXCEPT ![t] = "PspCreateThread"]
      /\ UNCHANGED <<refs, rundown, active, parent, pid, space, list, count, PidTable, pages,
                     tstate, owner, cameBy, child, cpuVars, closeVars, stale, bug>>
  BY DEF PspInsertProcess, At, Goto
<1>2. UNCHANGED <<cpu, ready, lock, exitList, drop, unwind, dead, leaked, userStack, closed, debug>>
  BY <1>1 DEF cpuVars, closeVars
<1>3. pc[t] \in Building \ {"CountThread"} /\ "PspCreateThread" \in Building \ {"CountThread"}
  BY <1>1 DEF Building
<1>4. /\ c \in Processes /\ Builds(t, c) /\ BuildFits(t, c) /\ Alive(c)
      /\ \A u \in Threads : owner[u] # c
      /\ \A u \in Threads \ {t} : ~Builds(u, c)
  BY <1>1, <1>3, ChildAlone
<1>5. /\ state'[c] = "ACTIVE" /\ flags'[c] = Flags
      /\ \A q \in Processes \ {c} : state'[q] = state[q] /\ flags'[q] = flags[q]
      /\ pc'[t] = "PspCreateThread" /\ \A u \in Threads \ {t} : pc'[u] = pc[u]
  BY <1>1, <1>4 DEF PsInv, ControlInv, Types
<1>6. Types'
  BY <1>1, <1>2, <1>4, CallPlaces DEF PsInv, ControlInv, Types
<1>7. \A q \in Processes \ {c} : SameProcess(q)
  BY <1>1, <1>5 DEF SameProcess
<1>8. \A q \in Processes : state'[q] # "none" <=> state[q] # "none"
  BY <1>4, <1>5 DEF Alive
<1>9. BuildFits(t, c)'
  <2>1. \A u \in Threads \ {t} : ~Builds(u, c)'
    BY <1>1, <1>4, <1>5 DEF Builds
  <2>2. \A q \in Processes : Alive(q)' => parent'[q] # c
    BY <1>1, <1>4, <1>8 DEF BuildFits, Alive
  <2>. QED
    BY <1>1, <1>2, <1>4, <1>5, <2>1, <2>2 DEF BuildFits, Alive, Unwound
<1>10. ParentFits(c)'
  <2>1. ParentFits(c) /\ parent[c] \in Processes \cup {None}
    BY <1>4 DEF PsInv, LifeInv, ControlInv, Types
  <2>. QED
    BY <1>1, <1>2, <1>4, <1>8, <2>1 DEF ParentFits, Alive, Unwound
<1>11. stale' \subseteq {"pid", "lock"} /\ bug' \in Stops
  BY <1>1, OwnerAlive
<1>12. ControlInv'
  BY <1>1, <1>2, <1>4, <1>6, ControlCall, CallPlaces DEF PsInv
<1>13. ASSUME NEW q \in Processes PROVE CountFits(q)'
  <2>1. \A u \in Threads : pc'[u] = "CountThread" <=> pc[u] = "CountThread"
    BY <1>1, <1>5
  <2>. QED
    BY <1>1, <1>2, <1>8, <1>12, <2>1, CountElsewhere DEF SameCounts
<1>14. ASSUME NEW u \in Threads, NEW q \in Processes \ {c}, Builds(u, q)
       PROVE  SameCounts(q) /\ parent'[c] # q
  <2>1. BuildFits(u, q)
    BY DEF PsInv, LifeInv
  <2>. QED
    BY <1>1, <1>4, <1>14, <2>1 DEF BuildFits, SameCounts
<1>15. LifeInv'
  <2>1. state'[c] # "none"
    BY <1>5
  <2>. QED
    BY <1>1, <1>3, <1>6, <1>7, <1>9, <1>10, <1>11, <1>13, <1>14, <2>1, BuildKeeps
<1>16. ResourceInv'
  <2>1. \A q \in Processes : count'[q] >= -1
    BY <1>1 DEF PsInv, ResourceInv
  <2>2. \A u \in Threads : pc'[u] = "ObInsertHandle" <=> pc[u] = "ObInsertHandle"
    BY <1>1, <1>5
  <2>. QED
    BY <1>1, <1>2, <1>8, <1>11, <2>1, <2>2, ResourceSame DEF PsInv
<1>. QED
  BY <1>12, <1>15, <1>16 DEF PsInv

\* An element more.
LEMMA OneMore ==
    ASSUME NEW S, IsFiniteSet(S), NEW e, e \notin S
    PROVE  Cardinality(S \cup {e}) = Cardinality(S) + 1 /\ Cardinality(S) \in Nat
BY FS_AddElement, FS_CardinalityType

LEMMA KeepsPspAllocateProcess ==
    ASSUME PsInv, NEW t \in Threads, PspAllocateProcess(t)
    PROVE  PsInv'
<1>. PICK c : c = child[t]
  OBVIOUS
<1>. PICK o : o = owner[t]
  OBVIOUS
<1>1. /\ cpu = t /\ lock = "none" /\ pc[t] = "PsIncProcessRundownProtect" /\ Uses(o, "rundown")
  BY DEF PspAllocateProcess, At
<1>0. \/ bug' \in Stops /\ UNCHANGED <<processVars, tableVars, threadVars, cpuVars, closeVars>>
      \/ /\ rundown' = [rundown EXCEPT ![o] = @ + 1]
         /\ parent' = [parent EXCEPT ![c] = o] /\ space' = space \cup {c}
         /\ pages >= 1 /\ pages' = pages - 1 /\ bug' = bug
         /\ pc' = [pc EXCEPT ![t] = "MmCloneUserPtes"]
         /\ UNCHANGED <<state, refs, active, flags, pid, list, count, PidTable, activeList,
                        tstate, owner, cameBy, child, cpuVars, closeVars>>
  BY DEF PspAllocateProcess, ProtectParent, PsIncProcessRundownProtect, Goto, Checked,
         MmAllocateSystemPtes, Stops
<1>5. /\ o \in Processes /\ Alive(o) /\ stale' \subseteq {"pid", "lock"} /\ bug \in Stops
      /\ stale' = stale
  BY <1>1, OwnerAlive
<1>17. SUFFICES ASSUME /\ rundown' = [rundown EXCEPT ![o] = @ + 1]
                      /\ parent' = [parent EXCEPT ![c] = o] /\ space' = space \cup {c}
                      /\ pages >= 1 /\ pages' = pages - 1 /\ bug' = bug
                      /\ pc' = [pc EXCEPT ![t] = "MmCloneUserPtes"]
                      /\ UNCHANGED <<state, refs, active, flags, pid, list, count, PidTable,
                                     activeList, tstate, owner, cameBy, child, cpuVars, closeVars>>
               PROVE  PsInv'
  BY <1>0, <1>5, MachineStops
<1>2. UNCHANGED <<cpu, ready, lock, exitList, drop, unwind, dead, leaked, userStack, closed, debug>>
  BY <1>17 DEF cpuVars, closeVars
<1>3. pc[t] \in Building \ {"CountThread"} /\ "MmCloneUserPtes" \in Building \ {"CountThread"}
  BY <1>1 DEF Building
<1>4. /\ c \in Processes /\ Builds(t, c) /\ BuildFits(t, c) /\ Alive(c) /\ o # c
      /\ \A u \in Threads : owner[u] # c
      /\ \A u \in Threads \ {t} : ~Builds(u, c)
  BY <1>1, <1>3, ChildAlone
<1>6. /\ parent'[c] = o /\ parent[c] = None
      /\ \A q \in Processes \ {c} : parent'[q] = parent[q] /\ (q \in space' <=> q \in space)
      /\ pc'[t] = "MmCloneUserPtes" /\ \A u \in Threads \ {t} : pc'[u] = pc[u]
  BY <1>17, <1>1, <1>4 DEF PsInv, ControlInv, Types, BuildFits
<1>7. /\ rundown'[o] = rundown[o] + 1 /\ \A q \in Processes \ {o} : rundown'[q] = rundown[q]
      /\ rundown' \in [Processes -> Nat]
  BY <1>17, <1>1, <1>5 DEF PsInv, ControlInv, Types
<1>8. Types'
  <2>1. pages' \in Nat
    BY <1>17 DEF PsInv, ControlInv, Types
  <2>. QED
    BY <2>1, <1>17, <1>1, <1>2, <1>4, <1>5, <1>7, CallPlaces DEF PsInv, ControlInv, Types
<1>9. \A q \in Processes \ {c} : SameProcess(q)
  BY <1>17, <1>1, <1>6 DEF SameProcess
<1>10. BuildFits(t, c)'
  <2>1. \A u \in Threads \ {t} : ~Builds(u, c)'
    BY <1>17, <1>1, <1>4, <1>6 DEF Builds
  <2>2. \A q \in Processes : Alive(q)' => parent'[q] # c
    BY <1>17, <1>1, <1>4, <1>6 DEF BuildFits, Alive
  <2>. QED
    BY <1>17, <1>1, <1>2, <1>4, <1>6, <1>7, <2>1, <2>2 DEF BuildFits, Alive, Unwound
<1>11. ParentFits(c)'
  BY <1>17, <1>1, <1>5, <1>6 DEF ParentFits, Alive
<1>12. ControlInv'
  BY <1>17, <1>1, <1>2, <1>4, <1>8, ControlCall, CallPlaces DEF PsInv
<1>13. ASSUME NEW q \in Processes PROVE CountFits(q)'
  <2>1. \A u \in Threads : pc'[u] = "CountThread" <=> pc[u] = "CountThread"
    BY <1>17, <1>1, <1>6
  <2>2. CASE q # o
    <3>1. \A r \in Processes : (state'[r] # "none" /\ parent'[r] = q)
                                   <=> (state[r] # "none" /\ parent[r] = q)
      BY <1>17, <1>1, <1>6, <2>2, ConstantsFit
    <3>. QED
      BY <1>17, <1>1, <1>2, <1>7, <1>12, <2>1, <2>2, <3>1, CountElsewhere DEF SameCounts
  <2>3. CASE q = o
    <3>1. Uncounted(o)' = Uncounted(o) /\ Counted(o)' = Counted(o)
      BY <1>17, <1>1, <2>1, UncountedSame, CountedSame
    <3>2. \A i \in 1 .. Len(unwind) : FALSE
      BY <1>17, <1>1, NoClose DEF PsInv
    <3>3. Children(o)' = Children(o) \cup {c} /\ c \notin Children(o)
      <4>1. c \notin Children(o)
        BY <1>5, <1>6, ConstantsFit DEF Children
      <4>2. Children(o) = {r \in Processes : Alive(r) /\ parent[r] = o}
        BY <3>2 DEF Children
      <4>3. Children(o)' = {r \in Processes : Alive(r)' /\ parent'[r] = o}
        BY <1>2, <3>2 DEF Children
      <4>4. \A r \in Processes \ {c} : Alive(r)' /\ parent'[r] = o <=> Alive(r) /\ parent[r] = o
        BY <1>17, <1>1, <1>6 DEF Alive
      <4>5. Alive(c)' /\ parent'[c] = o
        BY <1>17, <1>1, <1>4, <1>6 DEF Alive
      <4>. QED
        BY <1>4, <4>1, <4>2, <4>3, <4>4, <4>5
    <3>4. Cardinality(Children(o)') = Cardinality(Children(o)) + 1
      BY <3>3, FiniteCounts, OneMore
    <3>5. CountFits(o) /\ Dropping(o)' = Dropping(o) /\ Dropping(o) = 0
      <4>1. CountFits(o)
        BY <1>5 DEF PsInv, LifeInv
      <4>2. Dropping(o) = 0
        BY <1>17, <1>1, <1>5, NoClose, ConstantsFit DEF PsInv, Dropping
      <4>. QED
        BY <1>2, <4>1, <4>2 DEF Dropping
    <3>6. /\ rundown[o] \in Nat /\ Cardinality(Uncounted(o)) \in Nat /\ Cardinality(Counted(o)) \in Nat
          /\ Cardinality(Children(o)) \in Nat
      BY <1>5, FiniteCounts DEF PsInv, ControlInv, Types
    <3>7. /\ rundown[o] + Cardinality(Uncounted(o)) = Cardinality(Counted(o)) + Cardinality(Children(o)) + 0
          /\ active[o] + Cardinality(Uncounted(o)) = Cardinality(Counted(o))
      BY <1>5, <3>5 DEF CountFits
    <3>8. /\ rundown'[o] + Cardinality(Uncounted(o)')
               = Cardinality(Counted(o)') + Cardinality(Children(o)') + 0
          /\ active'[o] + Cardinality(Uncounted(o)') = Cardinality(Counted(o)')
      BY <1>17, <1>1, <1>7, <3>1, <3>4, <3>6, <3>7
    <3>. QED
      BY <2>3, <3>5, <3>8 DEF CountFits
  <2>. QED
    BY <2>2, <2>3
<1>14. ASSUME NEW u \in Threads, NEW q \in Processes \ {c}, Builds(u, q)
       PROVE  SameCounts(q) /\ parent'[c] # q
  <2>1. BuildFits(u, q) /\ pc[u] # "CountThread"
    BY <1>17, <1>1, CurrentThread DEF PsInv, LifeInv
  <2>2. q # o
    BY <1>14, <2>1 DEF BuildFits
  <2>. QED
    BY <1>17, <1>1, <1>6, <1>7, <2>2 DEF SameCounts
<1>15. LifeInv'
  <2>1. state'[c] # "none"
    BY <1>17, <1>1, <1>4 DEF Alive
  <2>. QED
    BY <1>17, <1>1, <1>3, <1>5, <1>8, <1>9, <1>10, <1>11, <1>13, <1>14, <2>1, BuildKeeps
<1>16. ResourceInv'
  <2>1. \A q \in Processes : count'[q] >= -1
    BY <1>17, <1>1 DEF PsInv, ResourceInv
  <2>2. \A u \in Threads : pc'[u] = "ObInsertHandle" <=> pc[u] = "ObInsertHandle"
    BY <1>17, <1>1, <1>6
  <2>. QED
    BY <1>17, <1>1, <1>2, <1>5, <2>1, <2>2, ResourceSame DEF PsInv
<1>. QED
  BY <1>12, <1>15, <1>16 DEF PsInv

\* Free memory: nothing of the last process that had it is left.
LEMMA FreeMemory ==
    ASSUME PsInv, lock # "ExitThreadLock", NEW p \in Processes, state[p] = "none"
    PROVE  /\ p # System /\ p # None
           /\ \A u \in Threads : owner[u] # p /\ ~Builds(u, p)
           /\ \A q \in Processes : state[q] # "none" => parent[q] # p
           /\ \A i \in Slots : PidTable[i] # p
<1>1. p # System /\ p # None
  BY ConstantsFit DEF PsInv, LifeInv, SystemFits, Alive
<1>2. ASSUME NEW u \in Threads PROVE owner[u] # p /\ ~Builds(u, p)
  <2>1. OwnerFits(u, p) /\ BuildFits(u, p)
    BY DEF PsInv, LifeInv
  <2>. QED
    BY <1>1, <2>1 DEF OwnerFits, BuildFits, Alive
<1>3. ASSUME NEW q \in Processes, state[q] # "none" PROVE parent[q] # p
  <2>1. ParentFits(q) /\ ~Unwound(q)
    BY NoClose DEF PsInv, LifeInv
  <2>. QED
    BY <1>1, <1>3, <2>1 DEF ParentFits, Alive
<1>4. \A i \in Slots : PidTable[i] # p
  BY <1>1 DEF PsInv, ResourceInv, PidsExact, Alive
<1>. QED
  BY <1>1, <1>2, <1>3, <1>4

LEMMA KeepsObCreateObject ==
    ASSUME PsInv, NEW t \in Threads, ObCreateObject(t)
    PROVE  PsInv'
<1>. PICK p : p = FreeProcess
  OBVIOUS
<1>1. /\ cpu = t /\ lock = "none" /\ pc[t] = "ObCreateObject"
      /\ state' = [state EXCEPT ![p] = "CREATION"] /\ refs' = [refs EXCEPT ![p] = 1]
      /\ rundown' = [rundown EXCEPT ![p] = 0] /\ active' = [active EXCEPT ![p] = 0]
      /\ flags' = [flags EXCEPT ![p] = {}] /\ parent' = [parent EXCEPT ![p] = None]
      /\ pid' = [pid EXCEPT ![p] = 0] /\ list' = [list EXCEPT ![p] = {}]
      /\ count' = [count EXCEPT ![p] = 0] /\ child' = [child EXCEPT ![t] = p]
      /\ pc' = [pc EXCEPT ![t] = "ObInsertHandle"]
      /\ UNCHANGED <<space, tableVars, tstate, owner, cameBy, cpuVars, closeVars, stale, bug>>
  BY DEF ObCreateObject, At, Goto, LIST_INIT
<1>2. UNCHANGED <<PidTable, activeList, pages, cpu, ready, lock, exitList, drop, unwind, dead, leaked,
                  userStack, closed, debug>>
  BY <1>1 DEF tableVars, cpuVars, closeVars
<1>3. p \in Processes /\ state[p] = "none"
  BY DEF ObCreateObject, FreeProcess
<1>4. /\ p # System /\ p # None
      /\ \A u \in Threads : owner[u] # p /\ ~Builds(u, p)
      /\ \A q \in Processes : state[q] # "none" => parent[q] # p
      /\ \A i \in Slots : PidTable[i] # p
  BY <1>1, <1>3, FreeMemory
<1>5. /\ pc'[t] = "ObInsertHandle" /\ child'[t] = p
      /\ \A u \in Threads \ {t} : pc'[u] = pc[u] /\ child'[u] = child[u]
  BY <1>1 DEF PsInv, ControlInv, Types
<1>6. /\ state'[p] = "CREATION" /\ refs'[p] = 1 /\ rundown'[p] = 0 /\ active'[p] = 0
      /\ parent'[p] = None /\ list'[p] = {} /\ count'[p] = 0
  BY <1>1, <1>3 DEF PsInv, ControlInv, Types
<1>7. \A q \in Processes \ {p} : SameProcess(q) /\ SameCounts(q) /\ pid'[q] = pid[q]
  BY <1>1, <1>3 DEF PsInv, ControlInv, Types, SameProcess, SameCounts
<1>8. Types'
  <2>1. /\ state' \in [Processes -> {"none", "CREATION", "ACTIVE", "TERMINATED"}]
        /\ refs' \in [Processes -> Nat] /\ rundown' \in [Processes -> Nat]
        /\ active' \in [Processes -> Nat] /\ count' \in [Processes -> Int]
    BY <1>1, <1>3 DEF PsInv, ControlInv, Types
  <2>2. /\ flags' \in [Processes -> SUBSET Flags] /\ list' \in [Processes -> SUBSET Threads]
        /\ parent' \in [Processes -> Processes \cup {None}] /\ pid' \in [Processes -> Slots]
        /\ child' \in [Threads -> Processes \cup {None}] /\ pc' \in [Threads -> Places]
    BY <1>1, <1>3, ConstantsFit, CallPlaces DEF PsInv, ControlInv, Types
  <2>. QED
    BY <1>1, <1>2, <2>1, <2>2 DEF PsInv, ControlInv, Types
<1>9. ControlInv'
  BY <1>1, <1>2, <1>3, <1>5, <1>8, ControlCall, CallPlaces DEF PsInv
<1>10. "ObInsertHandle" \in Building /\ "ObInsertHandle" \notin Exits /\ pc[t] \notin Building \cup Exits
       /\ "CountThread" \in Building
  BY <1>1, CallPlaces DEF Building, Exits
<1>11. ASSUME NEW u \in Threads, NEW q \in Processes \ {p} PROVE SameThread(u, q)
  BY <1>1, <1>5, <1>10 DEF SameThread, Builds
<1>12. \A q \in Processes : ~Unwound(q)' /\ drop' = None
  BY <1>1, <1>2, <1>9, NoCloseNext
<1>13. \A q \in Processes : state'[q] # "none" => parent'[q] # p
  BY <1>4, <1>6, <1>7 DEF SameProcess
<1>14. Fits(p)'
  <2>1. \A u \in Threads \ {t} : ~Builds(u, p)'
    BY <1>4, <1>5 DEF Builds
  <2>2. Builds(t, p)' /\ \A u \in Threads : owner'[u] # p
    BY <1>1, <1>4, <1>5, <1>10 DEF Builds
  <2>3. BuildFits(t, p)'
    BY <1>3, <1>4, <1>5, <1>6, <1>12, <1>13, <2>1, <2>2 DEF BuildFits, Alive
  <2>4. \A u \in Threads : BuildFits(u, p)' /\ OwnerFits(u, p)'
    BY <2>1, <2>2, <2>3 DEF BuildFits, OwnerFits
  <2>5. WaitFits(p)' /\ ParentFits(p)'
    BY <1>6, <2>2 DEF WaitFits, ParentFits
  <2>. QED
    BY <2>4, <2>5 DEF Fits
<1>15. ASSUME NEW q \in Processes PROVE CountFits(q)'
  <2>1. CASE q # p
    <3>1. \A u \in Threads : (child'[u] = q /\ pc'[u] = "CountThread")
                                 <=> (child[u] = q /\ pc[u] = "CountThread")
      BY <1>1, <1>5
    <3>2. \A r \in Processes : (state'[r] # "none" /\ parent'[r] = q)
                                   <=> (state[r] # "none" /\ parent[r] = q)
      BY <1>3, <1>6, <1>7, ConstantsFit DEF SameProcess
    <3>. QED
      BY <1>1, <1>2, <1>7, <1>9, <2>1, <3>1, <3>2, CountElsewhere DEF SameProcess
  <2>2. CASE q = p
    <3>1. Uncounted(p)' = {}
      BY <1>1, <1>5, CurrentThread DEF Uncounted, PsInv
    <3>2. Counted(p)' = {} /\ Children(p)' = {}
      BY <1>1, <1>4, <1>13 DEF Counted, Children, Alive
    <3>3. Dropping(p)' = 0
      BY <1>4, <1>12 DEF Dropping
    <3>. QED
      BY <1>6, <2>2, <3>1, <3>2, <3>3, FS_EmptySet DEF CountFits
  <2>. QED
    BY <2>1, <2>2
<1>16. stale' \subseteq {"pid", "lock"} /\ bug' \in Stops
  BY <1>1, OwnerAlive
<1>17. LifeInv'
  <2>1. \A u \in Threads, q \in Processes \ {p} : Builds(u, q) => SameCounts(q) /\ parent'[p] # q
    BY <1>6, <1>7, ConstantsFit
  <2>2. state'[p] # "none"
    BY <1>6
  <2>. QED
    BY <1>1, <1>2, <1>3, <1>4, <1>7, <1>9, <1>11, <1>14, <1>15, <1>16, <2>1, <2>2, OneProcess
<1>18. ResourceInv'
  <2>1. KnownStop'
    BY <1>16 DEF KnownStop, Stops
  <2>2. \A q \in Processes : count'[q] >= -1
    BY <1>6, <1>7 DEF PsInv, ResourceInv, SameProcess
  <2>3. \A u \in Threads \ {t} : pc'[u] = "ObInsertHandle" <=> pc[u] = "ObInsertHandle"
    BY <1>5
  <2>4. PidsExact'
    <3>1. ASSUME NEW i \in Slots, PidTable'[i] # None
          PROVE  state'[PidTable'[i]] # "none" /\ pid'[PidTable'[i]] = i
      <4>1. Alive(PidTable[i]) /\ pid[PidTable[i]] = i /\ PidTable[i] \in Processes \ {p}
        BY <1>2, <1>4, <3>1 DEF PsInv, ResourceInv, PidsExact, ControlInv, Types
      <4>. QED
        BY <1>2, <1>7, <4>1 DEF SameProcess, Alive
    <3>2. ASSUME NEW q \in Processes, Alive(q)'
          PROVE  \/ PidTable'[pid'[q]] = q
                 \/ \E u \in Threads : child'[u] = q /\ pc'[u] = "ObInsertHandle"
      <4>1. CASE q = p
        BY <1>5, <4>1
      <4>2. CASE q # p
        <5>1. Alive(q)
          BY <1>7, <3>2, <4>2 DEF Alive, SameProcess
        <5>2. \/ PidTable[pid[q]] = q
              \/ \E u \in Threads : child[u] = q /\ pc[u] = "ObInsertHandle"
          BY <5>1 DEF PsInv, ResourceInv, PidsExact
        <5>3. \A u \in Threads : pc[u] = "ObInsertHandle" => u # t
          BY <1>1
        <5>. QED
          BY <1>2, <1>5, <1>7, <4>2, <5>2, <5>3
      <4>. QED
        BY <4>1, <4>2
    <3>. QED
      BY <3>1, <3>2 DEF PidsExact, Alive
  <2>6. \A u \in Threads : pc'[u] = "ObInsertHandle" => \A i \in Slots : PidTable'[i] # child'[u]
    <3>1. \A u \in Threads : pc[u] = "ObInsertHandle" => \A i \in Slots : PidTable[i] # child[u]
      BY DEF PsInv, ResourceInv
    <3>. QED
      BY <1>2, <1>4, <1>5, <3>1
  <2>. QED
    BY <2>1, <2>2, <2>4, <2>6 DEF ResourceInv
<1>. QED
  BY <1>9, <1>17, <1>18 DEF PsInv

LEMMA Products ==
    ASSUME NEW a \in Nat, NEW b \in Nat
    PROVE  a * b \in Nat /\ a * (b + 1) = a * b + a
OBVIOUS

LEMMA KeepsObInsertHandle ==
    ASSUME PsInv, NEW t \in Threads, ObInsertHandle(t)
    PROVE  PsInv'
<1>. PICK c : c = child[t]
  OBVIOUS
<1>1. cpu = t /\ lock = "none" /\ pc[t] = "ObInsertHandle" /\ stale' = stale
  BY DEF ObInsertHandle, At
<1>2. stale' \subseteq {"pid", "lock"} /\ bug \in Stops
  BY <1>1, OwnerAlive
<1>3. \/ bug' \in Stops /\ UNCHANGED <<processVars, tableVars, threadVars, cpuVars, closeVars>>
      \/ /\ pages >= 1 /\ pages' = pages - 1 /\ bug' = bug
         /\ \E i \in Slots : /\ PidTable[i] = None /\ PidTable' = [PidTable EXCEPT ![i] = c]
                              /\ pid' = [pid EXCEPT ![c] = i]
         /\ pc' = [pc EXCEPT ![t] = "PsIncProcessRundownProtect"]
         /\ UNCHANGED <<state, refs, rundown, active, flags, parent, space, list, count,
                        activeList, tstate, owner, cameBy, child, cpuVars, closeVars>>
  BY DEF ObInsertHandle, Checked, Goto, FreeSlot, MmAllocateSystemPtes, Stops
<1>4. CASE bug' \in Stops /\ UNCHANGED <<processVars, tableVars, threadVars, cpuVars, closeVars>>
  BY <1>2, <1>4, MachineStops
<1>5. CASE /\ pages >= 1 /\ pages' = pages - 1 /\ bug' = bug
           /\ \E i \in Slots : /\ PidTable[i] = None /\ PidTable' = [PidTable EXCEPT ![i] = c]
                                /\ pid' = [pid EXCEPT ![c] = i]
           /\ pc' = [pc EXCEPT ![t] = "PsIncProcessRundownProtect"]
           /\ UNCHANGED <<state, refs, rundown, active, flags, parent, space, list, count,
                          activeList, tstate, owner, cameBy, child, cpuVars, closeVars>>
  <2>1. PICK i \in Slots : /\ PidTable[i] = None /\ PidTable' = [PidTable EXCEPT ![i] = c]
                           /\ pid' = [pid EXCEPT ![c] = i]
    BY <1>5
  <2>2. /\ pages >= 1 /\ pages' = pages - 1 /\ bug' = bug
        /\ pc' = [pc EXCEPT ![t] = "PsIncProcessRundownProtect"]
        /\ UNCHANGED <<state, refs, rundown, active, flags, parent, space, list, count,
                       activeList, tstate, owner, cameBy, child, cpuVars, closeVars>>
    BY <1>5
  <2>3. UNCHANGED <<cpu, ready, lock, exitList, drop, unwind, dead, leaked, userStack, closed, debug>>
    BY <2>2 DEF cpuVars, closeVars
  <2>4. /\ pc[t] \in Building \ {"CountThread"}
        /\ "PsIncProcessRundownProtect" \in Building \ {"CountThread"}
    BY <1>1 DEF Building
  <2>5. /\ c \in Processes /\ Builds(t, c) /\ BuildFits(t, c) /\ Alive(c) /\ c # System
        /\ \A u \in Threads : owner[u] # c
        /\ \A u \in Threads \ {t} : ~Builds(u, c)
    BY <1>1, <2>4, ChildAlone
  <2>6. /\ pc'[t] = "PsIncProcessRundownProtect" /\ \A u \in Threads \ {t} : pc'[u] = pc[u]
        /\ PidTable'[i] = c /\ \A j \in Slots \ {i} : PidTable'[j] = PidTable[j]
        /\ pid'[c] = i /\ \A q \in Processes \ {c} : pid'[q] = pid[q]
    BY <2>1, <2>2, <2>5 DEF PsInv, ControlInv, Types
  <2>7. Types'
    <3>1. PidTable' \in [Slots -> Processes \cup {None}] /\ pid' \in [Processes -> Slots]
      BY <2>1, <2>5 DEF PsInv, ControlInv, Types
    <3>2. pages' \in Nat
      BY <2>2 DEF PsInv, ControlInv, Types
    <3>. QED
      BY <1>1, <2>2, <2>3, <3>1, <3>2, CallPlaces DEF PsInv, ControlInv, Types
  <2>8. \A q \in Processes : SameProcess(q) /\ SameCounts(q)
    BY <2>2 DEF SameProcess, SameCounts
  <2>9. BuildFits(t, c)'
    <3>1. \A u \in Threads \ {t} : ~Builds(u, c)'
      BY <2>2, <2>5, <2>6 DEF Builds
    <3>2. \A q \in Processes : Alive(q)' => parent'[q] # c
      BY <2>2, <2>5 DEF BuildFits, Alive
    <3>. QED
      BY <1>1, <2>2, <2>3, <2>5, <2>6, <3>1, <3>2 DEF BuildFits, Alive, Unwound
  <2>10. ParentFits(c)'
    BY <1>1, <2>2, <2>5 DEF ParentFits, BuildFits
  <2>11. ControlInv'
    BY <1>1, <2>2, <2>3, <2>5, <2>7, ControlCall, CallPlaces DEF PsInv
  <2>12. ASSUME NEW q \in Processes PROVE CountFits(q)'
    <3>1. \A u \in Threads : pc'[u] = "CountThread" <=> pc[u] = "CountThread"
      BY <1>1, <2>6
    <3>. QED
      BY <1>1, <2>2, <2>3, <2>8, <2>11, <3>1, CountElsewhere
  <2>13. LifeInv'
    <3>1. state'[c] # "none"
      BY <2>2, <2>5 DEF Alive
    <3>2. \A q \in Processes : parent'[c] # q
      BY <1>1, <2>2, <2>5, ConstantsFit DEF BuildFits
    <3>. QED
      BY <1>1, <1>2, <2>2, <2>4, <2>7, <2>8, <2>9, <2>10, <2>12, <3>1, <3>2, BuildKeeps
  <2>14. ResourceInv'
    <3>0. \A j \in Slots : PidTable[j] # c
      BY <1>1 DEF PsInv, ResourceInv
    <3>1. KnownStop' /\ \A q \in Processes : count'[q] >= -1
      BY <2>2 DEF PsInv, ResourceInv, KnownStop
    <3>2. \A u \in Threads \ {t} : pc[u] = "ObInsertHandle" => child[u] # c
      BY <2>5 DEF Builds, Building
    <3>3. PidsExact'
      <4>1. ASSUME NEW j \in Slots, PidTable'[j] # None
            PROVE  state'[PidTable'[j]] # "none" /\ pid'[PidTable'[j]] = j
        <5>1. CASE j = i
          BY <2>2, <2>5, <2>6, <5>1 DEF Alive
        <5>2. CASE j # i
          <6>1. Alive(PidTable[j]) /\ pid[PidTable[j]] = j /\ PidTable[j] \in Processes \ {c}
            <7>1. PidTable[j] # None /\ PidTable[j] \in Processes \cup {None} /\ PidTable[j] # c
              BY <2>6, <3>0, <4>1, <5>2 DEF PsInv, ControlInv, Types
            <7>2. Alive(PidTable[j]) /\ pid[PidTable[j]] = j
              BY <7>1 DEF PsInv, ResourceInv, PidsExact
            <7>. QED
              BY <7>1, <7>2
          <6>. QED
            BY <2>2, <2>6, <5>2, <6>1 DEF Alive
        <5>. QED
          BY <5>1, <5>2
      <4>2. ASSUME NEW q \in Processes, Alive(q)'
            PROVE  \/ PidTable'[pid'[q]] = q
                   \/ \E u \in Threads : child'[u] = q /\ pc'[u] = "ObInsertHandle"
        <5>1. CASE q = c
          BY <2>6, <5>1
        <5>2. CASE q # c
          <6>1. \/ PidTable[pid[q]] = q
                \/ \E u \in Threads : child[u] = q /\ pc[u] = "ObInsertHandle"
            BY <2>2, <4>2 DEF PsInv, ResourceInv, PidsExact, Alive
          <6>2. CASE PidTable[pid[q]] = q
            <7>1. pid[q] \in Slots /\ pid[q] # i
              BY <2>1, <6>2, ConstantsFit DEF PsInv, ControlInv, Types
            <7>. QED
              BY <2>6, <5>2, <6>2, <7>1
          <6>3. CASE \E u \in Threads : child[u] = q /\ pc[u] = "ObInsertHandle"
            BY <2>2, <2>6, <5>2, <6>3
          <6>. QED
            BY <6>1, <6>2, <6>3
        <5>. QED
          BY <5>1, <5>2
      <4>. QED
        BY <4>1, <4>2 DEF PidsExact, Alive
    <3>5. \A u \in Threads : pc'[u] = "ObInsertHandle" => \A j \in Slots : PidTable'[j] # child'[u]
      <4>1. \A u \in Threads : pc[u] = "ObInsertHandle" => \A j \in Slots : PidTable[j] # child[u]
        BY DEF PsInv, ResourceInv
      <4>. QED
        BY <2>2, <2>6, <3>2, <4>1
    <3>. QED
      BY <3>1, <3>3, <3>5 DEF ResourceInv
  <2>. QED
    BY <2>11, <2>13, <2>14 DEF PsInv
<1>. QED
  BY <1>3, <1>4, <1>5

\* A new thread becomes ready.
LEMMA ControlNewThread ==
    ASSUME ControlInv, NEW t \in Threads, cpu = t, lock = "none", NEW n \in Threads, tstate[n] = "none",
           pc[t] \in Building, NEW c \in Processes, child[t] = c, Types',
           owner' = [owner EXCEPT ![n] = c], tstate' = [tstate EXCEPT ![n] = "READY"],
           ready' = Append(ready, n), pc' = [pc EXCEPT ![n] = "run", ![t] = "CountThread"],
           lock' = "ProcessLock", UNCHANGED <<child, cpu, exitList, drop, unwind, dead>>
    PROVE  ControlInv'
<1>1. tstate[t] = "RUNNING" /\ n # t /\ Running(n) /\ Running(t)
  BY CurrentThread DEF ControlInv
<1>2. pc[n] = "run" /\ owner[n] = None
  BY <1>1 DEF Running
<1>3. /\ tstate'[n] = "READY" /\ owner'[n] = c /\ pc'[n] = "run" /\ pc'[t] = "CountThread"
      /\ \A u \in Threads \ {n} : tstate'[u] = tstate[u] /\ owner'[u] = owner[u]
      /\ \A u \in Threads \ {n, t} : pc'[u] = pc[u]
  BY <1>1 DEF ControlInv, Types
<1>4. ready \in Seq(Threads) /\ ListOf(ready, "READY") /\ exitList \in Seq(Threads)
      /\ ListOf(exitList, "TERMINATED")
  BY DEF ControlInv, Types
<1>5. \A i \in 1 .. Len(ready) : ready[i] \in Threads /\ ready[i] # n /\ tstate'[ready[i]] = "READY"
  BY <1>3, <1>4 DEF ListOf
<1>6. /\ ready' \in Seq(Threads)
      /\ \A i \in 1 .. Len(ready') : ready'[i] = n \/ \E j \in 1 .. Len(ready) : ready'[i] = ready[j]
      /\ \A i, j \in 1 .. Len(ready') : ready'[i] = ready'[j] => i = j
  BY <1>4, <1>5, ListAppend DEF ListOf
<1>7. ListOf(ready, "READY")'
  <2>1. \A i \in 1 .. Len(ready') : tstate'[ready'[i]] = "READY"
    BY <1>3, <1>5, <1>6
  <2>. QED
    BY <1>6, <2>1 DEF ListOf
<1>8. ListOf(exitList, "TERMINATED")'
  <2>1. \A i \in 1 .. Len(exitList) : exitList[i] \in Threads /\ exitList[i] # n
    BY <1>4 DEF ListOf
  <2>. QED
    BY <1>3, <1>4, <2>1 DEF ListOf
<1>9. ASSUME NEW u \in Threads PROVE Running(u)'
  <2>1. Running(u) /\ \A v \in Threads \ {t} : pc[v] # "CountThread"
    BY CurrentThread DEF ControlInv
  <2>2. CASE u = n
    BY <1>1, <1>3, <2>2, ConstantsFit, CallPlaces DEF Running
  <2>3. CASE u = t
    BY <1>1, <1>3, <2>1, <2>3 DEF Running, Building
  <2>4. CASE u # n /\ u # t
    BY <1>3, <2>1, <2>4 DEF Running
  <2>. QED
    BY <2>2, <2>3, <2>4
<1>10. drop' = None /\ unwind' = <<>> /\ dead' = {}
  BY DEF ControlInv
<1>. QED
  BY <1>3, <1>7, <1>8, <1>9, <1>10 DEF ControlInv

LEMMA KeepsPspCreateThread ==
    ASSUME PsInv, NEW t \in Threads, PspCreateThread(t)
    PROVE  PsInv'
<1>. PICK c : c = child[t]
  OBVIOUS
<1>. PICK n : n = FreeThread
  OBVIOUS
<1>1. cpu = t /\ lock = "none" /\ pc[t] = "PspCreateThread" /\ stale' = stale
  BY DEF PspCreateThread, At
<1>2. stale' \subseteq {"pid", "lock"} /\ bug \in Stops
  BY <1>1, OwnerAlive
<1>3. pc[t] \in Building \ {"CountThread"} /\ pc[t] \notin Exits
  BY <1>1 DEF Building, Exits
<1>4. /\ c \in Processes /\ Builds(t, c) /\ BuildFits(t, c) /\ Alive(c) /\ c # System
      /\ \A u \in Threads : owner[u] # c
      /\ \A u \in Threads \ {t} : ~Builds(u, c)
  BY <1>1, <1>3, ChildAlone
<1>5. /\ list[c] = {} /\ count[c] = 0 /\ refs[c] = 1 /\ rundown[c] = 0 /\ active[c] = 0
      /\ flags[c] = Flags /\ state[c] = "ACTIVE" /\ c \in space
      /\ \A q \in Processes : Alive(q) => parent[q] # c
  BY <1>1, <1>4 DEF BuildFits
<1>6. \/ bug' \in Stops /\ UNCHANGED <<processVars, tableVars, threadVars, cpuVars, closeVars>>
      \/ /\ owner' = [owner EXCEPT ![n] = c] /\ cameBy' = [cameBy EXCEPT ![n] = "start"]
         /\ pages >= StackPages /\ pages' = pages - StackPages
         /\ userStack' = (userStack \/ owner[t] = System)
         /\ list' = [list EXCEPT ![c] = @ \cup {n}] /\ count' = [count EXCEPT ![c] = @ + 1]
         /\ tstate' = [tstate EXCEPT ![n] = "READY"] /\ ready' = Append(ready, n)
         /\ pc' = [pc EXCEPT ![n] = "run", ![t] = "CountThread"] /\ lock' = "ProcessLock" /\ bug' = bug
         /\ UNCHANGED <<state, refs, rundown, active, flags, parent, pid, space, PidTable, activeList,
                        child, cpu, exitList, drop, unwind, dead, leaked, closed, debug>>
  <2>1. PICK frames \in BOOLEAN :
          Checked(/\ MmAllocateSystemPtes(StackPages, frames)
                  /\ list[c] = {} => count[c] = 0,
                  IF MmAllocateSystemPtes(StackPages, frames) THEN "LIST_INSERT_HEAD" ELSE "no stack",
             /\ \E m \in {n} :
                   /\ PspAllocateThread(t, m)
                   /\ PspInsertThread(c, m)
                   /\ tstate' = [tstate EXCEPT ![m] = "READY"]
                   /\ ready' = Append(ready, m)
                   /\ pc' = [pc EXCEPT ![m] = "run", ![t] = "CountThread"]
             /\ lock' = CreateLock
             /\ UNCHANGED <<state, refs, rundown, active, flags, parent, pid, space, PidTable,
                            activeList, child, cpu, exitList, drop, unwind, dead, leaked, closed, debug>>)
    BY DEF PspCreateThread
  <2>2. CASE MmAllocateSystemPtes(StackPages, frames)
    BY <1>5, <2>1, <2>2
       DEF Checked, PspAllocateThread, PspInsertThread, CreateLock, MmAllocateSystemPtes
  <2>3. CASE ~MmAllocateSystemPtes(StackPages, frames)
    BY <2>1, <2>3 DEF Checked, Stops
  <2>. QED
    BY <2>2, <2>3
<1>7. CASE bug' \in Stops /\ UNCHANGED <<processVars, tableVars, threadVars, cpuVars, closeVars>>
  BY <1>2, <1>7, MachineStops
<1>8. CASE /\ owner' = [owner EXCEPT ![n] = c] /\ cameBy' = [cameBy EXCEPT ![n] = "start"]
           /\ pages >= StackPages /\ pages' = pages - StackPages
           /\ userStack' = (userStack \/ owner[t] = System)
           /\ list' = [list EXCEPT ![c] = @ \cup {n}] /\ count' = [count EXCEPT ![c] = @ + 1]
           /\ tstate' = [tstate EXCEPT ![n] = "READY"] /\ ready' = Append(ready, n)
           /\ pc' = [pc EXCEPT ![n] = "run", ![t] = "CountThread"] /\ lock' = "ProcessLock"
           /\ bug' = bug
           /\ UNCHANGED <<state, refs, rundown, active, flags, parent, pid, space, PidTable, activeList,
                          child, cpu, exitList, drop, unwind, dead, leaked, closed, debug>>
  <2>1. /\ owner' = [owner EXCEPT ![n] = c] /\ cameBy' = [cameBy EXCEPT ![n] = "start"]
        /\ pages >= StackPages /\ pages' = pages - StackPages
        /\ list' = [list EXCEPT ![c] = @ \cup {n}] /\ count' = [count EXCEPT ![c] = @ + 1]
        /\ tstate' = [tstate EXCEPT ![n] = "READY"] /\ ready' = Append(ready, n)
        /\ pc' = [pc EXCEPT ![n] = "run", ![t] = "CountThread"] /\ lock' = "ProcessLock" /\ bug' = bug
        /\ UNCHANGED <<state, refs, rundown, active, flags, parent, pid, space, PidTable, activeList,
                       child, cpu, exitList>>
    BY <1>8
  <2>2. UNCHANGED <<drop, unwind, dead, leaked, closed, debug>>
        /\ userStack' = (userStack \/ owner[t] = System)
    BY <1>8
  <2>21. child' = child
    BY <2>1
  <2>3. n \in Threads /\ tstate[n] = "none"
    BY DEF PspCreateThread, FreeThread
  <2>4. pc[n] = "run" /\ owner[n] = None /\ n # t /\ n \notin {Boot, Idle}
    <3>1. Running(n) /\ tstate[t] = "RUNNING" /\ SystemFits
      BY <1>1, <2>3, CurrentThread DEF PsInv, ControlInv, LifeInv
    <3>. QED
      BY <2>3, <3>1, ConstantsFit DEF Running, SystemFits
  <2>5. /\ owner'[n] = c /\ pc'[n] = "run" /\ pc'[t] = "CountThread" /\ tstate'[n] = "READY"
        /\ \A u \in Threads \ {n} : tstate'[u] = tstate[u] /\ owner'[u] = owner[u]
        /\ \A u \in Threads \ {n, t} : pc'[u] = pc[u]
    BY <2>1, <2>3, <2>4 DEF PsInv, ControlInv, Types
  <2>6. /\ list'[c] = {n} /\ count'[c] = 1 /\ \A q \in Processes \ {c} : SameProcess(q)
        /\ \A q \in Processes : SameCounts(q)
    BY <1>4, <1>5, <2>1 DEF PsInv, ControlInv, Types, SameProcess, SameCounts
  <2>7. Types'
    <3>0. list' \in [Processes -> SUBSET Threads]
      <4>1. list' = [list EXCEPT ![c] = {n}]
        BY <1>5, <2>1
      <4>. QED
        BY <1>4, <2>3, <4>1 DEF PsInv, ControlInv, Types
    <3>1. /\ owner' \in [Threads -> Processes \cup {None}]
          /\ pc' \in [Threads -> Places] /\ cameBy' \in [Threads -> {"start", "Schedule", "wait"}]
          /\ tstate' \in [Threads -> {"none", "READY", "RUNNING", "WAITING", "TERMINATED"}]
      <4>1. /\ owner' = [owner EXCEPT ![n] = c] /\ cameBy' = [cameBy EXCEPT ![n] = "start"]
            /\ tstate' = [tstate EXCEPT ![n] = "READY"]
            /\ pc' = [pc EXCEPT ![n] = "run", ![t] = "CountThread"]
        BY <2>1
      <4>. QED
        BY <1>4, <2>3, <4>1, CallPlaces DEF PsInv, ControlInv, Types
    <3>2. count' \in [Processes -> Int]
      <4>1. count' = [count EXCEPT ![c] = 1]
        BY <1>5, <2>1
      <4>. QED
        BY <1>4, <4>1 DEF PsInv, ControlInv, Types
    <3>3. pages' \in Nat
      BY <2>1, ConstantsFit DEF PsInv, ControlInv, Types
    <3>4. ready' \in Seq(Threads)
      BY <2>1, <2>3 DEF PsInv, ControlInv, Types
    <3>5. userStack' \in BOOLEAN
      BY <2>2
    <3>. QED
      BY <1>1, <2>1, <2>2, <3>0, <3>1, <3>2, <3>3, <3>4, <3>5 DEF PsInv, ControlInv, Types
  <2>8. ControlInv'
    BY <1>1, <1>3, <1>4, <2>1, <2>2, <2>3, <2>7, ControlNewThread DEF PsInv
  <2>9. \A q \in Processes : ~Unwound(q)' /\ drop' = None /\ drop' # q
    BY <2>1, <2>8, NoCloseNext, ConstantsFit
  <2>10. /\ "CountThread" \in Building /\ "CountThread" \notin Exits /\ "run" \notin Building
         /\ "run" \notin Exits
    BY CallPlaces DEF Building, Exits
  <2>11. ASSUME NEW u \in Threads, NEW q \in Processes \ {c} PROVE SameThread(u, q)
    <3>1. CASE u = n
      BY <2>1, <2>4, <2>5, <2>10, <3>1, ConstantsFit DEF SameThread, Builds
    <3>2. CASE u = t
      <4>1. pc'[t] \notin Exits /\ pc[t] \notin Exits /\ owner'[t] = owner[t] /\ child'[t] # q
        BY <1>3, <2>21, <2>4, <2>5, <2>10
      <4>. QED
        BY <2>21, <3>2, <4>1 DEF SameThread, Builds
    <3>3. CASE u # n /\ u # t
      BY <2>1, <2>5, <3>3 DEF SameThread, Builds
    <3>. QED
      BY <3>1, <3>2, <3>3
  <2>12. Fits(c)'
    <3>1. \A u \in Threads \ {t} : ~Builds(u, c)'
      BY <1>4, <2>1, <2>4, <2>5, <2>10 DEF Builds
    <3>2. \A q \in Processes : Alive(q)' => parent'[q] # c
      BY <1>5, <2>1 DEF Alive
    <3>3. BuildFits(t, c)'
      BY <1>4, <1>5, <2>1, <2>5, <2>9, <3>1, <3>2 DEF BuildFits, Alive
    <3>4. \A u \in Threads \ {n} : owner'[u] # c
      BY <1>4, <2>5
    <3>5. OwnerFits(n, c)'
      BY <1>4, <1>5, <2>1, <2>5, <2>6, <2>9, <3>4 DEF OwnerFits, Alive, Flags
    <3>6. \A u \in Threads : BuildFits(u, c)' /\ OwnerFits(u, c)'
      BY <3>1, <3>3, <3>4, <3>5 DEF BuildFits, OwnerFits
    <3>7. WaitFits(c)'
      BY <2>3, <2>5 DEF WaitFits
    <3>8. ParentFits(c)'
      <4>1. ParentFits(c) /\ parent[c] \in Processes \cup {None}
        BY <1>4 DEF PsInv, LifeInv, ControlInv, Types
      <4>. QED
        BY <2>1, <2>2, <4>1 DEF ParentFits, Alive, Unwound
    <3>. QED
      BY <3>6, <3>7, <3>8 DEF Fits
  <2>13. ASSUME NEW q \in Processes PROVE CountFits(q)'
    <3>1. CASE q # c
      <4>1. \A u \in Threads : owner'[u] = q <=> owner[u] = q
        BY <2>4, <2>5, <3>1, ConstantsFit
      <4>2. \A u \in Threads : (child'[u] = q /\ pc'[u] = "CountThread")
                                 <=> (child[u] = q /\ pc[u] = "CountThread")
        BY <1>1, <2>1, <2>4, <2>5, <3>1
      <4>. QED
        BY <1>1, <2>1, <2>6, <2>8, <4>1, <4>2, CountElsewhere
    <3>2. CASE q = c
      <4>1. \A u \in Threads : pc[u] # "CountThread"
        BY <1>1, CurrentThread DEF PsInv
      <4>2. Uncounted(c)' = {t}
        <5>1. \A u \in Threads : (child'[u] = c /\ pc'[u] = "CountThread") <=> u = t
          BY <2>21, <2>3, <2>4, <2>5, <4>1
        <5>. QED
          BY <5>1 DEF Uncounted
      <4>3. Counted(c)' = {n}
        BY <1>4, <2>3, <2>4, <2>5 DEF Counted
      <4>4. Children(c)' = {}
        BY <1>5, <2>1 DEF Children, Alive
      <4>5. Dropping(c)' = 0
        BY <1>4, <2>9 DEF Dropping
      <4>6. /\ Cardinality(Uncounted(c)') = 1 /\ Cardinality(Counted(c)') = 1
            /\ Cardinality(Children(c)') = 0
        BY <4>2, <4>3, <4>4, FS_Singleton, FS_EmptySet
      <4>7. rundown'[c] = 0 /\ active'[c] = 0
        BY <1>5, <2>1
      <4>. QED
        BY <3>2, <4>5, <4>6, <4>7 DEF CountFits
    <3>. QED
      BY <3>1, <3>2
  <2>14. LifeInv'
    <3>1. ASSUME NEW u \in Threads, NEW q \in Processes \ {c}, Builds(u, q)
          PROVE  SameCounts(q) /\ parent'[c] # q
      <4>1. BuildFits(u, q)
        BY DEF PsInv, LifeInv
      <4>. QED
        BY <1>4, <2>1, <2>6, <3>1, <4>1 DEF BuildFits
    <3>2. state'[c] # "none"
      BY <1>5, <2>1
    <3>. QED
      BY <1>1, <1>2, <1>4, <2>1, <2>6, <2>8, <2>11, <2>12, <2>13, <3>1, <3>2, OneProcess
  <2>15. ResourceInv'
    <3>0. \A q \in Processes : count'[q] >= -1
      <4>1. \A q \in Processes : count[q] >= -1
        BY DEF PsInv, ResourceInv
      <4>2. \A q \in Processes \ {c} : count'[q] = count[q]
        BY <2>6 DEF SameProcess
      <4>. QED
        BY <2>6, <4>1, <4>2
    <3>1. KnownStop'
      BY <2>1 DEF PsInv, ResourceInv, KnownStop
    <3>2. \A u \in Threads : pc'[u] = "ObInsertHandle" <=> pc[u] = "ObInsertHandle"
      BY <1>1, <2>4, <2>5
    <3>3. PidsExact'
      BY <2>1, <3>2 DEF PsInv, ResourceInv, PidsExact, Alive
    <3>5. \A u \in Threads : pc'[u] = "ObInsertHandle" => \A j \in Slots : PidTable'[j] # child'[u]
      BY <2>1, <3>2 DEF PsInv, ResourceInv
    <3>. QED
      BY <3>0, <3>1, <3>3, <3>5 DEF ResourceInv
  <2>. QED
    BY <2>8, <2>14, <2>15 DEF PsInv
<1>. QED
  BY <1>6, <1>7, <1>8

LEMMA KeepsCountThread ==
    ASSUME PsInv, NEW t \in Threads, CountThread(t)
    PROVE  PsInv'
<1>. PICK c : c = child[t]
  OBVIOUS
<1>1. /\ cpu = t /\ lock = "ProcessLock" /\ pc[t] = "CountThread"
      /\ active' = [active EXCEPT ![c] = @ + 1] /\ rundown' = [rundown EXCEPT ![c] = @ + 1]
      /\ Uses(c, "rundown") /\ lock' = "none" /\ pc' = [pc EXCEPT ![t] = "UniqueProcessId"]
      /\ UNCHANGED <<state, refs, flags, parent, pid, space, list, count, tableVars, tstate, owner,
                     cameBy, child, cpu, ready, exitList, closeVars, bug>>
  BY DEF CountThread, CreateLock, PsIncProcessRundownProtect, Goto
<1>2. UNCHANGED <<PidTable, activeList, pages, drop, unwind, dead, leaked, userStack, closed, debug>>
  BY <1>1 DEF tableVars, closeVars
<1>3. pc[t] \in Building /\ pc[t] \notin Exits
  BY <1>1 DEF Building, Exits
<1>4. c \in Processes /\ Builds(t, c) /\ BuildFits(t, c)
  BY <1>1, <1>3, CurrentThread DEF PsInv, LifeInv, Builds
<1>5. /\ Alive(c) /\ c # System /\ c # None /\ refs[c] = 1 /\ rundown[c] = 0 /\ active[c] = 0
      /\ flags[c] = Flags /\ \A u \in Threads \ {t} : ~Builds(u, c)
  BY <1>1, <1>4, ConstantsFit DEF BuildFits
<1>6. stale' \subseteq {"pid", "lock"} /\ bug' \in Stops
  BY <1>1, <1>5 DEF Uses, Alive, PsInv, LifeInv, ResourceInv, KnownStaleUses, KnownStop,
     Stops
<1>7. /\ pc'[t] = "UniqueProcessId" /\ \A u \in Threads \ {t} : pc'[u] = pc[u]
      /\ rundown'[c] = 1 /\ active'[c] = 1
      /\ \A q \in Processes \ {c} : SameCounts(q)
  BY <1>1, <1>4, <1>5 DEF PsInv, ControlInv, Types, SameCounts
<1>8. Types'
  <2>1. rundown' = [rundown EXCEPT ![c] = 1] /\ active' = [active EXCEPT ![c] = 1]
    BY <1>1, <1>5
  <2>2. rundown' \in [Processes -> Nat] /\ active' \in [Processes -> Nat]
    BY <1>4, <2>1 DEF PsInv, ControlInv, Types
  <2>3. pc' \in [Threads -> Places] /\ stale' \subseteq {"pid", "lock", "rundown", "exit", "close"}
    BY <1>1, <1>6, CallPlaces DEF PsInv, ControlInv, Types
  <2>4. /\ lock' = "none" /\ UNCHANGED <<state, refs, flags, parent, pid, space, list, count, tstate,
                                          owner, cameBy, child, cpu, ready, exitList>>
    BY <1>1
  <2>. QED
    BY <1>2, <2>2, <2>3, <2>4 DEF PsInv, ControlInv, Types
<1>9. drop = None /\ unwind = <<>> /\ dead = {}
  BY <1>1, NoClose DEF PsInv
<1>10. ControlInv'
  <2>1. "UniqueProcessId" \in Places \ {"gone"} /\ "UniqueProcessId" \notin Building
    BY CallPlaces
  <2>. QED
    BY <1>1, <1>2, <1>8, <1>9, <2>1, MoveControl DEF PsInv
<1>11. /\ "UniqueProcessId" \notin Building /\ "UniqueProcessId" \notin Exits
       /\ \A q \in Processes : ~Unwound(q)' /\ ~Unwound(q)
  BY <1>1, <1>10, NoClose, NoCloseNext, CallPlaces DEF PsInv
<1>12. \A q \in Processes : SameProcess(q)
  BY <1>1 DEF SameProcess
<1>13. ASSUME NEW u \in Threads, NEW q \in Processes \ {c} PROVE SameThread(u, q)
  <2>1. CASE u = t
    BY <1>1, <1>3, <1>7, <1>11, <2>1 DEF SameThread, Builds
  <2>2. CASE u # t
    BY <1>1, <1>7, <2>2 DEF SameThread, Builds
  <2>. QED
    BY <2>1, <2>2
<1>14. Fits(c)'
  <2>1. \A u \in Threads : ~Builds(u, c)'
    BY <1>1, <1>5, <1>7, <1>11 DEF Builds
  <2>2. ASSUME NEW u \in Threads PROVE OwnerFits(u, c)'
    <3>1. OwnerFits(u, c) /\ (pc'[u] = pc[u] \/ (pc[u] \notin Exits /\ pc'[u] \notin Exits))
      BY <1>3, <1>4, <1>7, <1>11 DEF PsInv, LifeInv
    <3>2. CASE pc'[u] = pc[u]
      BY <1>1, <1>4, <1>11, <3>1, <3>2 DEF OwnerFits, Alive
    <3>3. CASE pc[u] \notin Exits /\ pc'[u] \notin Exits
      BY <1>1, <1>4, <1>11, <3>1, <3>3 DEF OwnerFits, Alive, Exits
    <3>. QED
      BY <3>1, <3>2, <3>3
  <2>3. WaitFits(c)'
    BY <1>1, <1>5 DEF WaitFits, Flags
  <2>4. ParentFits(c)'
    <3>1. ParentFits(c)
      BY <1>4 DEF PsInv, LifeInv
    <3>. QED
      BY <1>1, <1>2, <3>1 DEF ParentFits, Alive, Unwound
  <2>. QED
    BY <2>1, <2>2, <2>3, <2>4 DEF Fits, BuildFits
<1>15. ASSUME NEW q \in Processes PROVE CountFits(q)'
  <2>1. CASE q # c
    <3>1. \A u \in Threads : (child'[u] = q /\ pc'[u] = "CountThread")
                                 <=> (child[u] = q /\ pc[u] = "CountThread")
      BY <1>1, <1>7, <2>1
    <3>. QED
      BY <1>1, <1>7, <1>10, <2>1, <3>1, CountElsewhere
  <2>2. CASE q = c
    <3>1. Uncounted(c) = {t} /\ Uncounted(c)' = {}
      <4>1. \A u \in Threads \ {t} : pc[u] # "CountThread"
        BY <1>1, CurrentThread DEF PsInv
      <4>. QED
        BY <1>1, <1>7, <4>1 DEF Uncounted
    <3>2. Cardinality(Uncounted(c)) = 1 /\ Cardinality(Uncounted(c)') = 0
      BY <3>1, FS_Singleton, FS_EmptySet
    <3>3. Counted(c)' = Counted(c) /\ Children(c)' = Children(c)
      BY <1>1, <1>2, CountedSame, ChildrenSame DEF Alive
    <3>4. Dropping(c)' = 0 /\ Dropping(c) = 0
      BY <1>2, <1>5, <1>9 DEF Dropping
    <3>5. /\ 0 + 1 = Cardinality(Counted(c)) + Cardinality(Children(c)) + 0
          /\ 0 + 1 = Cardinality(Counted(c))
      BY <1>4, <1>5, <3>2, <3>4 DEF PsInv, LifeInv, CountFits
    <3>6. Cardinality(Counted(c)) \in Nat /\ Cardinality(Children(c)) \in Nat
      BY FiniteCounts
    <3>7. /\ rundown'[c] + Cardinality(Uncounted(c)')
               = Cardinality(Counted(c)') + Cardinality(Children(c)') + Dropping(c)'
          /\ active'[c] + Cardinality(Uncounted(c)') = Cardinality(Counted(c)')
      BY <1>7, <3>2, <3>3, <3>4, <3>5, <3>6
    <3>. QED
      BY <2>2, <3>7 DEF CountFits
  <2>. QED
    BY <2>1, <2>2
<1>16. LifeInv'
  <2>1. ASSUME NEW u \in Threads, NEW q \in Processes \ {c}, Builds(u, q)
        PROVE  SameCounts(q) /\ parent'[c] # q
    <3>1. BuildFits(u, q)
      BY DEF PsInv, LifeInv
    <3>. QED
      BY <1>1, <1>4, <1>5, <1>7, <2>1, <3>1 DEF BuildFits
  <2>2. state'[c] # "none"
    BY <1>1, <1>5 DEF Alive
  <2>. QED
    BY <1>1, <1>4, <1>5, <1>6, <1>10, <1>12, <1>13, <1>14, <1>15, <2>1, <2>2, OneProcess
<1>17. ResourceInv'
  <2>1. \A q \in Processes : count'[q] >= -1
    BY <1>1 DEF PsInv, ResourceInv
  <2>2. \A u \in Threads : pc'[u] = "ObInsertHandle" <=> pc[u] = "ObInsertHandle"
    BY <1>1, <1>7
  <2>. QED
    BY <1>1, <1>2, <1>6, <2>1, <2>2, ResourceSame DEF PsInv
<1>. QED
  BY <1>10, <1>16, <1>17 DEF PsInv

-----------------------------------------------------------------------------
(* The tail of Schedule.                                                    *)

\* A thread in the tail, where no thread is half counted.
LEMMA TailThread ==
    ASSUME PsInv, NEW t \in Threads, Reaps(t)
    PROVE  /\ cpu = t /\ lock = "ExitThreadLock" /\ tstate[t] = "RUNNING" /\ owner[t] \in Processes
           /\ pc[t] \notin {"gone", "CountThread"} /\ \A u \in Threads : pc[u] # "CountThread"
           /\ \A q : Uncounted(q) = {} /\ Cardinality(Uncounted(q)) = 0
           /\ stale \subseteq {"pid", "lock"} /\ bug \in Stops
<1>1. cpu = t /\ lock = "ExitThreadLock"
  BY DEF Reaps
<1>2. /\ tstate[t] = "RUNNING" /\ owner[t] \in Processes /\ pc[t] # "gone"
      /\ \A u \in Threads : pc[u] # "CountThread"
  BY <1>1, CurrentThread DEF PsInv
<1>3. \A q : Uncounted(q) = {}
  BY <1>2 DEF Uncounted
<1>4. \A q : Cardinality(Uncounted(q)) = 0
  BY <1>3, FS_EmptySet
<1>5. stale \subseteq {"pid", "lock"} /\ bug \in Stops
  BY DEF PsInv, LifeInv, ResourceInv, KnownStaleUses, KnownStop, Stops
<1>. QED
  BY <1>1, <1>2, <1>3, <1>4, <1>5

\* A step of the tail that moves no thread.
LEMMA ControlTail ==
    ASSUME ControlInv, Types', lock = "ExitThreadLock", lock' \in {"none", "ExitThreadLock"},
           UNCHANGED <<tstate, owner, pc, child, cpu, ready, exitList>>,
           lock' = "none" => drop' = None /\ unwind' = <<>> /\ dead' = {}
    PROVE  ControlInv'
<1>1. \A u \in Threads : Running(u)'
  BY DEF ControlInv, Running
<1>2. ListOf(ready, "READY")' /\ ListOf(exitList, "TERMINATED")'
  BY DEF ControlInv, ListOf
<1>. QED
  BY <1>1, <1>2 DEF ControlInv

LEMMA KeepsEndOfTail ==
    ASSUME PsInv, NEW t \in Threads, EndOfTail(t) \/ ReleaseProcessLock(t)
    PROVE  PsInv'
<1>1. /\ Reaps(t) /\ drop = None /\ unwind = <<>>
      /\ UNCHANGED <<processVars, tableVars, threadVars, cpu, ready, exitList, drop, unwind, leaked,
                     userStack, closed, debug, bug>>
      /\ \/ lock' = "none" /\ dead' = dead /\ dead = {} /\ stale' = stale
         \/ lock' = lock /\ dead' = {} /\ stale' \in {stale, stale \cup {"lock"}}
  BY DEF EndOfTail, ReleaseProcessLock, closeVars, cpuVars
<1>2. lock = "ExitThreadLock" /\ stale' \subseteq {"pid", "lock"} /\ bug' \in Stops /\ dead' = {}
  BY <1>1, TailThread
<1>3. UNCHANGED <<state, refs, rundown, active, flags, parent, pid, space, list, count, PidTable,
                  activeList, pages, tstate, owner, pc, cameBy, child, cpu, ready, exitList, drop,
                  unwind, leaked, userStack, closed, debug>>
  BY <1>1 DEF processVars, tableVars, threadVars
<1>4. lock' \in {"none", "ExitThreadLock"}
  BY <1>1, <1>2
<1>5. Types'
  BY <1>2, <1>3, <1>4 DEF PsInv, ControlInv, Types
<1>6. ControlInv'
  BY <1>1, <1>2, <1>3, <1>4, <1>5, ControlTail DEF PsInv
<1>7. \A u \in Threads : Ambles(u)
  BY <1>3 DEF Ambles
<1>. QED
  BY <1>1, <1>2, <1>3, <1>6, <1>7, AmbleKeeps

\* The counters of a process whose threads and children are the same.
LEMMA CountTail ==
    ASSUME NEW q, CountFits(q), state'[q] # "none" => state[q] # "none", SameCounts(q),
           Uncounted(q)' = Uncounted(q), Counted(q)' = Counted(q), Children(q)' = Children(q),
           Dropping(q)' = Dropping(q)
    PROVE  CountFits(q)'
BY DEF CountFits, Alive, SameCounts

\* The exited thread at the head of the list, and its process.
LEMMA ExitedThread ==
    ASSUME PsInv, NEW t \in Threads, Reaps(t), exitList # <<>>, NEW x, x = Head(exitList),
           NEW p, p = owner[x]
    PROVE  /\ x \in Threads \ {t, Boot, Idle} /\ tstate[x] = "TERMINATED" /\ pc[x] = "gone"
           /\ p \in Processes \ {System} /\ Alive(p) /\ ~Unwound(p)
           /\ \A u \in Threads \ {x} : owner[u] # p
           /\ \A u \in Threads : ~Builds(u, p)
           /\ refs[p] = 1 /\ list[p] = {} /\ count[p] = 0 /\ "ALLOCATED" \in flags[p]
           /\ active[p] = 1 /\ Counted(p) = {x}
<1>1. exitList \in Seq(Threads) /\ ListOf(exitList, "TERMINATED")
  BY DEF PsInv, ControlInv, Types
<1>2. x \in Threads /\ tstate[x] = "TERMINATED" /\ x # t
  BY <1>1, ListTail, TailOthers, TailThread
<1>3. pc[x] = "gone" /\ p \in Processes
  <2>1. Running(x) /\ p \in Processes \cup {None}
    BY <1>2 DEF PsInv, ControlInv, Types
  <2>. QED
    BY <1>2, <2>1 DEF Running
<1>4. p # System /\ x \notin {Boot, Idle}
  BY <1>2, <1>3 DEF PsInv, LifeInv, SystemFits, Exits
<1>5. OwnerFits(x, p)
  BY <1>2, <1>3 DEF PsInv, LifeInv
<1>6. /\ Alive(p) /\ ~Unwound(p) /\ refs[p] = 1 /\ list[p] = {} /\ count[p] = 0
      /\ "ALLOCATED" \in flags[p] /\ \A u \in Threads \ {x} : owner[u] # p
  BY <1>3, <1>4, <1>5 DEF OwnerFits
<1>7. ASSUME NEW u \in Threads, Builds(u, p) PROVE FALSE
  <2>1. BuildFits(u, p) /\ pc[u] # "CountThread"
    BY <1>3, TailThread DEF PsInv, LifeInv
  <2>. QED
    BY <1>2, <1>7, <2>1 DEF BuildFits
<1>8. Counted(p) = {x}
  BY <1>2, <1>4, <1>6 DEF Counted
<1>9. active[p] = 1
  <2>2. Cardinality(Uncounted(p)) = 0 /\ Cardinality(Counted(p)) = 1
    BY <1>8, TailThread, FS_Singleton
  <2>3. CountFits(p)
    BY <1>3 DEF PsInv, LifeInv
  <2>1. active[p] + 0 = 1
    BY <1>6, <2>2, <2>3 DEF CountFits
  <2>. QED
    BY <1>3, <2>1 DEF PsInv, ControlInv, Types
<1>. QED
  BY <1>2, <1>3, <1>4, <1>6, <1>7, <1>8, <1>9

\* An element less.
LEMMA OneLess ==
    ASSUME NEW S, IsFiniteSet(S), NEW e \in S
    PROVE  /\ IsFiniteSet(S \ {e}) /\ Cardinality(S) = Cardinality(S \ {e}) + 1
           /\ Cardinality(S \ {e}) \in Nat
<1>1. IsFiniteSet(S \ {e}) /\ Cardinality(S \ {e}) = Cardinality(S) - 1
  BY FS_RemoveElement
<1>2. Cardinality(S) \in Nat /\ Cardinality(S \ {e}) \in Nat
  BY <1>1, FS_CardinalityType
<1>. QED
  BY <1>1, <1>2

LEMMA KeepsPsCloseThread ==
    ASSUME PsInv, NEW t \in Threads, PsCloseThread(t)
    PROVE  PsInv'
<1>. PICK x : x = Head(exitList)
  OBVIOUS
<1>. PICK p : p = owner[x]
  OBVIOUS
<1>1. Reaps(t) /\ exitList # <<>> /\ drop = None /\ unwind = <<>> /\ dead = {} /\ Uses(p, "close")
  BY DEF PsCloseThread
<1>2. /\ x \in Threads \ {t, Boot, Idle} /\ tstate[x] = "TERMINATED" /\ pc[x] = "gone"
      /\ p \in Processes \ {System} /\ Alive(p) /\ ~Unwound(p)
      /\ \A u \in Threads \ {x} : owner[u] # p
      /\ \A u \in Threads : ~Builds(u, p)
      /\ refs[p] = 1 /\ list[p] = {} /\ count[p] = 0 /\ "ALLOCATED" \in flags[p]
      /\ active[p] = 1 /\ Counted(p) = {x}
  BY <1>1, ExitedThread
<1>3. /\ cpu = t /\ lock = "ExitThreadLock" /\ stale \subseteq {"pid", "lock"} /\ bug \in Stops
      /\ \A u \in Threads : pc[u] # "CountThread"
  BY <1>1, TailThread
<1>4. MayClose(t, x)
  <2>1. active[owner[x]] > 0
    BY <1>2
  <2>. QED
    BY <1>2, <2>1 DEF MayClose
<1>4a. CASE ~BmBitmapTest
  <2>1. bug' \in Stops /\ UNCHANGED <<processVars, tableVars, threadVars, cpuVars, closeVars>>
    BY <1>4, <1>4a DEF PsCloseThread, Checked, Stops
  <2>2. stale' \subseteq {"pid", "lock"}
    BY <1>1, <1>2, <1>3 DEF Uses, Alive
  <2>. QED
    BY <2>1, <2>2, MachineStops
<1>4b. SUFFICES ASSUME BmBitmapTest PROVE PsInv'
  BY <1>4a
<1>5. /\ exitList' = Tail(exitList) /\ list' = [list EXCEPT ![p] = @ \ {x}]
      /\ count' = [count EXCEPT ![p] = @ - 1] /\ pages' = pages + StackPages
      /\ active' = [active EXCEPT ![p] = @ - 1] /\ tstate' = [tstate EXCEPT ![x] = "none"]
      /\ owner' = [owner EXCEPT ![x] = None] /\ pc' = [pc EXCEPT ![x] = "run"]
      /\ cameBy' = [cameBy EXCEPT ![x] = "start"] /\ child' = [child EXCEPT ![x] = None]
      /\ drop' = p /\ bug' = bug /\ userStack' = FALSE /\ closed' = TRUE
      /\ UNCHANGED <<state, refs, rundown, flags, parent, pid, space, PidTable, activeList,
                     cpu, ready, lock, unwind, dead, leaked, debug>>
  BY <1>4, <1>4b DEF PsCloseThread, Checked, FreedStack
<1>6. stale' = stale
  BY <1>1, <1>2 DEF Uses, Alive
<1>7. /\ list' = [list EXCEPT ![p] = {}] /\ count' = [count EXCEPT ![p] = -1]
      /\ active' = [active EXCEPT ![p] = 0]
  <2>1. 0 - 1 = -1 /\ 1 - 1 = 0 /\ list[p] \ {x} = {}
    BY <1>2
  <2>. QED
    BY <1>2, <1>5, <2>1
<1>8. /\ tstate'[x] = "none" /\ owner'[x] = None /\ pc'[x] = "run" /\ child'[x] = None
      /\ \A u \in Threads \ {x} : /\ tstate'[u] = tstate[u] /\ owner'[u] = owner[u]
                                  /\ pc'[u] = pc[u] /\ child'[u] = child[u]
  BY <1>2, <1>5 DEF PsInv, ControlInv, Types
<1>9. /\ count'[p] = -1 /\ active'[p] = 0 /\ rundown'[p] = rundown[p] /\ refs'[p] = refs[p]
      /\ \A q \in Processes \ {p} : SameProcess(q) /\ SameCounts(q)
  BY <1>2, <1>5, <1>7 DEF PsInv, ControlInv, Types, SameProcess, SameCounts
<1>10. exitList \in Seq(Threads) /\ ListOf(exitList, "TERMINATED") /\ ready \in Seq(Threads)
       /\ ListOf(ready, "READY")
  BY DEF PsInv, ControlInv, Types
<1>11. Types'
  <2>1. /\ list' \in [Processes -> SUBSET Threads] /\ count' \in [Processes -> Int]
        /\ active' \in [Processes -> Nat]
    BY <1>2, <1>7 DEF PsInv, ControlInv, Types
  <2>2. /\ tstate' \in [Threads -> {"none", "READY", "RUNNING", "WAITING", "TERMINATED"}]
        /\ owner' \in [Threads -> Processes \cup {None}] /\ pc' \in [Threads -> Places]
        /\ cameBy' \in [Threads -> {"start", "Schedule", "wait"}]
        /\ child' \in [Threads -> Processes \cup {None}]
    <3>1. /\ tstate' = [tstate EXCEPT ![x] = "none"]
          /\ owner' = [owner EXCEPT ![x] = None] /\ pc' = [pc EXCEPT ![x] = "run"]
          /\ cameBy' = [cameBy EXCEPT ![x] = "start"] /\ child' = [child EXCEPT ![x] = None]
      BY <1>5
    <3>. QED
      BY <1>2, <3>1, CallPlaces DEF PsInv, ControlInv, Types
  <2>3. pages' \in Nat
    BY <1>5, ConstantsFit DEF PsInv, ControlInv, Types
  <2>4. exitList' \in Seq(Threads)
    BY <1>1, <1>5, <1>10, ListTail
  <2>5. drop' = p /\ UNCHANGED <<state, refs, rundown, flags, parent, pid, space, PidTable, activeList,
                                 cpu, ready, lock, unwind, dead, leaked, debug>>
    BY <1>5
  <2>6. userStack' \in BOOLEAN /\ closed' \in BOOLEAN
    BY <1>5
  <2>. QED
    BY <1>2, <1>6, <2>1, <2>2, <2>3, <2>4, <2>5, <2>6 DEF PsInv, ControlInv, Types
<1>12. ControlInv'
  <2>1. ASSUME NEW u \in Threads PROVE Running(u)'
    <3>1. Running(u)
      BY DEF PsInv, ControlInv
    <3>2. CASE u = x
      BY <1>2, <1>3, <1>5, <1>8, <3>2, CallPlaces DEF Running
    <3>3. CASE u # x
      BY <1>5, <1>8, <3>1, <3>3 DEF Running
    <3>. QED
      BY <3>2, <3>3
  <2>2. ListOf(ready, "READY")'
    <3>1. \A i \in 1 .. Len(ready) : ready[i] \in Threads /\ ready[i] # x
      BY <1>2, <1>10 DEF ListOf
    <3>. QED
      BY <1>5, <1>8, <1>10, <3>1 DEF ListOf
  <2>3. ListOf(exitList, "TERMINATED")'
    <3>. PICK r : r = Tail(exitList)
      OBVIOUS
    <3>1. /\ \A i \in 1 .. Len(r) : r[i] # x /\ tstate[r[i]] = "TERMINATED" /\ r[i] \in Threads
          /\ \A i, j \in 1 .. Len(r) : r[i] = r[j] => i = j
      BY <1>1, <1>10, TailOthers
    <3>2. exitList' = r
      BY <1>5
    <3>3. \A i \in 1 .. Len(r) : tstate'[r[i]] = "TERMINATED"
      BY <1>8, <3>1
    <3>. QED
      BY <3>1, <3>2, <3>3 DEF ListOf
  <2>4. lock' = "ExitThreadLock"
    BY <1>3, <1>5
  <2>. QED
    BY <1>11, <2>1, <2>2, <2>3, <2>4 DEF ControlInv
<1>13. \A i \in 1 .. Len(unwind) : FALSE
  BY <1>1
<1>14. /\ UnwindFits' /\ \A q : ~Unwound(q)' /\ ~Unwound(q)
  BY <1>5, <1>13 DEF UnwindFits, Unwound
<1>15. DropFits'
  <2>1. drop' = p /\ state'[p] # "none" /\ ~Unwound(p)' /\ unwind' = <<>>
    BY <1>1, <1>2, <1>5, <1>14 DEF Alive
  <2>2. Alive(drop)' /\ ~Unwound(drop)'
    BY <1>2, <1>5, <1>14, <2>1 DEF Alive, Unwound
  <2>. QED
    BY <2>1, <2>2 DEF DropFits
<1>16. /\ "run" \notin Building /\ "run" \notin Exits /\ "gone" \notin Building
  BY CallPlaces DEF Exits, Building
<1>17. ASSUME NEW u \in Threads, NEW q \in Processes \ {p} PROVE SameThread(u, q)
  BY <1>2, <1>8, <1>16, ConstantsFit DEF SameThread, Builds
<1>18. ASSUME NEW q \in Processes PROVE Fits(q)'
  <2>1. CASE q # p
    <3>1. ASSUME NEW u \in Threads, Builds(u, q)
          PROVE  /\ SameCounts(q) /\ drop' # q
                 /\ \A r \in Processes : state'[r] # "none" => parent'[r] # q
      <4>1. BuildFits(u, q)
        BY DEF PsInv, LifeInv
      <4>. QED
        BY <1>5, <1>9, <2>1, <3>1, <4>1 DEF BuildFits, Alive
    <3>2. state[q] # "none" /\ parent[q] # None => state'[parent[q]] # "none" \/ Unwound(q)
      BY <1>5 DEF PsInv, LifeInv, ParentFits, Alive
    <3>. QED
      BY <1>9, <1>14, <1>17, <2>1, <3>1, <3>2, FitsElsewhere DEF PsInv
  <2>2. CASE q = p
    <3>1. \A u \in Threads : owner'[u] # p /\ ~Builds(u, p)'
      BY <1>2, <1>8, <1>16, ConstantsFit DEF Builds
    <3>2. \A u \in Threads : BuildFits(u, p)' /\ OwnerFits(u, p)'
      BY <3>1 DEF BuildFits, OwnerFits
    <3>3. WaitFits(p)'
      BY <1>2, <1>5 DEF WaitFits
    <3>4. ParentFits(p)'
      <4>1. ParentFits(p)
        BY <1>2 DEF PsInv, LifeInv
      <4>. QED
        BY <1>5, <4>1 DEF ParentFits, Alive, Unwound
    <3>. QED
      BY <2>2, <3>2, <3>3, <3>4 DEF Fits
  <2>. QED
    BY <2>1, <2>2
<1>19. ASSUME NEW q \in Processes PROVE CountFits(q)'
  <2>1. Uncounted(q)' = Uncounted(q) /\ Cardinality(Uncounted(q)) = 0
    <3>1. \A u \in Threads : pc'[u] # "CountThread"
      BY <1>3, <1>8
    <3>. QED
      BY <1>1, <3>1, TailThread DEF Uncounted
  <2>2. Children(q)' = Children(q)
    BY <1>5, <1>13 DEF Children, Alive
  <2>3. CountFits(q)
    BY DEF PsInv, LifeInv
  <2>4. CASE q # p
    <3>1. Counted(q)' = Counted(q)
      <4>1. \A u \in Threads : owner'[u] = q <=> owner[u] = q
        BY <1>2, <1>8, <2>4, ConstantsFit
      <4>. QED
        BY <4>1, CountedSame
    <3>2. Dropping(q)' = Dropping(q)
      BY <1>1, <1>5, <2>4, ConstantsFit DEF Dropping
    <3>. QED
      BY <1>5, <1>9, <2>1, <2>2, <2>3, <2>4, <3>1, <3>2, CountTail
  <2>5. CASE q = p
    <3>1. Counted(p)' = {}
      BY <1>2, <1>8, ConstantsFit DEF Counted
    <3>10. Counted(p) = {x}
      BY <1>2
    <3>11. Cardinality(Counted(p)) = 1
      BY <3>10, FS_Singleton
    <3>12. Cardinality(Counted(p)') = 0
      BY <3>1, FS_EmptySet
    <3>2. Cardinality(Counted(p)) = 1 /\ Cardinality(Counted(p)') = 0
      BY <3>11, <3>12
    <3>3. Dropping(p) = 0 /\ Dropping(p)' = 1
      BY <1>1, <1>2, <1>5, ConstantsFit DEF Dropping
    <3>4. rundown[p] + 0 = 1 + Cardinality(Children(p)) + 0
      BY <1>2, <2>1, <2>3, <2>5, <3>2, <3>3 DEF CountFits
    <3>5. Cardinality(Children(p)) \in Nat /\ rundown[p] \in Nat
      BY <1>2, FiniteCounts DEF PsInv, ControlInv, Types
    <3>6. /\ rundown'[p] + Cardinality(Uncounted(p)')
               = Cardinality(Counted(p)') + Cardinality(Children(p)') + Dropping(p)'
          /\ active'[p] + Cardinality(Uncounted(p)') = Cardinality(Counted(p)')
      BY <1>9, <2>1, <2>2, <2>5, <3>2, <3>3, <3>4, <3>5
    <3>. QED
      BY <2>5, <3>6 DEF CountFits
  <2>. QED
    BY <2>4, <2>5
<1>20. LifeInv'
  <2>1. SystemFits'
    <3>1. SystemFits /\ System # p
      BY <1>2 DEF PsInv, LifeInv
    <3>2. Alive(System)' /\ System \in space' /\ ~Unwound(System)'
      BY <1>5, <1>14, <3>1 DEF SystemFits, Alive
    <3>3. ASSUME NEW u \in Threads
          PROVE  /\ owner'[u] = System <=> u \in {Boot, Idle}
                 /\ pc'[u] \in Exits => owner'[u] # System
      BY <1>2, <1>8, <1>16, <3>1, ConstantsFit DEF SystemFits
    <3>. QED
      BY <3>2, <3>3 DEF SystemFits
  <2>2. KnownStaleUses'
    BY <1>3, <1>6 DEF KnownStaleUses
  <2>. QED
    BY <1>14, <1>15, <1>18, <1>19, <2>1, <2>2 DEF LifeInv, Fits
<1>21. ResourceInv'
  <2>1. KnownStop'
    BY <1>3, <1>5 DEF KnownStop, Stops
  <2>2. \A q \in Processes : count'[q] >= -1
    <3>1. \A q \in Processes : count[q] >= -1
      BY DEF PsInv, ResourceInv
    <3>2. \A q \in Processes \ {p} : count'[q] = count[q]
      BY <1>9 DEF SameProcess
    <3>. QED
      BY <1>9, <3>1, <3>2
  <2>3. \A u \in Threads : /\ pc'[u] = "ObInsertHandle" <=> pc[u] = "ObInsertHandle"
                           /\ pc[u] = "ObInsertHandle" => child'[u] = child[u]
    BY <1>2, <1>8
  <2>4. PidsExact'
    <3>1. UNCHANGED <<PidTable, pid, state>>
      BY <1>5
    <3>. QED
      BY <2>3, <3>1 DEF PsInv, ResourceInv, PidsExact, Alive
  <2>6. \A u \in Threads : pc'[u] = "ObInsertHandle" => \A j \in Slots : PidTable'[j] # child'[u]
    BY <1>5, <2>3 DEF PsInv, ResourceInv
  <2>. QED
    BY <2>1, <2>2, <2>4, <2>6 DEF ResourceInv
<1>. QED
  BY <1>12, <1>20, <1>21 DEF PsInv

\* The process whose protection is being dropped.
LEMMA DroppedProcess ==
    ASSUME PsInv, NEW t \in Threads, Reaps(t), NEW p, p = drop, p # None
    PROVE  /\ p \in Processes /\ Alive(p) /\ ~Unwound(p) /\ \A u \in Threads : ~Builds(u, p)
           /\ rundown[p] = Cardinality(Counted(p)) + Cardinality(Children(p)) + Dropping(p)
           /\ active[p] = Cardinality(Counted(p)) /\ rundown[p] > 0 /\ rundown[p] \in Nat
           /\ unwind = <<>> => Dropping(p) = 1
           /\ unwind # <<>> => Dropping(p) = 0 /\ unwind[Len(unwind)] \in Children(p)
<1>1. p \in Processes /\ Alive(p) /\ ~Unwound(p)
  BY DEF PsInv, ControlInv, Types, LifeInv, DropFits
<1>2. \A u \in Threads : ~Builds(u, p)
  BY <1>1 DEF PsInv, LifeInv, BuildFits
<1>3. Cardinality(Uncounted(p)) = 0 /\ CountFits(p)
  BY <1>1, TailThread DEF PsInv, LifeInv
<1>4. /\ rundown[p] + 0 = Cardinality(Counted(p)) + Cardinality(Children(p)) + Dropping(p)
      /\ active[p] + 0 = Cardinality(Counted(p))
  BY <1>1, <1>3 DEF CountFits
<1>5. /\ rundown[p] \in Nat /\ active[p] \in Nat /\ Cardinality(Counted(p)) \in Nat
      /\ Cardinality(Children(p)) \in Nat /\ IsFiniteSet(Children(p))
  BY <1>1, FiniteCounts DEF PsInv, ControlInv, Types
<1>6. CASE unwind = <<>>
  <2>1. Dropping(p) = 1
    BY <1>6 DEF Dropping
  <2>2. rundown[p] > 0
    BY <1>4, <1>5, <2>1
  <2>. QED
    BY <1>1, <1>2, <1>4, <1>5, <1>6, <2>1, <2>2
<1>7. CASE unwind # <<>>
  <2>. PICK w : w = unwind[Len(unwind)]
    OBVIOUS
  <2>1. Dropping(p) = 0
    BY <1>7 DEF Dropping
  <2>2. unwind \in Seq(Processes) /\ Len(unwind) \in 1 .. Len(unwind) /\ w \in Processes
    <3>1. unwind \in Seq(Processes)
      BY DEF PsInv, ControlInv, Types
    <3>. QED
      BY <1>7, <3>1
  <2>3. Alive(w) /\ parent[w] = p
    <3>1. Alive(w)
      BY <2>2 DEF PsInv, LifeInv, UnwindFits
    <3>2. parent[w] = p
      BY <1>7 DEF PsInv, LifeInv, DropFits
    <3>. QED
      BY <3>1, <3>2
  <2>4. \A i \in 1 .. Len(unwind) : unwind[i] = w => i = Len(unwind)
    BY <2>2 DEF PsInv, LifeInv, UnwindFits
  <2>5. w \in Children(p)
    BY <2>2, <2>3, <2>4 DEF Children
  <2>6. Cardinality(Children(p)) # 0
    BY <1>5, <2>5, FS_EmptySet
  <2>7. rundown[p] > 0
    BY <1>4, <1>5, <2>1, <2>6
  <2>. QED
    BY <1>1, <1>2, <1>4, <1>5, <1>7, <2>1, <2>5, <2>7
<1>. QED
  BY <1>6, <1>7

\* Its last protection: the process has no thread and no child but those that are
\* being freed, and its parent is there and is not being freed.
LEMMA LastProtection ==
    ASSUME PsInv, NEW t \in Threads, Reaps(t), NEW p, p = drop, p # None, rundown[p] = 1
    PROVE  /\ p # System /\ \A u \in Threads : owner[u] # p
           /\ active[p] = 0 /\ refs[p] = 1 /\ "ALLOCATED" \in flags[p]
           /\ \A q \in Processes : Alive(q) /\ parent[q] = p => Unwound(q)
           /\ parent[p] # p
           /\ parent[p] # None => Alive(parent[p]) /\ ~Unwound(parent[p])
<1>1. /\ p \in Processes /\ Alive(p) /\ ~Unwound(p) /\ \A u \in Threads : ~Builds(u, p)
      /\ 1 = Cardinality(Counted(p)) + Cardinality(Children(p)) + Dropping(p)
      /\ active[p] = Cardinality(Counted(p))
      /\ unwind = <<>> => Dropping(p) = 1
      /\ unwind # <<>> => Dropping(p) = 0 /\ unwind[Len(unwind)] \in Children(p)
  BY DroppedProcess
<1>2. /\ Cardinality(Counted(p)) \in Nat /\ Cardinality(Children(p)) \in Nat
      /\ IsFiniteSet(Children(p)) /\ IsFiniteSet(Counted(p))
  BY FiniteCounts
<1>3. /\ Cardinality(Counted(p)) = 0
      /\ (unwind = <<>> /\ Cardinality(Children(p)) = 0)
         \/ (unwind # <<>> /\ Cardinality(Children(p)) = 1 /\ unwind[Len(unwind)] \in Children(p))
  <2>1. CASE unwind = <<>>
    <3>1. 1 = Cardinality(Counted(p)) + Cardinality(Children(p)) + 1
      BY <1>1, <2>1
    <3>. QED
      BY <1>2, <2>1, <3>1
  <2>2. CASE unwind # <<>>
    <3>1. /\ 1 = Cardinality(Counted(p)) + Cardinality(Children(p)) + 0
          /\ unwind[Len(unwind)] \in Children(p)
      BY <1>1, <2>2
    <3>2. Cardinality(Children(p)) # 0
      BY <1>2, <3>1, FS_EmptySet
    <3>3. Cardinality(Counted(p)) = 0 /\ Cardinality(Children(p)) = 1
      BY <1>2, <3>1, <3>2
    <3>. QED
      BY <2>2, <3>1, <3>3
  <2>. QED
    BY <2>1, <2>2
<1>4. Counted(p) = {}
  BY <1>2, <1>3, FS_EmptySet
<1>5. p # System /\ \A u \in Threads : owner[u] # p
  <2>1. SystemFits
    BY DEF PsInv, LifeInv
  <2>2. p # System
    BY <1>4, <2>1, ConstantsFit DEF Counted, SystemFits
  <2>. QED
    BY <1>4, <2>1, <2>2, ConstantsFit DEF Counted, SystemFits
<1>6. refs[p] = 1 /\ "ALLOCATED" \in flags[p]
  BY <1>1, <1>5 DEF PsInv, LifeInv, WaitFits
<1>7. \A c \in Children(p) : Unwound(c)
  <2>1. CASE unwind = <<>>
    <3>1. Children(p) = {}
      BY <1>2, <1>3, <2>1, FS_EmptySet
    <3>. QED
      BY <3>1
  <2>2. CASE unwind # <<>>
    <3>. PICK w : w = unwind[Len(unwind)]
      OBVIOUS
    <3>1. w \in Children(p) /\ Cardinality(Children(p)) = 1
      BY <1>3, <2>2
    <3>2. PICK e : Children(p) = {e}
      BY <1>2, <3>1, FS_Singleton
    <3>3. Len(unwind) \in 1 .. Len(unwind)
      <4>1. unwind \in Seq(Processes)
        BY DEF PsInv, ControlInv, Types
      <4>. QED
        BY <2>2, <4>1
    <3>. QED
      BY <3>1, <3>2, <3>3 DEF Unwound
  <2>. QED
    BY <2>1, <2>2
<1>8. \A q \in Processes : Alive(q) /\ parent[q] = p => Unwound(q)
  <2>1. ASSUME NEW q \in Processes, Alive(q), parent[q] = p, ~Unwound(q) PROVE FALSE
    <3>1. q \in Children(p)
      BY <2>1 DEF Children, Unwound
    <3>. QED
      BY <1>7, <2>1, <3>1
  <2>. QED
    BY <2>1
<1>9. parent[p] # p
  BY <1>1, <1>8
<1>10. ASSUME parent[p] # None PROVE Alive(parent[p]) /\ ~Unwound(parent[p])
  <2>. PICK o : o = parent[p]
    OBVIOUS
  <2>1. o \in Processes /\ Alive(o)
    BY <1>1, <1>10 DEF PsInv, ControlInv, Types, LifeInv, ParentFits
  <2>2. ASSUME Unwound(o) PROVE FALSE
    <3>1. rundown[o] = 0
      BY <2>2 DEF Unwound, PsInv, LifeInv, UnwindFits
    <3>2. p \in Children(o)
      BY <1>1 DEF Children, Unwound
    <3>3. Cardinality(Children(o)) \in Nat /\ Cardinality(Children(o)) # 0
          /\ Cardinality(Counted(o)) \in Nat /\ Cardinality(Uncounted(o)) = 0
      BY <3>2, FiniteCounts, TailThread, FS_EmptySet
    <3>4. 0 + 0 = Cardinality(Counted(o)) + Cardinality(Children(o)) + Dropping(o)
      BY <2>1, <3>1, <3>3 DEF PsInv, LifeInv, CountFits
    <3>5. Dropping(o) \in {0, 1}
      BY DEF Dropping
    <3>. QED
      BY <3>3, <3>4, <3>5
  <2>. QED
    BY <2>1, <2>2
<1>11. active[p] = 0
  BY <1>1, <1>3
<1>. QED
  BY <1>5, <1>6, <1>8, <1>9, <1>10, <1>11

\* The tail leaves the threads where they are.
LEMMA SameThreads ==
    ASSUME UNCHANGED threadVars
    PROVE  /\ UNCHANGED <<tstate, owner, pc, cameBy, child>>
           /\ \A u, q : SameThread(u, q)
           /\ \A q : Uncounted(q)' = Uncounted(q) /\ Counted(q)' = Counted(q)
<1>1. UNCHANGED <<tstate, owner, pc, cameBy, child>>
  BY DEF threadVars
<1>. QED
  BY <1>1 DEF SameThread, Builds, Uncounted, Counted

\* Children that are not being freed count, and for the process whose
\* protection is being dropped the innermost that is.
LEMMA ChildrenOthers ==
    ASSUME NEW q, drop # q
    PROVE  Children(q) = {c \in Processes : Alive(c) /\ parent[c] = q /\ ~Unwound(c)}
BY DEF Children, Unwound

LEMMA ChildrenOthersNext ==
    ASSUME NEW q, drop' # q
    PROVE  Children(q)' = {c \in Processes : Alive(c)' /\ parent'[c] = q /\ ~Unwound(c)'}
BY DEF Children, Unwound

\* The system process, when a step frees no other.
LEMMA SystemSame ==
    ASSUME PsInv, UNCHANGED threadVars, state'[System] # "none", System \in space', ~Unwound(System)'
    PROVE  SystemFits'
<1>1. UNCHANGED <<owner, pc>>
  BY DEF threadVars
<1>. QED
  BY <1>1 DEF PsInv, LifeInv, SystemFits, Alive

\* One protection of several is dropped.
LEMMA KeepsOneOfMany ==
    ASSUME PsInv, NEW t \in Threads, Reaps(t), NEW p, p = drop, p # None, rundown[p] # 1,
           rundown' = [rundown EXCEPT ![p] = @ - 1], drop' = None,
           dead' \in {dead, {None}}, stale' = stale, bug' = bug,
           UNCHANGED <<state, refs, active, flags, parent, pid, space, list, count, unwind, tableVars,
                       threadVars, cpuVars, leaked, userStack, closed, debug>>
    PROVE  PsInv'
<1>1. /\ p \in Processes /\ Alive(p) /\ ~Unwound(p) /\ \A u \in Threads : ~Builds(u, p)
      /\ rundown[p] = Cardinality(Counted(p)) + Cardinality(Children(p)) + Dropping(p)
      /\ active[p] = Cardinality(Counted(p)) /\ rundown[p] > 0 /\ rundown[p] \in Nat
      /\ unwind = <<>> => Dropping(p) = 1
      /\ unwind # <<>> => Dropping(p) = 0 /\ unwind[Len(unwind)] \in Children(p)
  BY DroppedProcess
<1>2. /\ lock = "ExitThreadLock" /\ stale' \subseteq {"pid", "lock"} /\ bug' \in Stops
      /\ \A q : Cardinality(Uncounted(q)) = 0
  BY TailThread
<1>3. UNCHANGED <<PidTable, activeList, pages, tstate, owner, pc, cameBy, child, cpu, ready, lock,
                  exitList>>
  BY DEF tableVars, threadVars, cpuVars
<1>4. /\ rundown'[p] = rundown[p] - 1 /\ \A q \in Processes \ {p} : rundown'[q] = rundown[q]
      /\ rundown' \in [Processes -> Nat]
  <2>1. rundown \in [Processes -> Nat]
    BY DEF PsInv, ControlInv, Types
  <2>2. rundown'[p] = rundown[p] - 1 /\ \A q \in Processes \ {p} : rundown'[q] = rundown[q]
    BY <1>1, <2>1
  <2>3. rundown[p] - 1 \in Nat
    BY <1>1
  <2>. QED
    BY <2>1, <2>2, <2>3
<1>5. Types'
  <2>1. dead' \subseteq Processes \cup {None} /\ drop' \in Processes \cup {None}
    BY DEF PsInv, ControlInv, Types
  <2>. QED
    BY <1>3, <1>4, <2>1 DEF PsInv, ControlInv, Types
<1>6. ControlInv'
  BY <1>2, <1>3, <1>5, ControlTail DEF PsInv
<1>7. /\ \A q : Unwound(q)' <=> Unwound(q)
      /\ \A q \in Processes : SameProcess(q) /\ (Alive(q)' <=> Alive(q))
      /\ \A q \in Processes \ {p} : SameCounts(q)
  BY <1>4 DEF Unwound, SameProcess, SameCounts, Alive
<1>8. ASSUME NEW q \in Processes PROVE Fits(q)'
  <2>1. ASSUME NEW u \in Threads, Builds(u, q)
        PROVE  /\ SameCounts(q) /\ drop' # q
               /\ \A r \in Processes : state'[r] # "none" => parent'[r] # q
    <3>1. BuildFits(u, q) /\ q # p /\ q # None
      BY <1>1, <2>1, ConstantsFit DEF PsInv, LifeInv
    <3>. QED
      BY <1>7, <2>1, <3>1 DEF BuildFits, Alive
  <2>2. state[q] # "none" /\ parent[q] # None => state'[parent[q]] # "none" \/ Unwound(q)
    BY DEF PsInv, LifeInv, ParentFits, Alive
  <2>. QED
    BY <1>7, <2>1, <2>2, FitsElsewhere, SameThreads DEF PsInv
<1>9. UnwindFits' /\ DropFits'
  <2>1. ASSUME NEW i \in 1 .. Len(unwind)
        PROVE  Alive(unwind[i])' /\ rundown'[unwind[i]] = 0 /\ \A u \in Threads : owner'[u] # unwind[i]
    <3>1. /\ Alive(unwind[i]) /\ rundown[unwind[i]] = 0 /\ unwind[i] # p
          /\ \A u \in Threads : owner[u] # unwind[i]
      BY <1>1 DEF PsInv, LifeInv, UnwindFits, Unwound
    <3>2. unwind[i] \in Processes
      BY DEF PsInv, ControlInv, Types
    <3>. QED
      BY <1>3, <1>4, <3>1, <3>2 DEF Alive
  <2>2. \A i, j \in 1 .. Len(unwind) : unwind[i] = unwind[j] => i = j
    BY DEF PsInv, LifeInv, UnwindFits
  <2>. QED
    BY <2>1, <2>2 DEF UnwindFits, DropFits, Alive
<1>10. ASSUME NEW q \in Processes PROVE CountFits(q)'
  <2>1. /\ Uncounted(q)' = Uncounted(q) /\ Counted(q)' = Counted(q) /\ CountFits(q) /\ drop' # q
        /\ Dropping(q)' = 0
    BY SameThreads, ConstantsFit DEF PsInv, LifeInv, Dropping
  <2>2. Children(q)' = {c \in Processes : Alive(c)' /\ parent'[c] = q /\ ~Unwound(c)'}
    BY <2>1, ChildrenOthersNext
  <2>3. Children(q)' = {c \in Processes : Alive(c) /\ parent[c] = q /\ ~Unwound(c)}
    BY <1>7, <2>2
  <2>4. CASE q # p
    <3>1. Children(q)' = Children(q) /\ Dropping(q) = 0
      BY <2>3, <2>4, ChildrenOthers DEF Dropping
    <3>. QED
      BY <1>7, <2>1, <2>4, <3>1, CountTail
  <2>5. CASE q = p /\ unwind = <<>>
    <3>1. \A i \in 1 .. Len(unwind) : FALSE
      BY <2>5
    <3>2. Children(p)' = Children(p)
      BY <2>3, <2>5, <3>1 DEF Children, Unwound
    <3>3. rundown[p] = Cardinality(Counted(p)) + Cardinality(Children(p)) + 1
      BY <1>1, <2>5
    <3>4. Cardinality(Counted(p)) \in Nat /\ Cardinality(Children(p)) \in Nat
      BY FiniteCounts
    <3>5. /\ rundown'[p] + 0 = Cardinality(Counted(p)) + Cardinality(Children(p)) + 0
          /\ active'[p] + 0 = Cardinality(Counted(p))
      BY <1>1, <1>4, <3>3, <3>4
    <3>. QED
      BY <1>2, <2>1, <2>5, <3>2, <3>5 DEF CountFits
  <2>6. CASE q = p /\ unwind # <<>>
    <3>. PICK w : w = unwind[Len(unwind)]
      OBVIOUS
    <3>1. w \in Children(p) /\ Dropping(p) = 0
      BY <1>1, <2>6
    <3>2. Len(unwind) \in 1 .. Len(unwind) /\ Unwound(w)
      <4>1. unwind \in Seq(Processes)
        BY DEF PsInv, ControlInv, Types
      <4>2. Len(unwind) \in 1 .. Len(unwind)
        BY <2>6, <4>1
      <4>. QED
        BY <4>2 DEF Unwound
    <3>3. Children(p)' = Children(p) \ {w}
      <4>1. ASSUME NEW c \in Processes, c \in Children(p), c # w PROVE ~Unwound(c)
        BY <4>1 DEF Children, Unwound
      <4>2. ASSUME NEW c \in Processes, Alive(c), parent[c] = p, ~Unwound(c)
            PROVE  c \in Children(p) /\ c # w
        BY <3>2, <4>2 DEF Children, Unwound
      <4>3. Children(p) \subseteq {c \in Processes : Alive(c) /\ parent[c] = p}
        BY DEF Children
      <4>. QED
        BY <2>3, <2>6, <3>2, <4>1, <4>2, <4>3
    <3>4. Cardinality(Children(p)) = Cardinality(Children(p)') + 1 /\ Cardinality(Children(p)') \in Nat
      BY <3>1, <3>3, FiniteCounts, OneLess
    <3>5. rundown[p] = Cardinality(Counted(p)) + Cardinality(Children(p)) + 0
      BY <1>1, <3>1
    <3>6. /\ rundown'[p] + 0 = Cardinality(Counted(p)) + Cardinality(Children(p)') + 0
          /\ active'[p] + 0 = Cardinality(Counted(p))
      <4>1. Cardinality(Counted(p)) \in Nat
        BY FiniteCounts
      <4>. QED
        BY <1>1, <1>4, <3>4, <3>5, <4>1
    <3>. QED
      BY <1>2, <2>1, <2>6, <3>6 DEF CountFits
  <2>. QED
    BY <2>4, <2>5, <2>6
<1>11. LifeInv'
  <2>1. SystemFits'
    BY <1>7, SystemSame DEF PsInv, LifeInv, SystemFits, Alive
  <2>2. KnownStaleUses'
    BY <1>2 DEF KnownStaleUses
  <2>. QED
    BY <1>8, <1>9, <1>10, <2>1, <2>2 DEF LifeInv, Fits
<1>12. ResourceInv'
  <2>1. \A q \in Processes : count'[q] >= -1
    BY DEF PsInv, ResourceInv
  <2>. QED
    BY <1>2, <1>3, <2>1, ResourceSame DEF PsInv
<1>. QED
  BY <1>6, <1>11, <1>12 DEF PsInv

\* A process at the end of a sequence.
LEMMA UnwindAppend ==
    ASSUME NEW s \in Seq(Processes), NEW p \in Processes
    PROVE  /\ Append(s, p) \in Seq(Processes) /\ Append(s, p) # <<>> /\ Len(s) \in Nat
           /\ Len(Append(s, p)) = Len(s) + 1 /\ Append(s, p)[Len(s) + 1] = p
           /\ \A i \in 1 .. Len(s) : Append(s, p)[i] = s[i] /\ i \in 1 .. Len(s) + 1 /\ i # Len(s) + 1
           /\ \A i \in 1 .. Len(s) + 1 : i = Len(s) + 1 \/ i \in 1 .. Len(s)
           /\ Len(s) + 1 \in 1 .. Len(s) + 1
OBVIOUS

\* The last protection is dropped: the process is next to be freed.
LEMMA KeepsLastDropped ==
    ASSUME PsInv, NEW t \in Threads, Reaps(t), NEW p, p = drop, p # None, rundown[p] = 1,
           rundown' = [rundown EXCEPT ![p] = 0], refs' = [refs EXCEPT ![p] = 0],
           drop' = parent[p], unwind' = Append(unwind, p), stale' = stale, bug' = bug,
           UNCHANGED <<state, active, flags, parent, pid, space, list, count, dead, tableVars,
                       threadVars, cpuVars, leaked, userStack, closed, debug>>
    PROVE  PsInv'
<1>. PICK o : o = parent[p]
  OBVIOUS
<1>. PICK n : n = Len(unwind)
  OBVIOUS
<1>1. p \in Processes /\ Alive(p) /\ ~Unwound(p) /\ \A u \in Threads : ~Builds(u, p)
  BY DroppedProcess
<1>2. /\ p # System /\ \A u \in Threads : owner[u] # p
      /\ active[p] = 0 /\ o # p
      /\ \A q \in Processes : Alive(q) /\ parent[q] = p => Unwound(q)
      /\ o # None => Alive(o) /\ ~Unwound(o)
  BY LastProtection
<1>3. /\ lock = "ExitThreadLock" /\ stale' \subseteq {"pid", "lock"} /\ bug' \in Stops
      /\ \A q : Uncounted(q) = {} /\ Cardinality(Uncounted(q)) = 0
  BY TailThread
<1>4. UNCHANGED <<PidTable, activeList, pages, tstate, owner, pc, cameBy, child, cpu, ready, lock,
                  exitList>>
  BY DEF tableVars, threadVars, cpuVars
<1>5. /\ rundown'[p] = 0 /\ refs'[p] = 0 /\ o \in Processes \cup {None}
      /\ \A q \in Processes \ {p} : rundown'[q] = rundown[q] /\ refs'[q] = refs[q]
      /\ rundown' \in [Processes -> Nat] /\ refs' \in [Processes -> Nat]
  BY <1>1 DEF PsInv, ControlInv, Types
<1>6. /\ unwind' \in Seq(Processes) /\ unwind' # <<>> /\ n \in Nat
      /\ Len(unwind') = n + 1 /\ unwind'[n + 1] = p
      /\ \A i \in 1 .. n : unwind'[i] = unwind[i] /\ i \in 1 .. n + 1 /\ i # n + 1
      /\ \A i \in 1 .. n + 1 : i = n + 1 \/ i \in 1 .. n
      /\ n + 1 \in 1 .. n + 1
  <2>1. unwind \in Seq(Processes)
    BY DEF PsInv, ControlInv, Types
  <2>. QED
    BY <1>1, <2>1, UnwindAppend
<1>7. Types'
  BY <1>4, <1>5, <1>6 DEF PsInv, ControlInv, Types
<1>8. ControlInv'
  BY <1>3, <1>4, <1>7, ControlTail DEF PsInv
<1>9. /\ \A q : Unwound(q)' <=> Unwound(q) \/ q = p
      /\ \A q \in Processes : Alive(q)' <=> Alive(q)
      /\ \A q \in Processes \ {p} : SameProcess(q) /\ SameCounts(q)
  <2>1. \A q : Unwound(q)' <=> Unwound(q) \/ q = p
    BY <1>6 DEF Unwound
  <2>. QED
    BY <1>5, <2>1 DEF SameProcess, SameCounts, Alive
<1>10. ASSUME NEW q \in Processes PROVE Fits(q)'
  <2>1. CASE q # p
    <3>1. ASSUME NEW u \in Threads, Builds(u, q)
          PROVE  /\ SameCounts(q) /\ drop' # q
                 /\ \A r \in Processes : state'[r] # "none" => parent'[r] # q
      <4>1. BuildFits(u, q)
        BY DEF PsInv, LifeInv
      <4>2. \A r \in Processes : state[r] # "none" => parent[r] # q
        BY <3>1, <4>1 DEF BuildFits, Alive
      <4>3. o # q
        BY <1>1, <4>2 DEF Alive
      <4>. QED
        BY <1>9, <2>1, <4>2, <4>3
    <3>2. state[q] # "none" /\ parent[q] # None => state'[parent[q]] # "none" \/ Unwound(q)
      BY DEF PsInv, LifeInv, ParentFits, Alive
    <3>3. Unwound(q)' <=> Unwound(q)
      BY <1>9, <2>1
    <3>. QED
      BY <1>9, <2>1, <3>1, <3>2, <3>3, FitsElsewhere, SameThreads DEF PsInv
  <2>2. CASE q = p
    <3>1. Unwound(p)'
      BY <1>9
    <3>2. \A u \in Threads : owner'[u] # p /\ ~Builds(u, p)'
      BY <1>1, <1>2, <1>4 DEF Builds
    <3>. QED
      BY <2>2, <3>1, <3>2 DEF Fits, BuildFits, OwnerFits, WaitFits, ParentFits
  <2>. QED
    BY <2>1, <2>2
<1>11. UnwindFits'
  <2>1. ASSUME NEW i \in 1 .. n
        PROVE  /\ Alive(unwind[i])' /\ rundown'[unwind[i]] = 0 /\ unwind[i] # p
               /\ \A u \in Threads : owner'[u] # unwind[i]
    <3>1. /\ Alive(unwind[i]) /\ rundown[unwind[i]] = 0 /\ unwind[i] # p
          /\ \A u \in Threads : owner[u] # unwind[i]
      BY <1>1 DEF PsInv, LifeInv, UnwindFits, Unwound
    <3>2. unwind[i] \in Processes
      BY DEF PsInv, ControlInv, Types
    <3>. QED
      BY <1>4, <1>5, <3>1, <3>2 DEF Alive
  <2>2. ASSUME NEW i \in 1 .. n + 1
        PROVE  state'[unwind'[i]] # "none" /\ rundown'[unwind'[i]] = 0
               /\ \A u \in Threads : owner'[u] # unwind'[i]
    <3>1. CASE i = n + 1
      BY <1>1, <1>2, <1>4, <1>5, <1>6, <3>1 DEF Alive
    <3>2. CASE i \in 1 .. n
      <4>1. state'[unwind[i]] # "none"
        <5>1. Alive(unwind[i])
          BY <3>2 DEF PsInv, LifeInv, UnwindFits
        <5>. QED
          BY <5>1 DEF Alive
      <4>. QED
        BY <1>6, <2>1, <3>2, <4>1
    <3>. QED
      BY <1>6, <3>1, <3>2
  <2>3. ASSUME NEW i \in 1 .. n + 1, NEW j \in 1 .. n + 1, unwind'[i] = unwind'[j] PROVE i = j
    <3>1. \A k, l \in 1 .. n : unwind[k] = unwind[l] => k = l
      BY DEF PsInv, LifeInv, UnwindFits
    <3>2. \A k \in 1 .. n : unwind'[k] = unwind[k] /\ unwind'[k] # p
      BY <1>6, <2>1
    <3>. QED
      BY <1>6, <2>3, <3>1, <3>2
  <2>. QED
    BY <1>6, <2>2, <2>3 DEF UnwindFits, Alive
<1>12. DropFits'
  <2>1. SUFFICES ASSUME drop' # None
                 PROVE Alive(drop)' /\ ~Unwound(drop)' /\ drop' = parent'[unwind'[Len(unwind')]]
    BY DEF DropFits
  <2>2. drop' = o /\ Alive(o) /\ ~Unwound(o)'
    BY <1>2, <1>9, <2>1
  <2>3. Alive(drop)'
    BY <2>2 DEF Alive
  <2>4. ~Unwound(drop)'
    BY <2>2 DEF Unwound
  <2>. QED
    BY <1>6, <2>3, <2>4
<1>13. ASSUME NEW q \in Processes PROVE CountFits(q)'
  <2>1. Uncounted(q)' = Uncounted(q) /\ Counted(q)' = Counted(q) /\ CountFits(q) /\ Dropping(q)' = 0
    BY <1>6, SameThreads DEF PsInv, LifeInv, Dropping
  <2>2. CASE q = p
    <3>1. Children(p)' = {c \in Processes : Alive(c)' /\ parent'[c] = p /\ ~Unwound(c)'}
      BY <1>2, ChildrenOthersNext
    <3>2. Children(p)' = {}
      BY <1>2, <1>9, <3>1
    <3>3. Counted(p)' = {}
      BY <1>2, <1>4 DEF Counted
    <3>4. Uncounted(p)' = {}
      BY <1>3, <2>1, <2>2
    <3>5. /\ Cardinality(Children(p)') = 0 /\ Cardinality(Counted(p)') = 0
          /\ Cardinality(Uncounted(p)') = 0
      BY <3>2, <3>3, <3>4, FS_EmptySet
    <3>6. rundown'[p] = 0 /\ active'[p] = 0
      BY <1>2, <1>5
    <3>. QED
      BY <2>1, <2>2, <3>5, <3>6 DEF CountFits
  <2>3. CASE q # p
    <3>1. Children(q) = {c \in Processes : Alive(c) /\ parent[c] = q /\ ~Unwound(c)}
      BY <2>3, ChildrenOthers
    <3>2. ASSUME NEW c \in Processes PROVE c \in Children(q)' <=> c \in Children(q)
      <4>1. CASE c = p
        <5>1. c \in Children(q) <=> o = q
          BY <1>1, <3>1, <4>1
        <5>2. \A i \in 1 .. n : unwind'[i] # p
          BY <1>1, <1>6 DEF Unwound
        <5>3. \A i \in 1 .. n + 1 : unwind'[i] = p <=> i = n + 1
          BY <1>6, <5>2
        <5>4. c \in Children(q)' <=> o = q
          BY <1>1, <1>6, <1>9, <4>1, <5>3 DEF Children
        <5>. QED
          BY <5>1, <5>4
      <4>2. CASE c # p
        <5>1. \A i \in 1 .. n + 1 : unwind'[i] = c => i \in 1 .. n /\ unwind[i] = c
          BY <1>6, <4>2
        <5>2. Unwound(c) <=> \E i \in 1 .. n + 1 : unwind'[i] = c
          BY <1>6, <4>2, <5>1 DEF Unwound
        <5>3. c \in Children(q)' <=> Alive(c)' /\ parent'[c] = q /\ ~Unwound(c)
          BY <1>6, <5>1, <5>2 DEF Children
        <5>. QED
          BY <1>9, <3>1, <5>3
      <4>. QED
        BY <4>1, <4>2
    <3>3. Children(q)' = Children(q)
      <4>1. Children(q) \subseteq Processes /\ Children(q)' \subseteq Processes
        BY DEF Children
      <4>. QED
        BY <3>2, <4>1
    <3>4. Dropping(q) = 0
      BY <2>3 DEF Dropping
    <3>. QED
      BY <1>9, <2>1, <2>3, <3>3, <3>4, CountTail
  <2>. QED
    BY <2>2, <2>3
<1>14. LifeInv'
  <2>1. SystemFits'
    BY <1>2, <1>9, SystemSame DEF PsInv, LifeInv, SystemFits, Alive
  <2>2. KnownStaleUses'
    BY <1>3 DEF KnownStaleUses
  <2>. QED
    BY <1>10, <1>11, <1>12, <1>13, <2>1, <2>2 DEF LifeInv, Fits
<1>15. ResourceInv'
  <2>1. \A q \in Processes : count'[q] >= -1
    BY DEF PsInv, ResourceInv
  <2>. QED
    BY <1>3, <1>4, <2>1, ResourceSame DEF PsInv
<1>. QED
  BY <1>8, <1>14, <1>15 DEF PsInv

LEMMA KeepsPsDecProcessRundownProtect ==
    ASSUME PsInv, NEW t \in Threads, PsDecProcessRundownProtect(t)
    PROVE  PsInv'
<1>. PICK p : p = drop
  OBVIOUS
<1>1. Reaps(t) /\ p # None /\ Uses(p, "rundown")
  BY DEF PsDecProcessRundownProtect
<1>2. p \in Processes /\ Alive(p) /\ rundown[p] > 0
  BY <1>1, DroppedProcess
<1>3. stale' = stale
  BY <1>1, <1>2 DEF Uses, Alive
<1>4. CASE rundown[p] # 1
  <2>1. /\ rundown' = [rundown EXCEPT ![p] = @ - 1] /\ refs' = [refs EXCEPT ![p] = @]
        /\ drop' = None /\ unwind' = unwind /\ dead' \in {dead, {None}} /\ bug' = bug
        /\ UNCHANGED <<state, active, flags, parent, pid, space, list, count, tableVars,
                       threadVars, cpuVars, leaked, userStack, closed, debug>>
    BY <1>2, <1>4 DEF PsDecProcessRundownProtect, Checked
  <2>2. refs' = refs
    BY <2>1 DEF PsInv, ControlInv, Types
  <2>. QED
    BY <1>1, <1>3, <1>4, <2>1, <2>2, KeepsOneOfMany
<1>5. CASE rundown[p] = 1
  <2>1. /\ active[p] = 0 /\ refs[p] = 1 /\ "ALLOCATED" \in flags[p] /\ owner[t] # p
    BY <1>1, <1>5, LastProtection
  <2>2. PspCloseProcess(t, p) /\ refs[p] > 0 /\ refs[p] - 1 = 0 /\ rundown[p] - 1 = 0
    BY <1>5, <2>1 DEF PspCloseProcess
  <2>3. /\ rundown' = [rundown EXCEPT ![p] = @ - 1] /\ refs' = [refs EXCEPT ![p] = @ - 1]
        /\ drop' = parent[p] /\ unwind' = Append(unwind, p) /\ dead' = dead /\ bug' = bug
        /\ UNCHANGED <<state, active, flags, parent, pid, space, list, count, tableVars,
                       threadVars, cpuVars, leaked, userStack, closed, debug>>
    BY <1>2, <1>5, <2>1, <2>2 DEF PsDecProcessRundownProtect, Checked
  <2>4. rundown' = [rundown EXCEPT ![p] = 0] /\ refs' = [refs EXCEPT ![p] = 0]
    BY <2>2, <2>3
  <2>. QED
    BY <1>1, <1>3, <1>5, <2>3, <2>4, KeepsLastDropped
<1>. QED
  BY <1>4, <1>5

\* What is left of a sequence without its last element.
LEMMA UnwindFront ==
    ASSUME NEW s \in Seq(Processes), s # <<>>, NEW r, r = SubSeq(s, 1, Len(s) - 1)
    PROVE  /\ r \in Seq(Processes) /\ Len(s) \in Nat /\ Len(r) = Len(s) - 1 /\ Len(s) \in 1 .. Len(s)
           /\ s[Len(s)] \in Processes
           /\ \A i \in 1 .. Len(r) : r[i] = s[i] /\ i \in 1 .. Len(s) /\ i # Len(s)
           /\ \A i \in 1 .. Len(s) : i = Len(s) \/ i \in 1 .. Len(r)
<1>1. Len(s) \in Nat /\ Len(s) >= 1 /\ s \in [1 .. Len(s) -> Processes]
  OBVIOUS
<1>. PICK m : m = Len(s) - 1
  OBVIOUS
<1>2. m \in Nat /\ m + 1 = Len(s)
  BY <1>1
<1>3. r = SubSeq(s, 1, m)
  OBVIOUS
<1>4. Len(r) = m /\ \A i \in 1 .. m : r[i] = s[i]
  BY <1>1, <1>2, <1>3
<1>5. \A i \in 1 .. m : i \in 1 .. Len(s) /\ i # Len(s)
  BY <1>1, <1>2
<1>6. \A i \in 1 .. Len(s) : i = Len(s) \/ i \in 1 .. m
  BY <1>1, <1>2
<1>7. r \in Seq(Processes)
  BY <1>1, <1>2, <1>3
<1>8. s[Len(s)] \in Processes
  BY <1>1
<1>9. Len(s) \in 1 .. Len(s)
  BY <1>1
<1>10. /\ \A i \in 1 .. Len(r) : r[i] = s[i] /\ i \in 1 .. Len(s) /\ i # Len(s)
       /\ \A i \in 1 .. Len(s) : i = Len(s) \/ i \in 1 .. Len(r)
  BY <1>4, <1>5, <1>6
<1>. QED
  BY <1>1, <1>4, <1>7, <1>8, <1>9, <1>10

LEMMA KeepsPspFreeProcess ==
    ASSUME PsInv, NEW t \in Threads, PspFreeProcess(t)
    PROVE  PsInv'
<1>. PICK n : n = Len(unwind)
  OBVIOUS
<1>. PICK p : p = unwind[n]
  OBVIOUS
<1>1. Reaps(t) /\ drop = None /\ unwind # <<>> /\ stale' = stale
  BY DEF PspFreeProcess
<1>2. /\ lock = "ExitThreadLock" /\ stale' \subseteq {"pid", "lock"} /\ bug \in Stops
      /\ \A q : Uncounted(q) = {} /\ Cardinality(Uncounted(q)) = 0
  BY <1>1, TailThread
<1>3. /\ unwind \in Seq(Processes) /\ n \in 1 .. n /\ n \in Nat /\ p \in Processes
  BY <1>1, UnwindFront DEF PsInv, ControlInv, Types
<1>4. /\ Alive(p) /\ rundown[p] = 0 /\ (\A u \in Threads : owner[u] # p) /\ Unwound(p)
      /\ \A i, j \in 1 .. n : unwind[i] = unwind[j] => i = j
  BY <1>3 DEF PsInv, LifeInv, UnwindFits, Unwound
<1>5. /\ p # System /\ \A u \in Threads : ~Builds(u, p)
  BY <1>3, <1>4 DEF PsInv, LifeInv, SystemFits, BuildFits
<1>6. PidTable[pid[p]] = p /\ pid[p] \in Slots
  <2>1. \/ PidTable[pid[p]] = p
        \/ \E u \in Threads : child[u] = p /\ pc[u] = "ObInsertHandle"
    BY <1>3, <1>4 DEF PsInv, ResourceInv, PidsExact
  <2>. QED
    BY <1>3, <1>5, <2>1 DEF Builds, Building, PsInv, ControlInv, Types
<1>. PICK k : k = pid[p]
  OBVIOUS
<1>7. /\ PidTable' = [PidTable EXCEPT ![k] = None] /\ space' = space \ {p}
      /\ state' = [state EXCEPT ![p] = "none"] /\ unwind' = SubSeq(unwind, 1, n - 1)
      /\ dead' = dead \cup {p} /\ pages' = pages + 1 /\ leaked' = leaked + 2 /\ bug' = bug
      /\ UNCHANGED <<refs, rundown, active, flags, parent, pid, list, count, activeList,
                     threadVars, cpuVars, drop, userStack, closed, debug>>
  BY <1>6 DEF PspFreeProcess, Checked, ObRemoveHandle
<1>8. UNCHANGED <<tstate, owner, pc, cameBy, child, cpu, ready, lock, exitList>>
  BY <1>7 DEF threadVars, cpuVars
<1>9. /\ unwind' \in Seq(Processes) /\ Len(unwind') = n - 1
      /\ \A i \in 1 .. Len(unwind') : unwind'[i] = unwind[i] /\ i \in 1 .. n /\ i # n
      /\ \A i \in 1 .. n : i = n \/ i \in 1 .. Len(unwind')
  BY <1>1, <1>3, <1>7, UnwindFront
<1>10. /\ state'[p] = "none" /\ PidTable'[k] = None
       /\ \A j \in Slots \ {k} : PidTable'[j] = PidTable[j]
       /\ \A q \in Processes \ {p} : SameProcess(q)
       /\ \A q \in Processes : SameCounts(q)
  BY <1>3, <1>6, <1>7 DEF PsInv, ControlInv, Types, SameProcess, SameCounts
<1>11. Types'
  <2>1. /\ PidTable' \in [Slots -> Processes \cup {None}] /\ space' \subseteq Processes
        /\ state' \in [Processes -> {"none", "CREATION", "ACTIVE", "TERMINATED"}]
        /\ dead' \subseteq Processes \cup {None}
    BY <1>3, <1>6, <1>7 DEF PsInv, ControlInv, Types
  <2>2. pages' \in Nat /\ leaked' \in Nat
    BY <1>7 DEF PsInv, ControlInv, Types
  <2>3. UNCHANGED <<refs, rundown, active, flags, parent, pid, list, count, activeList, drop,
                    userStack, closed, debug>>
    BY <1>7
  <2>. QED
    BY <1>1, <1>8, <1>9, <2>1, <2>2, <2>3 DEF PsInv, ControlInv, Types
<1>12. ControlInv'
  BY <1>2, <1>8, <1>11, ControlTail DEF PsInv
<1>13. \A q : Unwound(q)' <=> Unwound(q) /\ q # p
  <2>1. \A i \in 1 .. n : unwind[i] = p <=> i = n
    BY <1>3, <1>4
  <2>2. ASSUME NEW q, Unwound(q)' PROVE Unwound(q) /\ q # p
    <3>1. PICK i \in 1 .. Len(unwind') : unwind'[i] = q
      BY <2>2 DEF Unwound
    <3>2. unwind[i] = q /\ i \in 1 .. n /\ i # n
      BY <1>9, <3>1
    <3>. QED
      BY <2>1, <3>2 DEF Unwound
  <2>3. ASSUME NEW q, Unwound(q), q # p PROVE Unwound(q)'
    <3>1. PICK i \in 1 .. n : unwind[i] = q
      BY <2>3 DEF Unwound
    <3>2. i \in 1 .. Len(unwind') /\ unwind'[i] = q
      BY <1>9, <2>1, <2>3, <3>1
    <3>. QED
      BY <3>2 DEF Unwound
  <2>. QED
    BY <2>2, <2>3
<1>14. \A q \in Processes : Alive(q) /\ parent[q] = p => Unwound(q)
  <2>1. Children(p) = {c \in Processes : Alive(c) /\ parent[c] = p /\ ~Unwound(c)}
    BY <1>1, <1>3, ChildrenOthers, ConstantsFit
  <2>2. 0 + 0 = Cardinality(Counted(p)) + Cardinality(Children(p)) + Dropping(p)
    BY <1>2, <1>3, <1>4 DEF PsInv, LifeInv, CountFits
  <2>3. /\ Cardinality(Counted(p)) \in Nat /\ Cardinality(Children(p)) \in Nat
        /\ IsFiniteSet(Children(p))
    BY FiniteCounts
  <2>4. Dropping(p) \in {0, 1}
    BY DEF Dropping
  <2>5. Cardinality(Children(p)) = 0
    BY <2>2, <2>3, <2>4
  <2>6. Children(p) = {}
    BY <2>3, <2>5, FS_EmptySet
  <2>. QED
    BY <2>1, <2>6
<1>15. ASSUME NEW q \in Processes PROVE Fits(q)'
  <2>1. CASE q # p
    <3>1. ASSUME NEW u \in Threads, Builds(u, q)
          PROVE  /\ SameCounts(q) /\ drop' # q
                 /\ \A r \in Processes : state'[r] # "none" => parent'[r] # q
      <4>1. BuildFits(u, q)
        BY DEF PsInv, LifeInv
      <4>2. \A r \in Processes : state'[r] # "none" => state[r] # "none" /\ parent'[r] = parent[r]
        BY <1>7, <1>10 DEF SameProcess
      <4>. QED
        BY <1>1, <1>7, <1>10, <3>1, <4>1, <4>2, ConstantsFit DEF BuildFits, Alive
    <3>2. state[q] # "none" /\ parent[q] # None => state'[parent[q]] # "none" \/ Unwound(q)
      <4>1. ParentFits(q) /\ parent[q] \in Processes \cup {None}
        BY DEF PsInv, LifeInv, ControlInv, Types
      <4>2. CASE parent[q] = p
        BY <1>14, <4>2 DEF Alive
      <4>3. CASE parent[q] # p
        BY <1>10, <4>1, <4>3 DEF ParentFits, Alive, SameProcess
      <4>. QED
        BY <4>2, <4>3
    <3>3. Unwound(q)' <=> Unwound(q)
      BY <1>13, <2>1
    <3>. QED
      BY <1>7, <1>10, <2>1, <3>1, <3>2, <3>3, FitsElsewhere, SameThreads DEF PsInv
  <2>2. CASE q = p
    <3>1. \A u \in Threads : owner'[u] # p /\ ~Builds(u, p)'
      BY <1>4, <1>5, <1>8 DEF Builds
    <3>2. ~Alive(p)'
      BY <1>10 DEF Alive
    <3>. QED
      BY <2>2, <3>1, <3>2 DEF Fits, BuildFits, OwnerFits, WaitFits, ParentFits
  <2>. QED
    BY <2>1, <2>2
<1>16. UnwindFits' /\ DropFits'
  <2>1. ASSUME NEW i \in 1 .. Len(unwind')
        PROVE  /\ state'[unwind'[i]] # "none" /\ rundown'[unwind'[i]] = 0
               /\ \A u \in Threads : owner'[u] # unwind'[i]
    <3>1. unwind'[i] = unwind[i] /\ i \in 1 .. n /\ unwind[i] # p /\ unwind[i] \in Processes
      BY <1>3, <1>4, <1>9
    <3>2. Alive(unwind[i]) /\ rundown[unwind[i]] = 0 /\ \A u \in Threads : owner[u] # unwind[i]
      BY <3>1 DEF PsInv, LifeInv, UnwindFits
    <3>. QED
      BY <1>8, <1>10, <3>1, <3>2 DEF Alive, SameProcess, SameCounts
  <2>2. \A i, j \in 1 .. Len(unwind') : unwind'[i] = unwind'[j] => i = j
    BY <1>4, <1>9
  <2>3. drop' = None
    BY <1>1, <1>7
  <2>. QED
    BY <2>1, <2>2, <2>3 DEF UnwindFits, DropFits, Alive
<1>17. ASSUME NEW q \in Processes PROVE CountFits(q)'
  <2>1. CASE q = p
    BY <1>10, <2>1 DEF CountFits, Alive
  <2>2. CASE q # p
    <3>1. /\ Uncounted(q)' = Uncounted(q) /\ Counted(q)' = Counted(q) /\ CountFits(q)
          /\ drop = None /\ drop' = None /\ drop # q /\ drop' # q
      BY <1>1, <1>7, SameThreads, ConstantsFit DEF PsInv, LifeInv
    <3>2. Dropping(q) = 0 /\ Dropping(q)' = 0
      BY <3>1 DEF Dropping
    <3>3. Children(q) = {c \in Processes : Alive(c) /\ parent[c] = q /\ ~Unwound(c)}
      BY <3>1, ChildrenOthers
    <3>4. Children(q)' = {c \in Processes : Alive(c)' /\ parent'[c] = q /\ ~Unwound(c)'}
      BY <3>1, ChildrenOthersNext
    <3>5. ASSUME NEW c \in Processes
          PROVE  Alive(c)' /\ parent'[c] = q /\ ~Unwound(c)' <=> Alive(c) /\ parent[c] = q /\ ~Unwound(c)
      <4>1. CASE c = p
        BY <1>4, <1>10, <4>1 DEF Alive
      <4>2. CASE c # p
        BY <1>10, <1>13, <4>2 DEF Alive, SameProcess
      <4>. QED
        BY <4>1, <4>2
    <3>6. Children(q)' = Children(q)
      BY <3>3, <3>4, <3>5
    <3>7. state'[q] # "none" => state[q] # "none"
      BY <1>10, <2>2 DEF SameProcess
    <3>. QED
      BY <1>10, <3>1, <3>2, <3>6, <3>7, CountTail
  <2>. QED
    BY <2>1, <2>2
<1>18. LifeInv'
  <2>1. SystemFits'
    <3>1. SystemFits
      BY DEF PsInv, LifeInv
    <3>2. state'[System] # "none" /\ System \in space' /\ ~Unwound(System)'
      BY <1>5, <1>10, <1>13, <3>1, ConstantsFit DEF SystemFits, Alive, SameProcess
    <3>. QED
      BY <1>7, <3>2, SystemSame
  <2>2. KnownStaleUses'
    BY <1>2 DEF KnownStaleUses
  <2>. QED
    BY <1>15, <1>16, <1>17, <2>1, <2>2 DEF LifeInv, Fits
<1>19. ResourceInv'
  <2>1. KnownStop' /\ \A q \in Processes : count'[q] >= -1
    BY <1>7 DEF PsInv, ResourceInv, KnownStop
  <2>2. PidsExact'
    <3>1. ASSUME NEW j \in Slots, PidTable'[j] # None
          PROVE  state'[PidTable'[j]] # "none" /\ pid'[PidTable'[j]] = j
      <4>1. j # k /\ PidTable'[j] = PidTable[j] /\ PidTable[j] # None
        BY <1>10, <3>1
      <4>2. Alive(PidTable[j]) /\ pid[PidTable[j]] = j
        BY <4>1 DEF PsInv, ResourceInv, PidsExact
      <4>3. PidTable[j] \in Processes \ {p}
        BY <4>1, <4>2 DEF PsInv, ControlInv, Types
      <4>. QED
        BY <1>7, <1>10, <4>1, <4>2, <4>3 DEF Alive, SameProcess
    <3>2. ASSUME NEW q \in Processes, state'[q] # "none"
          PROVE  \/ PidTable'[pid'[q]] = q
                 \/ \E u \in Threads : child'[u] = q /\ pc'[u] = "ObInsertHandle"
      <4>1. q # p /\ Alive(q)
        BY <1>10, <3>2 DEF Alive, SameProcess
      <4>2. \/ PidTable[pid[q]] = q
            \/ \E u \in Threads : child[u] = q /\ pc[u] = "ObInsertHandle"
        BY <4>1 DEF PsInv, ResourceInv, PidsExact
      <4>3. pid[q] \in Slots /\ pid'[q] = pid[q] /\ (PidTable[pid[q]] = q => pid[q] # k)
        BY <1>6, <1>7, <4>1 DEF PsInv, ControlInv, Types
      <4>. QED
        BY <1>8, <1>10, <4>2, <4>3
    <3>. QED
      BY <3>1, <3>2 DEF PidsExact, Alive
  <2>4. ASSUME NEW u \in Threads, pc'[u] = "ObInsertHandle", NEW j \in Slots
        PROVE  PidTable'[j] # child'[u]
    <3>1. pc[u] = "ObInsertHandle" /\ child'[u] = child[u] /\ PidTable[j] # child[u]
      BY <1>8, <2>4 DEF PsInv, ResourceInv
    <3>2. child[u] \in Processes
      BY <3>1 DEF PsInv, ControlInv, Running, Building
    <3>. QED
      BY <1>10, <3>1, <3>2, ConstantsFit
  <2>. QED
    BY <2>1, <2>2, <2>4 DEF ResourceInv
<1>. QED
  BY <1>12, <1>18, <1>19 DEF PsInv

-----------------------------------------------------------------------------
(* System PTEs.                                                             *)

\* A process is not beyond the steps that its creator is in.
LEMMA FinitePages ==
    /\ IsFiniteSet(Stacks) /\ Cardinality(Stacks) \in Nat
    /\ \A steps : IsFiniteSet(Beyond(steps)) /\ Cardinality(Beyond(steps)) \in Nat
<1>1. Stacks \subseteq Threads /\ \A steps : Beyond(steps) \subseteq Processes
  BY DEF Stacks, Beyond
<1>2. IsFiniteSet(Stacks) /\ \A steps : IsFiniteSet(Beyond(steps))
  BY <1>1, ConstantsFit, FS_Subset
<1>. QED
  BY <1>2, FS_CardinalityType

LEMMA PagesAre ==
    ASSUME PsInv, PagesInv, NEW m, m = StackPages * Cardinality(Stacks)
    PROVE  /\ NSystemPages = pages + leaked + m + Cardinality(Beyond(NoTable))
                             + Cardinality(Beyond(NoSpace)) + Cardinality(Beyond(NoBitmap))
           /\ m \in Nat /\ pages \in Nat /\ leaked \in Nat /\ NSystemPages \in Nat
           /\ Cardinality(Beyond(NoTable)) \in Nat /\ Cardinality(Beyond(NoSpace)) \in Nat
           /\ Cardinality(Beyond(NoBitmap)) \in Nat
<1>1. NSystemPages = pages + leaked + m + Cardinality(Beyond(NoTable))
                     + Cardinality(Beyond(NoSpace)) + Cardinality(Beyond(NoBitmap))
  BY DEF PagesInv, PagesAccounted, Stacks, NoTable, NoBitmap
<1>2. m \in Nat
  BY FinitePages, ConstantsFit, Products
<1>. QED
  BY <1>1, <1>2, FinitePages, ConstantsFit DEF PsInv, ControlInv, Types

\* The sum after a step, from its terms.
LEMMA PagesNext ==
    ASSUME NEW k, k = Cardinality(Stacks'), space' \ {System} = Beyond(NoSpace)',
           NSystemPages = pages' + leaked' + StackPages * k + Cardinality(Beyond(NoTable)')
                          + Cardinality(Beyond(NoSpace)') + Cardinality(Beyond(NoBitmap)')
    PROVE  PagesInv'
BY DEF PagesInv, PagesAccounted, Stacks, NoTable, NoBitmap

\* The creators stay in the steps, or out of them.
LEMMA BeyondSame ==
    ASSUME NEW steps, \A p \in Processes : state'[p] # "none" <=> state[p] # "none",
           \A u \in Threads : \/ pc'[u] = pc[u] /\ child'[u] = child[u]
                              \/ pc'[u] \notin steps /\ pc[u] \notin steps
                              \/ pc'[u] \in steps /\ pc[u] \in steps /\ child'[u] = child[u]
    PROVE  Beyond(steps)' = Beyond(steps)
<1>1. ASSUME NEW p \in Processes
      PROVE  (\A u \in Threads : child'[u] = p => pc'[u] \notin steps)
                <=> (\A u \in Threads : child[u] = p => pc[u] \notin steps)
  OBVIOUS
<1>. QED
  BY <1>1 DEF Beyond, Alive

\* The creator leaves them: its child is beyond them, and nobody else's.
LEMMA BeyondMore ==
    ASSUME PsInv, NEW t \in Threads, cpu = t, NEW steps, steps \subseteq Building \ {"CountThread"},
           pc[t] \in steps, NEW place, place \notin steps, pc' = [pc EXCEPT ![t] = place],
           UNCHANGED <<state, child>>
    PROVE  /\ Beyond(steps)' = Beyond(steps) \cup {child[t]} /\ child[t] \notin Beyond(steps)
           /\ Cardinality(Beyond(steps)') = Cardinality(Beyond(steps)) + 1
<1>. PICK c : c = child[t]
  OBVIOUS
<1>1. /\ c \in Processes /\ Alive(c) /\ c # System /\ \A u \in Threads \ {t} : ~Builds(u, c)
  BY ChildAlone
<1>2. pc'[t] = place /\ \A u \in Threads \ {t} : pc'[u] = pc[u]
  BY DEF PsInv, ControlInv, Types
<1>3. c \notin Beyond(steps)
  BY DEF Beyond
<1>4. c \in Beyond(steps)'
  <2>1. \A u \in Threads \ {t} : child[u] = c => pc[u] \notin steps
    BY <1>1 DEF Builds
  <2>. QED
    BY <1>1, <1>2, <2>1 DEF Beyond, Alive
<1>5. ASSUME NEW q, q # c PROVE q \in Beyond(steps)' <=> q \in Beyond(steps)
  <2>1. \A u \in Threads : child[u] = q => pc'[u] = pc[u]
    BY <1>2, <1>5
  <2>. QED
    BY <2>1 DEF Beyond, Alive
<1>6. Beyond(steps)' = Beyond(steps) \cup {c}
  BY <1>3, <1>4, <1>5
<1>. QED
  BY <1>3, <1>6, FinitePages, OneMore

\* A step takes and gives back no system PTE, and stops at no user stack.
TakesNothing ==
    /\ UNCHANGED <<pages, leaked, space>>
    /\ \A p \in Processes : state'[p] # "none" <=> state[p] # "none"
    /\ \A u \in Threads : tstate'[u] # "none" <=> tstate[u] # "none"
    /\ \A u \in Threads : \/ pc'[u] = pc[u] /\ child'[u] = child[u]
                          \/ pc'[u] \notin NoBitmap /\ pc[u] \notin NoBitmap
KeepsUserStack ==
    UNCHANGED <<owner, userStack, closed, debug>> /\ (bug' = bug \/ bug' # "user stack")

LEMMA PagesKept ==
    ASSUME PsInv, PagesInv, StackInv, TakesNothing, KeepsUserStack
    PROVE  PagesInv' /\ StackInv'
<1>1. /\ Beyond(NoTable)' = Beyond(NoTable) /\ Beyond(NoSpace)' = Beyond(NoSpace)
      /\ Beyond(NoBitmap)' = Beyond(NoBitmap)
  BY BeyondSame DEF TakesNothing, NoTable, NoSpace, NoBitmap
<1>2. Stacks' = Stacks
  BY DEF TakesNothing, Stacks
<1>3. PagesInv'
  BY <1>1, <1>2, PagesNext DEF PagesInv, PagesAccounted, TakesNothing, Stacks, NoTable, NoBitmap
<1>4. StackInv'
  BY DEF StackInv, KeepsUserStack
<1>. QED
  BY <1>3, <1>4

\* The machine stops, but not at a user stack.
LEMMA PagesAtStop ==
    ASSUME PsInv, PagesInv, StackInv, bug' # "user stack",
           UNCHANGED <<processVars, tableVars, threadVars, cpuVars, closeVars>>
    PROVE  PagesInv' /\ StackInv'
<1>1. TakesNothing
  BY DEF TakesNothing, processVars, tableVars, threadVars, closeVars
<1>2. KeepsUserStack
  BY DEF KeepsUserStack, threadVars, closeVars
<1>. QED
  BY <1>1, <1>2, PagesKept

\* Steps that change no process, or one that stays.
LEMMA PagesCalls ==
    ASSUME PsInv, PagesInv, StackInv, NEW t \in Threads,
           PsCreateProcess(t) \/ PspReadBinary(t) \/ UniqueProcessId(t) \/ CountThread(t)
    PROVE  PagesInv' /\ StackInv'
<1>1. CASE PsCreateProcess(t) \/ UniqueProcessId(t) \/ CountThread(t)
  <2>1. /\ UNCHANGED <<state, space, tableVars, tstate, owner, closeVars, bug>>
        /\ \A u \in Threads \ {t} : child'[u] = child[u]
        /\ \E place : pc' = [pc EXCEPT ![t] = place] /\ place \notin NoBitmap
        /\ pc[t] \notin NoBitmap
    BY <1>1 DEF PsCreateProcess, UniqueProcessId, CountThread, At, Goto, NoBitmap, processVars,
                PsInv, ControlInv, Types
  <2>2. \A u \in Threads : \/ pc'[u] = pc[u] /\ child'[u] = child[u]
                           \/ pc'[u] \notin NoBitmap /\ pc[u] \notin NoBitmap
    BY <2>1 DEF PsInv, ControlInv, Types
  <2>3. TakesNothing
    BY <2>1, <2>2 DEF TakesNothing, tableVars, closeVars
  <2>4. KeepsUserStack
    BY <2>1 DEF KeepsUserStack, closeVars
  <2>. QED
    BY <2>3, <2>4, PagesKept
<1>2. CASE PspReadBinary(t)
  <2>1. pc[t] \notin NoBitmap /\ "ObCreateObject" \notin NoBitmap
    BY <1>2 DEF PspReadBinary, At, NoBitmap
  <2>2. \/ /\ pc' = [pc EXCEPT ![t] = "ObCreateObject"] /\ bug' = bug
           /\ UNCHANGED <<processVars, tableVars, tstate, owner, cameBy, child, cpuVars, closeVars>>
        \/ /\ bug' # "user stack"
           /\ UNCHANGED <<processVars, tableVars, threadVars, cpuVars, closeVars>>
    BY <1>2 DEF PspReadBinary, Checked, Goto
  <2>3. CASE /\ pc' = [pc EXCEPT ![t] = "ObCreateObject"] /\ bug' = bug
             /\ UNCHANGED <<processVars, tableVars, tstate, owner, cameBy, child, cpuVars, closeVars>>
    <3>1. \A u \in Threads : \/ pc'[u] = pc[u] /\ child'[u] = child[u]
                             \/ pc'[u] \notin NoBitmap /\ pc[u] \notin NoBitmap
      BY <2>1, <2>3 DEF PsInv, ControlInv, Types
    <3>2. TakesNothing
      BY <2>3, <3>1 DEF TakesNothing, processVars, tableVars, closeVars
    <3>3. KeepsUserStack
      BY <2>3 DEF KeepsUserStack, closeVars
    <3>. QED
      BY <3>2, <3>3, PagesKept
  <2>4. CASE /\ bug' # "user stack"
             /\ UNCHANGED <<processVars, tableVars, threadVars, cpuVars, closeVars>>
    BY <2>4, PagesAtStop
  <2>. QED
    BY <2>2, <2>3, <2>4
<1>. QED
  BY <1>1, <1>2

LEMMA PagesInsertProcess ==
    ASSUME PsInv, PagesInv, StackInv, NEW t \in Threads, PspInsertProcess(t)
    PROVE  PagesInv' /\ StackInv'
<1>. PICK c : c = child[t]
  OBVIOUS
<1>1. /\ cpu = t /\ pc[t] = "PspInsertProcess" /\ state' = [state EXCEPT ![c] = "ACTIVE"]
      /\ pc' = [pc EXCEPT ![t] = "PspCreateThread"]
      /\ UNCHANGED <<space, pages, tstate, owner, child, closeVars, bug>>
  BY DEF PspInsertProcess, At, Goto
<1>2. c \in Processes /\ state[c] # "none"
  BY <1>1, ChildAlone DEF Building, Alive
<1>3. /\ \A p \in Processes : state'[p] # "none" <=> state[p] # "none"
      /\ pc'[t] = "PspCreateThread" /\ \A u \in Threads \ {t} : pc'[u] = pc[u]
  BY <1>1, <1>2 DEF PsInv, ControlInv, Types
<1>4. TakesNothing
  BY <1>1, <1>3 DEF TakesNothing, NoBitmap, closeVars
<1>5. KeepsUserStack
  BY <1>1 DEF KeepsUserStack, closeVars
<1>. QED
  BY <1>4, <1>5, PagesKept

\* The steps of an exit.
LEMMA PagesExit ==
    ASSUME PsInv, PagesInv, StackInv, NEW t \in Threads,
           \/ PspExitProcess(t) \/ ObReferenceObject(t) \/ EmptyThreadList(t)
           \/ PspRemoveProcess(t) \/ ObDereferenceObject(t)
    PROVE  PagesInv' /\ StackInv'
<1>. PICK p : p = owner[t]
  OBVIOUS
<1>1. cpu = t /\ lock = "none" /\ pc[t] \notin NoBitmap
  BY DEF PspExitProcess, ObReferenceObject, EmptyThreadList, PspRemoveProcess, ObDereferenceObject,
         At, NoBitmap
<1>2. p \in Processes /\ state[p] # "none"
  BY <1>1, OwnerAlive DEF Alive
<1>3. \/ /\ bug' # "user stack"
         /\ UNCHANGED <<processVars, tableVars, threadVars, cpuVars, closeVars>>
      \/ /\ bug' = bug /\ (state' = state \/ state' = [state EXCEPT ![p] = "TERMINATED"])
         /\ \E place : place \notin NoBitmap /\ pc' = [pc EXCEPT ![t] = place]
         /\ UNCHANGED <<space, pages, tstate, owner, child, closeVars>>
  <2>1. CASE PspExitProcess(t)
    BY <2>1 DEF PspExitProcess, Checked, Goto, NoBitmap, tableVars
  <2>2. CASE ObReferenceObject(t) \/ PspRemoveProcess(t)
    BY <2>2 DEF ObReferenceObject, PspRemoveProcess, Goto, NoBitmap, tableVars
  <2>3. CASE EmptyThreadList(t)
    BY <2>3 DEF EmptyThreadList, Checked, Goto, NoBitmap, tableVars
  <2>4. CASE ObDereferenceObject(t)
    BY <2>4 DEF ObDereferenceObject, Checked, Goto, NoBitmap, tableVars
  <2>. QED
    BY <2>1, <2>2, <2>3, <2>4
<1>4. CASE /\ bug' # "user stack"
           /\ UNCHANGED <<processVars, tableVars, threadVars, cpuVars, closeVars>>
  BY <1>4, PagesAtStop
<1>5. CASE /\ bug' = bug /\ (state' = state \/ state' = [state EXCEPT ![p] = "TERMINATED"])
           /\ \E place : place \notin NoBitmap /\ pc' = [pc EXCEPT ![t] = place]
           /\ UNCHANGED <<space, pages, tstate, owner, child, closeVars>>
  <2>0. PICK place : place \notin NoBitmap /\ pc' = [pc EXCEPT ![t] = place]
    BY <1>5
  <2>1. /\ \A q \in Processes : state'[q] # "none" <=> state[q] # "none"
        /\ pc'[t] \notin NoBitmap /\ \A u \in Threads \ {t} : pc'[u] = pc[u]
    <3>1. state' = state \/ state' = [state EXCEPT ![p] = "TERMINATED"]
      BY <1>5
    <3>. PICK S : state \in [Processes -> S]
      BY DEF PsInv, ControlInv, Types
    <3>2. \A q \in Processes : state'[q] # "none" <=> state[q] # "none"
      <4>1. CASE state' = state
        BY <4>1
      <4>2. CASE state' = [state EXCEPT ![p] = "TERMINATED"]
        <5>1. state'[p] = "TERMINATED" /\ \A q \in Processes \ {p} : state'[q] = state[q]
          BY <1>2, <4>2
        <5>. QED
          BY <1>2, <5>1
      <4>. QED
        BY <3>1, <4>1, <4>2
    <3>3. pc'[t] \notin NoBitmap /\ \A u \in Threads \ {t} : pc'[u] = pc[u]
      BY <2>0 DEF PsInv, ControlInv, Types
    <3>. QED
      BY <3>2, <3>3
  <2>2. TakesNothing
    BY <1>1, <1>5, <2>1 DEF TakesNothing, closeVars
  <2>3. KeepsUserStack
    BY <1>5 DEF KeepsUserStack, closeVars
  <2>. QED
    BY <2>2, <2>3, PagesKept
<1>. QED
  BY <1>3, <1>4, <1>5

\* The steps of the processor.
LEMMA PagesSchedule ==
    ASSUME PsInv, PagesInv, StackInv, NEW t \in Threads,
           Schedule(t) \/ KiBlockThread(t) \/ PsExitThread(t) \/ KiReadyThread(t)
    PROVE  PagesInv' /\ StackInv'
<1>1. /\ UNCHANGED <<state, space, pages, owner, child, closeVars, bug>>
      /\ \/ pc' = pc
         \/ /\ pc[t] \notin NoBitmap
            /\ \E place : place \notin NoBitmap /\ pc' = [pc EXCEPT ![t] = place]
  BY DEF Schedule, KiBlockThread, PsExitThread, KiReadyThread, At, Goto, NoBitmap, processVars, tableVars
<1>2. \A u \in Threads : tstate'[u] # "none" <=> tstate[u] # "none"
  <2>1. CASE KiReadyThread(t)
    BY <2>1 DEF KiReadyThread, PsInv, ControlInv, Types
  <2>2. CASE Schedule(t) \/ KiBlockThread(t) \/ PsExitThread(t)
    <3>1. /\ cpu = t /\ \E how, left \in {"READY", "WAITING", "TERMINATED", "Schedule", "wait"} :
                           left \in {"READY", "WAITING", "TERMINATED"} /\ KiSwapThread(t, how, left)
      BY <2>2 DEF Schedule, KiBlockThread, PsExitThread, At
    <3>. QED
      BY <3>1, SwapStates DEF PsInv
  <2>. QED
    BY <2>1, <2>2
<1>3. \A u \in Threads : \/ pc'[u] = pc[u] /\ child'[u] = child[u]
                         \/ pc'[u] \notin NoBitmap /\ pc[u] \notin NoBitmap
  BY <1>1 DEF PsInv, ControlInv, Types
<1>4. TakesNothing
  BY <1>1, <1>2, <1>3 DEF TakesNothing, closeVars
<1>5. KeepsUserStack
  BY <1>1 DEF KeepsUserStack, closeVars
<1>. QED
  BY <1>4, <1>5, PagesKept

\* The steps of the tail of Schedule that free nothing.
LEMMA PagesTail ==
    ASSUME PsInv, PagesInv, StackInv, NEW t \in Threads,
           EndOfTail(t) \/ ReleaseProcessLock(t) \/ PsDecProcessRundownProtect(t)
    PROVE  PagesInv' /\ StackInv'
<1>1. \/ UNCHANGED <<state, space, tableVars, threadVars, leaked, userStack, closed, debug, bug>>
      \/ /\ bug' # "user stack"
         /\ UNCHANGED <<processVars, tableVars, threadVars, cpuVars, closeVars>>
  <2>1. CASE EndOfTail(t) \/ ReleaseProcessLock(t)
    BY <2>1 DEF EndOfTail, ReleaseProcessLock, processVars, closeVars
  <2>2. CASE PsDecProcessRundownProtect(t)
    BY <2>2 DEF PsDecProcessRundownProtect, Checked
  <2>. QED
    BY <2>1, <2>2
<1>2. CASE UNCHANGED <<state, space, tableVars, threadVars, leaked, userStack, closed, debug, bug>>
  <2>1. TakesNothing
    BY <1>2 DEF TakesNothing, tableVars, threadVars
  <2>2. KeepsUserStack
    BY <1>2 DEF KeepsUserStack, threadVars
  <2>. QED
    BY <2>1, <2>2, PagesKept
<1>3. CASE /\ bug' # "user stack"
           /\ UNCHANGED <<processVars, tableVars, threadVars, cpuVars, closeVars>>
  BY <1>3, PagesAtStop
<1>. QED
  BY <1>1, <1>2, <1>3

\* The memory of the new process is in no sum before its handle table is.
LEMMA PagesCreateObject ==
    ASSUME PsInv, PagesInv, StackInv, NEW t \in Threads, ObCreateObject(t)
    PROVE  PagesInv' /\ StackInv'
<1>. PICK p : p = FreeProcess
  OBVIOUS
<1>1. /\ cpu = t /\ lock = "none" /\ pc[t] = "ObCreateObject" /\ p \in Processes /\ state[p] = "none"
      /\ state' = [state EXCEPT ![p] = "CREATION"] /\ child' = [child EXCEPT ![t] = p]
      /\ pc' = [pc EXCEPT ![t] = "ObInsertHandle"]
      /\ UNCHANGED <<space, pages, tstate, owner, closeVars, bug>>
  BY DEF ObCreateObject, FreeProcess, At, Goto, tableVars
<1>2. /\ \A q \in Processes \ {p} : state'[q] = state[q]
      /\ pc'[t] = "ObInsertHandle" /\ child'[t] = p
      /\ \A u \in Threads \ {t} : pc'[u] = pc[u] /\ child'[u] = child[u]
  BY <1>1 DEF PsInv, ControlInv, Types
<1>3. ASSUME NEW steps, "ObInsertHandle" \in steps, "ObCreateObject" \notin steps
      PROVE  Beyond(steps)' = Beyond(steps)
  <2>1. p \notin Beyond(steps) /\ p \notin Beyond(steps)'
    BY <1>1, <1>2, <1>3 DEF Beyond, Alive
  <2>2. ASSUME NEW q \in Processes \ {p}
        PROVE  q \in Beyond(steps)' <=> q \in Beyond(steps)
    <3>1. \A u \in Threads : (child'[u] = q => pc'[u] \notin steps) <=> (child[u] = q => pc[u] \notin steps)
      BY <1>1, <1>2, <1>3
    <3>. QED
      BY <1>2, <3>1 DEF Beyond, Alive
  <2>3. Beyond(steps) \subseteq Processes /\ Beyond(steps)' \subseteq Processes
    BY DEF Beyond
  <2>. QED
    BY <2>1, <2>2, <2>3
<1>4. /\ Beyond(NoTable)' = Beyond(NoTable) /\ Beyond(NoSpace)' = Beyond(NoSpace)
      /\ Beyond(NoBitmap)' = Beyond(NoBitmap)
  BY <1>3 DEF NoTable, NoSpace, NoBitmap
<1>5. UNCHANGED <<space, pages, leaked, owner, userStack, closed, debug, bug>> /\ Stacks' = Stacks
  BY <1>1 DEF closeVars, Stacks
<1>6. PagesInv'
  BY <1>4, <1>5, PagesNext DEF PagesInv, PagesAccounted, Stacks, NoTable, NoBitmap
<1>7. StackInv'
  BY <1>5 DEF StackInv
<1>. QED
  BY <1>6, <1>7

\* The creator takes a page for the handle table, the page directory or the bitmap.
LEMMA PagesBuild ==
    ASSUME PsInv, PagesInv, StackInv, NEW t \in Threads,
           ObInsertHandle(t) \/ PspAllocateProcess(t) \/ MmCloneUserPtes(t)
    PROVE  PagesInv' /\ StackInv'
<1>. PICK c : c = child[t]
  OBVIOUS
<1>1. cpu = t /\ lock = "none" /\ pc[t] \in NoBitmap
  BY DEF ObInsertHandle, PspAllocateProcess, MmCloneUserPtes, At, NoBitmap
<1>2. \/ bug' # "user stack" /\ UNCHANGED <<processVars, tableVars, threadVars, cpuVars, closeVars>>
      \/ /\ pages >= 1 /\ pages' = pages - 1
         /\ UNCHANGED <<state, tstate, owner, child, closeVars, bug>>
         /\ \/ /\ pc[t] = "ObInsertHandle" /\ space' = space
               /\ pc' = [pc EXCEPT ![t] = "PsIncProcessRundownProtect"]
            \/ /\ pc[t] = "PsIncProcessRundownProtect" /\ space' = space \cup {c}
               /\ pc' = [pc EXCEPT ![t] = "MmCloneUserPtes"]
            \/ /\ pc[t] = "MmCloneUserPtes" /\ space' = space
               /\ pc' = [pc EXCEPT ![t] = "PspInsertProcess"]
  <2>1. CASE ObInsertHandle(t)
    BY <2>1 DEF ObInsertHandle, Checked, MmAllocateSystemPtes, At, Goto
  <2>2. CASE PspAllocateProcess(t)
    BY <2>2 DEF PspAllocateProcess, Checked, MmAllocateSystemPtes, At, Goto
  <2>3. CASE MmCloneUserPtes(t)
    BY <2>3 DEF MmCloneUserPtes, Checked, MmAllocateSystemPtes, At, Goto, processVars
  <2>. QED
    BY <2>1, <2>2, <2>3
<1>3. CASE bug' # "user stack" /\ UNCHANGED <<processVars, tableVars, threadVars, cpuVars, closeVars>>
  BY <1>3, PagesAtStop
<1>4. CASE /\ pages >= 1 /\ pages' = pages - 1
           /\ UNCHANGED <<state, tstate, owner, child, closeVars, bug>>
           /\ \/ /\ pc[t] = "ObInsertHandle" /\ space' = space
                 /\ pc' = [pc EXCEPT ![t] = "PsIncProcessRundownProtect"]
              \/ /\ pc[t] = "PsIncProcessRundownProtect" /\ space' = space \cup {c}
                 /\ pc' = [pc EXCEPT ![t] = "MmCloneUserPtes"]
              \/ /\ pc[t] = "MmCloneUserPtes" /\ space' = space
                 /\ pc' = [pc EXCEPT ![t] = "PspInsertProcess"]
  <2>1. /\ leaked' = leaked /\ Stacks' = Stacks /\ StackInv' /\ NoBitmap \subseteq Building \ {"CountThread"}
        /\ NoTable \subseteq NoBitmap /\ NoSpace \subseteq NoBitmap
    BY <1>4 DEF closeVars, Stacks, StackInv, NoTable, NoSpace, NoBitmap, Building
  <2>2. c # System /\ space \ {System} = Beyond(NoSpace)
    BY <1>1, <2>1, ChildAlone DEF PagesInv
  <2>. PICK m : m = StackPages * Cardinality(Stacks)
    OBVIOUS
  <2>. PICK a : a = Cardinality(Beyond(NoTable))
    OBVIOUS
  <2>. PICK b : b = Cardinality(Beyond(NoSpace))
    OBVIOUS
  <2>. PICK d : d = Cardinality(Beyond(NoBitmap))
    OBVIOUS
  <2>3. /\ NSystemPages = pages + leaked + m + a + b + d /\ m \in Nat /\ pages \in Nat /\ leaked \in Nat
        /\ a \in Nat /\ b \in Nat /\ d \in Nat
    BY PagesAre
  <2>4. ASSUME NEW steps, \A u \in Threads : pc'[u] \in steps <=> pc[u] \in steps
        PROVE  Beyond(steps)' = Beyond(steps)
    BY <1>4, <2>4, BeyondSame
  <2>5. \A u \in Threads : pc'[u] = IF u = t THEN pc'[t] ELSE pc[u]
    BY <1>4 DEF PsInv, ControlInv, Types
  <2>6. CASE /\ pc[t] = "ObInsertHandle" /\ space' = space
             /\ pc' = [pc EXCEPT ![t] = "PsIncProcessRundownProtect"]
    <3>1. "ObInsertHandle" \in NoTable /\ "PsIncProcessRundownProtect" \notin NoTable
      BY DEF NoTable
    <3>2. Cardinality(Beyond(NoTable)') = a + 1
      BY <1>1, <1>4, <2>1, <2>6, <3>1, BeyondMore
    <3>3. pc'[t] = "PsIncProcessRundownProtect"
      BY <2>6 DEF PsInv, ControlInv, Types
    <3>4. \A u \in Threads : /\ (pc'[u] \in NoSpace <=> pc[u] \in NoSpace)
                             /\ (pc'[u] \in NoBitmap <=> pc[u] \in NoBitmap)
      BY <2>5, <2>6, <3>3 DEF NoSpace, NoBitmap
    <3>5. Beyond(NoSpace)' = Beyond(NoSpace) /\ Beyond(NoBitmap)' = Beyond(NoBitmap)
      BY <2>4, <3>4
    <3>6. NSystemPages = pages' + leaked' + m + Cardinality(Beyond(NoTable)')
                         + Cardinality(Beyond(NoSpace)') + Cardinality(Beyond(NoBitmap)')
      BY <1>4, <2>1, <2>3, <3>2, <3>5
    <3>. QED
      BY <2>1, <2>2, <2>6, <3>5, <3>6, PagesNext
  <2>7. CASE /\ pc[t] = "PsIncProcessRundownProtect" /\ space' = space \cup {c}
             /\ pc' = [pc EXCEPT ![t] = "MmCloneUserPtes"]
    <3>1. "PsIncProcessRundownProtect" \in NoSpace /\ "MmCloneUserPtes" \notin NoSpace
      BY DEF NoSpace
    <3>2. Beyond(NoSpace)' = Beyond(NoSpace) \cup {c} /\ Cardinality(Beyond(NoSpace)') = b + 1
      BY <1>1, <1>4, <2>1, <2>7, <3>1, BeyondMore
    <3>3. pc'[t] = "MmCloneUserPtes"
      BY <2>7 DEF PsInv, ControlInv, Types
    <3>4. \A u \in Threads : /\ (pc'[u] \in NoTable <=> pc[u] \in NoTable)
                             /\ (pc'[u] \in NoBitmap <=> pc[u] \in NoBitmap)
      BY <2>5, <2>7, <3>3 DEF NoTable, NoBitmap
    <3>5. Beyond(NoTable)' = Beyond(NoTable) /\ Beyond(NoBitmap)' = Beyond(NoBitmap)
      BY <2>4, <3>4
    <3>6. NSystemPages = pages' + leaked' + m + Cardinality(Beyond(NoTable)')
                         + Cardinality(Beyond(NoSpace)') + Cardinality(Beyond(NoBitmap)')
      BY <1>4, <2>1, <2>3, <3>2, <3>5
    <3>7. space' \ {System} = Beyond(NoSpace)'
      BY <2>2, <2>7, <3>2
    <3>. QED
      BY <2>1, <3>6, <3>7, PagesNext
  <2>8. CASE pc[t] = "MmCloneUserPtes" /\ space' = space /\ pc' = [pc EXCEPT ![t] = "PspInsertProcess"]
    <3>1. "MmCloneUserPtes" \in NoBitmap /\ "PspInsertProcess" \notin NoBitmap
      BY DEF NoBitmap
    <3>2. Cardinality(Beyond(NoBitmap)') = d + 1
      BY <1>1, <1>4, <2>1, <2>8, <3>1, BeyondMore
    <3>3. pc'[t] = "PspInsertProcess"
      BY <2>8 DEF PsInv, ControlInv, Types
    <3>4. \A u \in Threads : /\ (pc'[u] \in NoTable <=> pc[u] \in NoTable)
                             /\ (pc'[u] \in NoSpace <=> pc[u] \in NoSpace)
      BY <2>5, <2>8, <3>3 DEF NoTable, NoSpace
    <3>5. Beyond(NoTable)' = Beyond(NoTable) /\ Beyond(NoSpace)' = Beyond(NoSpace)
      BY <2>4, <3>4
    <3>6. NSystemPages = pages' + leaked' + m + Cardinality(Beyond(NoTable)')
                         + Cardinality(Beyond(NoSpace)') + Cardinality(Beyond(NoBitmap)')
      BY <1>4, <2>1, <2>3, <3>2, <3>5
    <3>. QED
      BY <2>1, <2>2, <2>8, <3>5, <3>6, PagesNext
  <2>. QED
    BY <1>4, <2>1, <2>6, <2>7, <2>8
<1>. QED
  BY <1>2, <1>3, <1>4

\* A thread of a program sets the bits of its user stack; that of a fork shares
\* those of its creator.
LEMMA PagesCreateThread ==
    ASSUME PsInv, PagesInv, StackInv, NEW t \in Threads, PspCreateThread(t)
    PROVE  PagesInv' /\ StackInv'
<1>. PICK c : c = child[t]
  OBVIOUS
<1>. PICK n : n = FreeThread
  OBVIOUS
<1>1. cpu = t /\ lock = "none" /\ pc[t] = "PspCreateThread" /\ n \in Threads /\ tstate[n] = "none"
  BY DEF PspCreateThread, FreeThread, At
<1>2. c \in Processes /\ c # System
  BY <1>1, ChildAlone DEF Building
<1>3. tstate[t] = "RUNNING" /\ owner[t] \in Processes /\ pc[n] = "run" /\ n # t /\ n \notin {Boot, Idle}
  <2>1. Running(n) /\ SystemFits /\ tstate[t] = "RUNNING" /\ owner[t] \in Processes
    BY <1>1, CurrentThread DEF PsInv, ControlInv, LifeInv
  <2>. QED
    BY <1>1, <2>1, ConstantsFit DEF Running, SystemFits
<1>4. \/ bug' # "user stack" /\ UNCHANGED <<processVars, tableVars, threadVars, cpuVars, closeVars>>
      \/ /\ pages' = pages - StackPages /\ userStack' = (userStack \/ owner[t] = System)
         /\ owner' = [owner EXCEPT ![n] = c] /\ tstate' = [tstate EXCEPT ![n] = "READY"]
         /\ pc' = [pc EXCEPT ![n] = "run", ![t] = "CountThread"]
         /\ UNCHANGED <<state, space, child, leaked, closed, debug, bug>>
  BY DEF PspCreateThread, Checked, PspAllocateThread
<1>5. CASE bug' # "user stack" /\ UNCHANGED <<processVars, tableVars, threadVars, cpuVars, closeVars>>
  BY <1>5, PagesAtStop
<1>6. CASE /\ pages' = pages - StackPages /\ userStack' = (userStack \/ owner[t] = System)
           /\ owner' = [owner EXCEPT ![n] = c] /\ tstate' = [tstate EXCEPT ![n] = "READY"]
           /\ pc' = [pc EXCEPT ![n] = "run", ![t] = "CountThread"]
           /\ UNCHANGED <<state, space, child, leaked, closed, debug, bug>>
  <2>1. /\ tstate'[n] = "READY" /\ pc'[n] = "run" /\ pc'[t] = "CountThread"
        /\ \A u \in Threads \ {n} : tstate'[u] = tstate[u] /\ owner'[u] = owner[u]
        /\ \A u \in Threads \ {n, t} : pc'[u] = pc[u]
    BY <1>1, <1>3, <1>6 DEF PsInv, ControlInv, Types
  <2>2. Stacks' = Stacks \cup {n} /\ n \notin Stacks
    BY <1>1, <1>3, <2>1 DEF Stacks
  <2>3. \A u \in Threads : pc'[u] = pc[u] \/ (pc'[u] \notin NoBitmap /\ pc[u] \notin NoBitmap)
    BY <1>1, <1>3, <2>1 DEF NoBitmap
  <2>4. /\ Beyond(NoTable)' = Beyond(NoTable) /\ Beyond(NoSpace)' = Beyond(NoSpace)
        /\ Beyond(NoBitmap)' = Beyond(NoBitmap)
    BY <1>6, <2>3, BeyondSame DEF NoTable, NoSpace, NoBitmap
  <2>. PICK k : k = Cardinality(Stacks)
    OBVIOUS
  <2>. PICK m : m = StackPages * k
    OBVIOUS
  <2>. PICK a : a = Cardinality(Beyond(NoTable)) + Cardinality(Beyond(NoSpace))
                    + Cardinality(Beyond(NoBitmap))
    OBVIOUS
  <2>5. Cardinality(Stacks') = k + 1 /\ k \in Nat
    BY <2>2, FinitePages, OneMore
  <2>6. m \in Nat /\ StackPages * (k + 1) = m + StackPages
    BY <2>5, ConstantsFit, Products
  <2>7. NSystemPages = pages + leaked + m + a /\ pages \in Nat /\ leaked \in Nat /\ a \in Nat
    BY PagesAre
  <2>8. /\ NSystemPages = pages' + leaked' + (m + StackPages) + a
    BY <1>6, <2>6, <2>7, ConstantsFit
  <2>9. /\ Cardinality(Beyond(NoTable)) \in Nat /\ Cardinality(Beyond(NoSpace)) \in Nat
        /\ Cardinality(Beyond(NoBitmap)) \in Nat
    BY FinitePages
  <2>10. NSystemPages = pages' + leaked' + StackPages * (k + 1) + Cardinality(Beyond(NoTable)')
                        + Cardinality(Beyond(NoSpace)') + Cardinality(Beyond(NoBitmap)')
    <3>1. pages' \in Int /\ leaked' \in Nat /\ StackPages * (k + 1) \in Nat
      BY <1>6, <2>6, <2>7, ConstantsFit
    <3>. QED
      BY <2>4, <2>6, <2>8, <2>9, <3>1
  <2>11. space' \ {System} = Beyond(NoSpace)'
    BY <1>6, <2>4 DEF PagesInv
  <2>12. PagesInv'
    BY <2>5, <2>10, <2>11, PagesNext
  <2>13. userStack' \/ closed'
    BY <1>3, <1>6, ConstantsFit DEF StackInv
  <2>14. StackInv'
    BY <1>6, <2>13 DEF StackInv
  <2>. QED
    BY <2>12, <2>14
<1>. QED
  BY <1>4, <1>5, <1>6

\* The close gives the stack back and clears the bits of the user stack.
LEMMA PagesCloseThread ==
    ASSUME PsInv, PagesInv, StackInv, NEW t \in Threads, PsCloseThread(t)
    PROVE  PagesInv' /\ StackInv'
<1>. PICK x : x = Head(exitList)
  OBVIOUS
<1>. PICK p : p = owner[x]
  OBVIOUS
<1>1. Reaps(t) /\ exitList # <<>>
  BY DEF PsCloseThread
<1>2. /\ x \in Threads \ {t, Boot, Idle} /\ tstate[x] = "TERMINATED" /\ pc[x] = "gone"
      /\ p \in Processes \ {System} /\ active[p] = 1
      /\ \A u \in Threads \ {x} : owner[u] # p
  BY <1>1, ExitedThread
<1>3. MayClose(t, x)
  <2>1. active[owner[x]] > 0
    BY <1>2
  <2>. QED
    BY <1>2, <2>1 DEF MayClose
<1>4. CASE ~BmBitmapTest
  <2>1. UNCHANGED <<processVars, tableVars, threadVars, cpuVars, closeVars>>
    BY <1>3, <1>4 DEF PsCloseThread, Checked
  <2>2. /\ UNCHANGED <<state, space, pages, tstate, owner, pc, child, leaked, userStack, closed, debug>>
    BY <2>1 DEF processVars, tableVars, threadVars, closeVars
  <2>3. debug /\ closed
    BY <1>2, <1>4, ConstantsFit DEF BmBitmapTest, StackInv
  <2>4. StackInv'
    BY <2>2, <2>3 DEF StackInv
  <2>5. TakesNothing
    BY <2>2 DEF TakesNothing
  <2>6. Stacks' = Stacks /\ Beyond(NoTable)' = Beyond(NoTable) /\ Beyond(NoSpace)' = Beyond(NoSpace)
        /\ Beyond(NoBitmap)' = Beyond(NoBitmap)
    BY <2>2 DEF Stacks, Beyond, Alive
  <2>7. PagesInv'
    BY <2>2, <2>6, PagesNext DEF PagesInv, PagesAccounted, Stacks, NoTable, NoBitmap
  <2>. QED
    BY <2>4, <2>7
<1>5. CASE BmBitmapTest
  <2>1. /\ pages' = pages + StackPages /\ tstate' = [tstate EXCEPT ![x] = "none"]
        /\ owner' = [owner EXCEPT ![x] = None] /\ pc' = [pc EXCEPT ![x] = "run"]
        /\ child' = [child EXCEPT ![x] = None] /\ closed' = TRUE
        /\ UNCHANGED <<state, space, leaked, debug, bug>>
    BY <1>3, <1>5 DEF PsCloseThread, Checked, FreedStack
  <2>2. /\ tstate'[x] = "none" /\ pc'[x] = "run"
        /\ \A u \in Threads \ {x} : tstate'[u] = tstate[u] /\ pc'[u] = pc[u] /\ child'[u] = child[u]
    BY <1>2, <2>1 DEF PsInv, ControlInv, Types
  <2>3. Stacks' = Stacks \ {x} /\ x \in Stacks
    BY <1>2, <2>2 DEF Stacks
  <2>4. "run" \notin NoBitmap /\ "gone" \notin NoBitmap
    BY DEF NoBitmap
  <2>5. /\ Beyond(NoTable)' = Beyond(NoTable) /\ Beyond(NoSpace)' = Beyond(NoSpace)
        /\ Beyond(NoBitmap)' = Beyond(NoBitmap)
    <3>1. \A u \in Threads : \/ pc'[u] = pc[u] /\ child'[u] = child[u]
                             \/ pc'[u] \notin NoBitmap /\ pc[u] \notin NoBitmap
      BY <1>2, <2>2, <2>4
    <3>. QED
      BY <2>1, <3>1, BeyondSame DEF NoTable, NoSpace, NoBitmap
  <2>. PICK k : k = Cardinality(Stacks')
    OBVIOUS
  <2>. PICK m : m = StackPages * k
    OBVIOUS
  <2>6. Cardinality(Stacks) = k + 1 /\ k \in Nat
    BY <2>3, FinitePages, OneLess
  <2>7. m \in Nat /\ StackPages * (k + 1) = m + StackPages
    BY <2>6, ConstantsFit, Products
  <2>8. /\ NSystemPages = pages + leaked + (m + StackPages) + Cardinality(Beyond(NoTable))
                          + Cardinality(Beyond(NoSpace)) + Cardinality(Beyond(NoBitmap))
        /\ pages \in Nat /\ leaked \in Nat
        /\ Cardinality(Beyond(NoTable)) \in Nat /\ Cardinality(Beyond(NoSpace)) \in Nat
        /\ Cardinality(Beyond(NoBitmap)) \in Nat
    BY <2>6, <2>7, PagesAre
  <2>9. NSystemPages = pages' + leaked' + m + Cardinality(Beyond(NoTable)')
                       + Cardinality(Beyond(NoSpace)') + Cardinality(Beyond(NoBitmap)')
    BY <2>1, <2>5, <2>7, <2>8, ConstantsFit
  <2>10. space' \ {System} = Beyond(NoSpace)'
    BY <2>1, <2>5 DEF PagesInv
  <2>11. PagesInv'
    BY <2>9, <2>10, PagesNext
  <2>12. StackInv'
    BY <2>1 DEF StackInv
  <2>. QED
    BY <2>11, <2>12
<1>. QED
  BY <1>4, <1>5

\* One table, one directory and one bitmap less, one page free and two leaked.
LEMMA OneMoreEach ==
    ASSUME NEW x \in Nat, NEW y \in Nat, NEW m \in Nat, NEW a \in Nat, NEW b \in Nat, NEW d \in Nat
    PROVE  (x + 1) + (y + 2) + m + a + b + d = x + y + m + (a + 1) + (b + 1) + (d + 1)
  OBVIOUS

\* The page directory of a freed process is given back, its other two PTEs are lost.
LEMMA PagesFreeProcess ==
    ASSUME PsInv, PagesInv, StackInv, NEW t \in Threads, PspFreeProcess(t)
    PROVE  PagesInv' /\ StackInv'
<1>. PICK p : p = unwind[Len(unwind)]
  OBVIOUS
<1>1. Reaps(t) /\ unwind # <<>>
  BY DEF PspFreeProcess
<1>2. /\ p \in Processes /\ Alive(p) /\ p # System /\ \A u \in Threads : ~Builds(u, p)
  <2>1. unwind \in Seq(Processes) /\ Len(unwind) \in 1 .. Len(unwind) /\ p \in Processes
    BY <1>1, UnwindFront DEF PsInv, ControlInv, Types
  <2>2. Alive(p) /\ Unwound(p)
    BY <2>1 DEF PsInv, LifeInv, UnwindFits, Unwound
  <2>. QED
    BY <2>1, <2>2 DEF PsInv, LifeInv, SystemFits, BuildFits
<1>3. \/ bug' # "user stack" /\ UNCHANGED <<processVars, tableVars, threadVars, cpuVars, closeVars>>
      \/ /\ pages' = pages + 1 /\ leaked' = leaked + 2 /\ space' = space \ {p}
         /\ state' = [state EXCEPT ![p] = "none"]
         /\ UNCHANGED <<tstate, owner, pc, child, userStack, closed, debug, bug>>
  BY DEF PspFreeProcess, Checked, threadVars
<1>4. CASE bug' # "user stack" /\ UNCHANGED <<processVars, tableVars, threadVars, cpuVars, closeVars>>
  BY <1>4, PagesAtStop
<1>5. CASE /\ pages' = pages + 1 /\ leaked' = leaked + 2 /\ space' = space \ {p}
           /\ state' = [state EXCEPT ![p] = "none"]
           /\ UNCHANGED <<tstate, owner, pc, child, userStack, closed, debug, bug>>
  <2>1. state'[p] = "none" /\ \A q \in Processes \ {p} : state'[q] = state[q]
    BY <1>2, <1>5 DEF PsInv, ControlInv, Types
  <2>2. ASSUME NEW steps, steps \subseteq Building
        PROVE  /\ Beyond(steps)' = Beyond(steps) \ {p}
               /\ Cardinality(Beyond(steps)) = Cardinality(Beyond(steps)') + 1
               /\ Cardinality(Beyond(steps)') \in Nat
    <3>1. p \in Beyond(steps)
      BY <1>2, <2>2 DEF Beyond, Builds
    <3>2. p \notin Beyond(steps)'
      BY <2>1 DEF Beyond, Alive
    <3>3. ASSUME NEW q \in Processes \ {p} PROVE q \in Beyond(steps)' <=> q \in Beyond(steps)
      BY <1>5, <2>1 DEF Beyond, Alive
    <3>4. Beyond(steps) \subseteq Processes /\ Beyond(steps)' \subseteq Processes
      BY DEF Beyond
    <3>5. Beyond(steps)' = Beyond(steps) \ {p}
      BY <3>2, <3>3, <3>4
    <3>. QED
      BY <3>1, <3>5, FinitePages, OneLess
  <2>3. NoTable \subseteq Building /\ NoSpace \subseteq Building /\ NoBitmap \subseteq Building
    BY DEF NoTable, NoSpace, NoBitmap, Building
  <2>. PICK a : a = Cardinality(Beyond(NoTable)')
    OBVIOUS
  <2>. PICK b : b = Cardinality(Beyond(NoSpace)')
    OBVIOUS
  <2>. PICK d : d = Cardinality(Beyond(NoBitmap)')
    OBVIOUS
  <2>4. /\ Cardinality(Beyond(NoTable)) = a + 1 /\ Cardinality(Beyond(NoSpace)) = b + 1
        /\ Cardinality(Beyond(NoBitmap)) = d + 1 /\ a \in Nat /\ b \in Nat /\ d \in Nat
    BY <2>2, <2>3
  <2>. PICK m : m = StackPages * Cardinality(Stacks)
    OBVIOUS
  <2>5. /\ NSystemPages = pages + leaked + m + (a + 1) + (b + 1) + (d + 1)
        /\ m \in Nat /\ pages \in Nat /\ leaked \in Nat
    BY <2>4, PagesAre
  <2>6. NSystemPages = pages' + leaked' + m + a + b + d
    <3>1. pages' = pages + 1 /\ leaked' = leaked + 2
      BY <1>5
    <3>2. PICK x \in Nat, y \in Nat : x = pages /\ y = leaked
      BY <2>5
    <3>. m \in Nat
      BY <2>5
    <3>3. (x + 1) + (y + 2) + m + a + b + d = x + y + m + (a + 1) + (b + 1) + (d + 1)
      BY ONLY x \in Nat, y \in Nat, <2>4, m \in Nat, OneMoreEach
    <3>4. NSystemPages = x + y + m + (a + 1) + (b + 1) + (d + 1)
      BY <2>5, <3>2
    <3>5. pages' = x + 1 /\ leaked' = y + 2
      BY <3>1, <3>2
    <3>. QED
      BY ONLY <3>3, <3>4, <3>5
  <2>7. space' \ {System} = Beyond(NoSpace)'
    BY <1>2, <1>5, <2>2, <2>3 DEF PagesInv
  <2>8. Stacks' = Stacks
    BY <1>5 DEF Stacks
  <2>9. PagesInv'
    BY <2>6, <2>7, <2>8, PagesNext
  <2>10. StackInv'
    BY <1>5 DEF StackInv
  <2>. QED
    BY <2>9, <2>10
<1>. QED
  BY <1>3, <1>4, <1>5

-----------------------------------------------------------------------------
(* The invariant of the specification.                                      *)

LEMMA InitTypes ==
    ASSUME Init
    PROVE  ControlInv
<1>1. Types
  <2>1. /\ refs \in [Processes -> Nat] /\ rundown \in [Processes -> Nat]
        /\ active \in [Processes -> Nat] /\ count \in [Processes -> Int] /\ pages \in Nat
        /\ leaked \in Nat /\ userStack \in BOOLEAN /\ closed \in BOOLEAN /\ debug \in BOOLEAN
    BY ConstantsFit DEF Init
  <2>2. /\ state \in [Processes -> {"none", "CREATION", "ACTIVE", "TERMINATED"}]
        /\ flags \in [Processes -> SUBSET Flags]
        /\ parent \in [Processes -> Processes \cup {None}]
        /\ space \subseteq Processes /\ activeList \subseteq Processes
        /\ list \in [Processes -> SUBSET Threads]
    BY ConstantsFit DEF Init
  <2>3. pid \in [Processes -> Slots] /\ PidTable \in [Slots -> Processes \cup {None}]
    BY ConstantsFit DEF Init
  <2>4. /\ tstate \in [Threads -> {"none", "READY", "RUNNING", "WAITING", "TERMINATED"}]
        /\ owner \in [Threads -> Processes \cup {None}]
        /\ pc \in [Threads -> Places]
        /\ cameBy \in [Threads -> {"start", "Schedule", "wait"}]
        /\ child \in [Threads -> Processes \cup {None}]
    BY ConstantsFit DEF Init, Places
  <2>5. /\ cpu \in Threads /\ ready \in Seq(Threads) /\ exitList \in Seq(Threads)
        /\ lock \in {"none", "ProcessLock", "ExitThreadLock"}
        /\ drop \in Processes \cup {None} /\ unwind \in Seq(Processes)
        /\ dead \subseteq Processes \cup {None}
        /\ stale \subseteq {"pid", "lock", "rundown", "exit", "close"}
    BY ConstantsFit DEF Init
  <2>. QED
    BY <2>1, <2>2, <2>3, <2>4, <2>5 DEF Types
<1>2. ASSUME NEW t \in Threads PROVE Running(t)
  BY ConstantsFit DEF Init, Running, Building
<1>3. ListOf(ready, "READY")
  <2>1. ready = <<Idle>> /\ Len(ready) = 1 /\ ready[1] = Idle /\ tstate[Idle] = "READY"
    BY ConstantsFit DEF Init
  <2>2. \A i \in 1 .. Len(ready) : i = 1
    BY <2>1
  <2>. QED
    BY <2>1, <2>2 DEF ListOf
<1>4. ListOf(exitList, "TERMINATED")
  <2>1. \A i \in 1 .. Len(exitList) : FALSE
    BY DEF Init
  <2>. QED
    BY <2>1 DEF ListOf
<1>. QED
  BY <1>1, <1>2, <1>3, <1>4 DEF ControlInv, Init

LEMMA InitLife ==
    ASSUME Init
    PROVE  LifeInv
<1>1. \A i \in 1 .. Len(unwind) : FALSE
  BY DEF Init
<1>2. UnwindFits /\ DropFits /\ \A q : ~Unwound(q)
  BY <1>1 DEF UnwindFits, DropFits, Unwound, Init
<1>3. /\ \A q \in Processes : Alive(q) <=> q = System
      /\ \A t \in Threads : owner[t] = System <=> t \in {Boot, Idle}
      /\ \A t \in Threads : owner[t] \in {System, None}
      /\ \A t \in Threads : pc[t] \in {"PsCreateProcess", "run"}
  BY ConstantsFit DEF Init, Alive
<1>4. \A t \in Threads : pc[t] \notin Building /\ pc[t] \notin Exits /\ pc[t] # "CountThread"
  BY <1>3 DEF Building, Exits
<1>5. SystemFits
  BY <1>2, <1>3, <1>4, ConstantsFit DEF SystemFits, Init
<1>6. ASSUME NEW t \in Threads, NEW p \in Processes PROVE BuildFits(t, p) /\ OwnerFits(t, p)
  BY <1>3, <1>4, ConstantsFit DEF BuildFits, OwnerFits, Builds
<1>7. ASSUME NEW p \in Processes PROVE WaitFits(p) /\ ParentFits(p)
  BY <1>3 DEF WaitFits, ParentFits, Init
<1>8. ASSUME NEW p \in Processes PROVE CountFits(p)
  <2>1. SUFFICES ASSUME p = System PROVE CountFits(System)
    BY <1>3 DEF CountFits
  <2>2. Uncounted(System) = {} /\ Children(System) = {}
    BY <1>4, ConstantsFit DEF Uncounted, Children, Init
  <2>3. Counted(System) = {Idle}
    BY <1>3, ConstantsFit DEF Counted
  <2>4. Dropping(System) = 0
    BY ConstantsFit DEF Dropping, Init
  <2>5. Cardinality(Uncounted(System)) = 0 /\ Cardinality(Children(System)) = 0
    BY <2>2, FS_EmptySet
  <2>6. Cardinality(Counted(System)) = 1
    BY <2>3, FS_Singleton
  <2>7. rundown[System] = 1 /\ active[System] = 1
    BY ConstantsFit DEF Init
  <2>. QED
    BY <2>4, <2>5, <2>6, <2>7 DEF CountFits
<1>9. KnownStaleUses
  BY DEF KnownStaleUses, Init
<1>. QED
  BY <1>2, <1>5, <1>6, <1>7, <1>8, <1>9 DEF LifeInv

LEMMA InitResources ==
    ASSUME Init
    PROVE  ResourceInv
<1>1. KnownStop
  BY DEF KnownStop, Stops, Init
<1>2. \A p \in Processes : count[p] >= -1
  BY DEF Init
<1>3. \A t \in Threads : pc[t] # "ObInsertHandle"
  BY DEF Init
<1>4. PidsExact
  BY ConstantsFit DEF PidsExact, Alive, Init
<1>. QED
  BY <1>1, <1>2, <1>3, <1>4 DEF ResourceInv

LEMMA NextKeeps ==
    ASSUME PsInv, [Next]_vars
    PROVE  PsInv'
<1>1. CASE UNCHANGED vars
  <2>1. UNCHANGED <<processVars, tableVars, threadVars, cpuVars, closeVars, stale, bug>>
    BY <1>1 DEF vars
  <2>2. bug' \in Stops /\ stale' \subseteq {"pid", "lock"}
    BY <2>1 DEF PsInv, LifeInv, ResourceInv, KnownStaleUses, KnownStop, Stops
  <2>. QED
    BY <2>1, <2>2, MachineStops
<1>2. CASE Next
  <2>1. PICK t \in Threads :
           \/ CallStep(t) \/ TailStep(t) \/ PsCreateProcess(t) \/ PspExitProcess(t)
           \/ Schedule(t) \/ KiBlockThread(t) \/ KiReadyThread(t)
    BY <1>2 DEF Next
  <2>2. CASE CallStep(t)
    BY <2>2, KeepsCalls, KeepsObCreateObject, KeepsObInsertHandle, KeepsPspAllocateProcess,
       KeepsMmCloneUserPtes, KeepsPspInsertProcess, KeepsPspCreateThread, KeepsCountThread,
       KeepsObReferenceObject, KeepsEmptyThreadList, KeepsPspRemoveProcess, KeepsObDereferenceObject,
       KeepsSchedule
       DEF CallStep
  <2>3. CASE TailStep(t)
    BY <2>3, KeepsEndOfTail, KeepsPsCloseThread, KeepsPsDecProcessRundownProtect,
       KeepsPspFreeProcess DEF TailStep
  <2>4. CASE \/ PsCreateProcess(t) \/ PspExitProcess(t) \/ Schedule(t) \/ KiBlockThread(t)
             \/ KiReadyThread(t)
    BY <2>4, KeepsCalls, KeepsPspExitProcess, KeepsSchedule, KeepsReadyThread
  <2>. QED
    BY <2>1, <2>2, <2>3, <2>4
<1>. QED
  BY <1>1, <1>2

LEMMA InitPages ==
    ASSUME Init
    PROVE  PagesInv /\ StackInv
<1>1. Stacks = {} /\ \A steps : Beyond(steps) = {}
  BY DEF Stacks, Beyond, Alive, Init
<1>2. Cardinality(Stacks) = 0 /\ \A steps : Cardinality(Beyond(steps)) = 0
  BY <1>1, FS_EmptySet
<1>3. space \ {System} = {}
  BY DEF Init
<1>4. NSystemPages = pages + leaked + StackPages * 0 + 0 + 0 + 0
  BY ConstantsFit DEF Init
<1>5. PagesInv
  BY <1>1, <1>2, <1>3, <1>4 DEF PagesInv, PagesAccounted, Stacks
<1>6. bug # "user stack" /\ \A t \in Threads : owner[t] \in {System, None}
  BY ConstantsFit DEF Init
<1>7. StackInv
  BY <1>6 DEF StackInv
<1>. QED
  BY <1>5, <1>7

LEMMA NextKeepsPages ==
    ASSUME PsInv, PagesInv, StackInv, [Next]_vars
    PROVE  PagesInv' /\ StackInv'
<1>1. CASE UNCHANGED vars
  <2>1. UNCHANGED <<processVars, tableVars, threadVars, cpuVars, closeVars, stale, bug>>
    BY <1>1 DEF vars
  <2>2. TakesNothing /\ KeepsUserStack
    BY <2>1 DEF TakesNothing, KeepsUserStack, processVars, tableVars, threadVars, closeVars
  <2>. QED
    BY <2>2, PagesKept
<1>2. CASE Next
  <2>1. PICK t \in Threads :
           \/ CallStep(t) \/ TailStep(t) \/ PsCreateProcess(t) \/ PspExitProcess(t)
           \/ Schedule(t) \/ KiBlockThread(t) \/ KiReadyThread(t)
    BY <1>2 DEF Next
  <2>2. CASE CallStep(t)
    BY <2>2, PagesCalls, PagesCreateObject, PagesBuild, PagesInsertProcess, PagesCreateThread, PagesExit,
       PagesSchedule DEF CallStep
  <2>3. CASE TailStep(t)
    BY <2>3, PagesTail, PagesCloseThread, PagesFreeProcess DEF TailStep
  <2>4. CASE \/ PsCreateProcess(t) \/ PspExitProcess(t) \/ Schedule(t) \/ KiBlockThread(t)
             \/ KiReadyThread(t)
    BY <2>4, PagesCalls, PagesExit, PagesSchedule
  <2>. QED
    BY <2>1, <2>2, <2>3, <2>4
<1>. QED
  BY <1>1, <1>2

LEMMA PsInvariant == Spec => [](PsInv /\ PagesInv /\ StackInv)
<1>1. Init => PsInv /\ PagesInv /\ StackInv
  BY InitTypes, InitLife, InitResources, InitPages DEF PsInv
<1>2. PsInv /\ PagesInv /\ StackInv /\ [Next]_vars => (PsInv /\ PagesInv /\ StackInv)'
  BY NextKeeps, NextKeepsPages
<1>. QED
  BY <1>1, <1>2, PTL DEF Spec

-----------------------------------------------------------------------------
(* The theorems.                                                            *)

\* RundownProtect of every process is the number of its threads that are not closed and of its
\* children that are not freed, between any two steps of forks, exits and the cascade of frees of
\* PspFreeProcess, and no counter goes below what the code allows.
THEOREM CountersAreExact == Spec => []CountsExact
<1>1. ASSUME PsInv, PagesInv PROVE CountsExact
  <2>1. pages \in 0 .. NSystemPages
    <3>. PICK m : m = StackPages * Cardinality(Stacks)
      OBVIOUS
    <3>1. /\ NSystemPages = pages + leaked + m + Cardinality(Beyond(NoTable))
                             + Cardinality(Beyond(NoSpace)) + Cardinality(Beyond(NoBitmap))
          /\ m \in Nat /\ pages \in Nat /\ leaked \in Nat /\ NSystemPages \in Nat
          /\ Cardinality(Beyond(NoTable)) \in Nat /\ Cardinality(Beyond(NoSpace)) \in Nat
          /\ Cardinality(Beyond(NoBitmap)) \in Nat
      BY <1>1, PagesAre
    <3>. QED
      BY <3>1
  <2>2. \A p \in Processes : count[p] >= -1
    BY <1>1 DEF PsInv, ResourceInv
  <2>3. TypeOK
    BY <1>1, <2>1, <2>2 DEF PsInv, ControlInv, Types, TypeOK
  <2>4. RundownExact
    <3>1. ASSUME NEW p \in Processes, Alive(p)
          PROVE  rundown[p] + Cardinality(Uncounted(p))
                    = Cardinality(Counted(p)) + Cardinality(Children(p))
                      + (IF drop = p /\ unwind = <<>> THEN 1 ELSE 0)
      BY <1>1, <3>1 DEF PsInv, LifeInv, CountFits, Dropping
    <3>. QED
      BY <3>1 DEF RundownExact
  <2>. QED
    BY <2>3, <2>4 DEF CountsExact
<1>. QED
  BY <1>1, PsInvariant, PTL

\* No process is freed under a thread of it or a child of it, and freed process memory is used in no
\* more than the two known places: the pid that PsCreateProcess returns and the lock that PsCloseThread
\* releases.
THEOREM UsersAreKeptAlive == Spec => []UsersKeepAlive
<1>1. ASSUME PsInv PROVE UsersKeepAlive
  <2>1. ASSUME NEW t \in Threads, owner[t] # None PROVE Alive(owner[t]) /\ owner[t] \in space
    <3>1. owner[t] \in Processes
      BY <1>1, <2>1 DEF PsInv, ControlInv, Types
    <3>2. OwnerFits(t, owner[t]) /\ SystemFits
      BY <1>1, <3>1 DEF PsInv, LifeInv
    <3>. QED
      BY <3>2 DEF OwnerFits, SystemFits
  <2>2. \A p \in Processes : Alive(p) /\ parent[p] # None =>
           Alive(parent[p]) \/ \E i \in 1 .. Len(unwind) : unwind[i] = p
    BY <1>1 DEF PsInv, LifeInv, ParentFits, Unwound
  <2>3. KnownStaleUses
    BY <1>1 DEF PsInv, LifeInv
  <2>. QED
    BY <2>1, <2>2, <2>3 DEF UsersKeepAlive, NoDangling
<1>. QED
  BY <1>1, PsInvariant, PTL

\* The slots of PidTable are the pids of the processes that exist, and every system PTE is free, in
\* the kernel stack of a thread that is not closed, in the handle table, page directory or bitmap page
\* of a process, or one of the two that PspFreeProcess leaves behind with every process that it frees.
THEOREM ResourcesAreAccounted == Spec => []ResourcesAccounted
<1>1. ASSUME PsInv, PagesInv PROVE ResourcesAccounted
  BY <1>1 DEF PsInv, ResourceInv, PagesInv, ResourcesAccounted
<1>. QED
  BY <1>1, PsInvariant, PTL

\* Of the assertions and KeBugChecks of PspExitProcess, PsCloseThread, PsDecProcessRundownProtect,
\* PspCloseProcess and ObRemoveHandle one can stop the machine: that of MmFreeUserPtes on the bits of
\* the user stack, in a kernel built with DEBUG, and only after PsCloseThread has closed a thread of
\* the program or of a fork of it before.  Apart from that only a shortage stops it.
THEOREM AssertionsHold == Spec => []OnlyKnownStops
<1>1. ASSUME PsInv, StackInv PROVE OnlyKnownStops
  <2>1. bug \in Stops
    BY <1>1 DEF PsInv, ResourceInv, KnownStop
  <2>2. bug = "user stack" => debug /\ closed
    BY <1>1 DEF StackInv
  <2>3. CASE bug = "user stack"
    BY <2>2, <2>3 DEF OnlyKnownStops
  <2>4. CASE bug # "user stack"
    BY <2>1, <2>4 DEF OnlyKnownStops, Stops
  <2>. QED
    BY <2>3, <2>4
<1>. QED
  BY <1>1, PsInvariant, PTL
================================================================================
