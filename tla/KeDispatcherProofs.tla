------------------------- MODULE KeDispatcherProofs -------------------------
(***************************************************************************)
(* Safety of the dispatcher for every set of threads and objects and every *)
(* assignment of priorities: its lists stay exact, the dispatcher-database *)
(* lock is handed from thread to thread and never lost, and none of its    *)
(* own consistency checks ever fails.  Then who owns what it hands out:    *)
(* the permits of guarding semaphores are conserved, and a mutant's signal *)
(* state agrees with its owner although KeReleaseMutant clears the owner   *)
(* before it takes the lock.                                               *)
(***************************************************************************)
EXTENDS KeDispatcher, FiniteSetTheorems, TLAPS

-----------------------------------------------------------------------------
(* Sequences as lists of threads. *)

\* LIST_INSERT_TAIL of a thread that is not in the list.
LEMMA AppendElems ==
    ASSUME NEW S, NEW s \in Seq(S), NEW x \in S
    PROVE  /\ Append(s, x) \in Seq(S)
           /\ Elems(Append(s, x)) = Elems(s) \cup {x}
           /\ NoDuplicates(s) /\ x \notin Elems(s) => NoDuplicates(Append(s, x))
<1>1. /\ Append(s, x) \in Seq(S)
      /\ Len(Append(s, x)) = Len(s) + 1
      /\ \A i \in 1 .. Len(s) : Append(s, x)[i] = s[i]
      /\ Append(s, x)[Len(s) + 1] = x
  OBVIOUS
<1>2. Len(s) \in Nat
  OBVIOUS
<1>3. Elems(Append(s, x)) = Elems(s) \cup {x}
  <2>1. \A y \in Elems(Append(s, x)) : y \in Elems(s) \cup {x}
    BY <1>1, <1>2 DEF Elems
  <2>2. \A y \in Elems(s) \cup {x} : y \in Elems(Append(s, x))
    BY <1>1, <1>2 DEF Elems
  <2> QED BY <2>1, <2>2
<1>4. ASSUME NoDuplicates(s), x \notin Elems(s)
      PROVE  NoDuplicates(Append(s, x))
  BY <1>1, <1>2, <1>4 DEF Elems, NoDuplicates
<1> QED BY <1>1, <1>3, <1>4

\* LIST_REMOVE_HEAD.
LEMMA TailElems ==
    ASSUME NEW S, NEW s \in Seq(S), s # <<>>
    PROVE  /\ Tail(s) \in Seq(S)
           /\ Head(s) \in S
           /\ Elems(s) = Elems(Tail(s)) \cup {Head(s)}
           /\ NoDuplicates(s) => NoDuplicates(Tail(s)) /\ Head(s) \notin Elems(Tail(s))
<1>1. /\ Tail(s) \in Seq(S)
      /\ Len(s) \in Nat \ {0}
      /\ Len(Tail(s)) = Len(s) - 1
      /\ \A i \in 1 .. Len(s) - 1 : Tail(s)[i] = s[i + 1]
      /\ Head(s) = s[1]
      /\ s[1] \in S
  OBVIOUS
<1>2. Elems(s) = Elems(Tail(s)) \cup {Head(s)}
  <2>1. ASSUME NEW y \in Elems(s)
        PROVE  y \in Elems(Tail(s)) \cup {Head(s)}
    <3>1. PICK i \in 1 .. Len(s) : y = s[i]
      BY DEF Elems
    <3>2. CASE i = 1
      BY <1>1, <3>1, <3>2
    <3>3. CASE i # 1
      <4>1. i - 1 \in 1 .. Len(Tail(s)) /\ y = Tail(s)[i - 1]
        BY <1>1, <3>1, <3>3
      <4> QED BY <4>1 DEF Elems
    <3> QED BY <3>2, <3>3
  <2>2. ASSUME NEW y \in Elems(Tail(s)) \cup {Head(s)}
        PROVE  y \in Elems(s)
    BY <1>1 DEF Elems
  <2> QED BY <2>1, <2>2
<1>3. ASSUME NoDuplicates(s)
      PROVE  NoDuplicates(Tail(s)) /\ Head(s) \notin Elems(Tail(s))
  BY <1>1, <1>3 DEF NoDuplicates, Elems
<1> QED BY <1>1, <1>2, <1>3

\* The empty list.
LEMMA EmptyElems == Elems(<<>>) = {} /\ NoDuplicates(<<>>)
  BY DEF Elems, NoDuplicates

-----------------------------------------------------------------------------
(* Families of lists that hold a set of threads, each thread once. *)

Exact(lists, D, M) ==
    /\ \A t \in Threads : t \in M <=> \E d \in D : t \in Elems(lists[d])
    /\ \A d, e \in D : d # e => Elems(lists[d]) \cap Elems(lists[e]) = {}
    /\ \A d \in D : NoDuplicates(lists[d])

LEMMA InsertExact ==
    ASSUME NEW D, NEW lists \in [D -> Seq(Threads)], NEW M, Exact(lists, D, M),
           NEW d \in D, NEW t \in Threads, t \notin M
    PROVE  /\ [lists EXCEPT ![d] = Append(@, t)] \in [D -> Seq(Threads)]
           /\ Exact([lists EXCEPT ![d] = Append(@, t)], D, M \cup {t})
<1> DEFINE new == [lists EXCEPT ![d] = Append(@, t)]
<1>1. t \notin Elems(lists[d])
  BY DEF Exact
<1>2. /\ new[d] \in Seq(Threads)
      /\ Elems(new[d]) = Elems(lists[d]) \cup {t}
      /\ NoDuplicates(new[d])
  <2>1. lists[d] \in Seq(Threads) /\ new[d] = Append(lists[d], t) /\ NoDuplicates(lists[d])
    BY DEF Exact
  <2> HIDE DEF new
  <2> QED BY <2>1, <1>1, AppendElems
<1>3. \A e \in D : e # d => new[e] = lists[e]
  OBVIOUS
<1>4. new \in [D -> Seq(Threads)]
  BY <1>2, <1>3
<1> HIDE DEF new
<1>5. \A e \in D : e # d => t \notin Elems(lists[e])
  BY DEF Exact
<1>6. Exact(new, D, M \cup {t})
  <2>1. \A u \in Threads : u \in M \cup {t} <=> \E e \in D : u \in Elems(new[e])
    <3> SUFFICES ASSUME NEW u \in Threads
                 PROVE  u \in M \cup {t} <=> \E e \in D : u \in Elems(new[e])
      OBVIOUS
    <3>1. u \in M <=> \E e \in D : u \in Elems(lists[e])
      BY DEF Exact
    <3> QED BY <3>1, <1>2, <1>3
  <2>2. \A e, f \in D : e # f => Elems(new[e]) \cap Elems(new[f]) = {}
    <3> SUFFICES ASSUME NEW e \in D, NEW f \in D, e # f
                 PROVE  Elems(new[e]) \cap Elems(new[f]) = {}
      OBVIOUS
    <3>1. Elems(lists[e]) \cap Elems(lists[f]) = {}
      BY DEF Exact
    <3>2. CASE e = d
      BY <3>1, <3>2, <1>2, <1>3, <1>5
    <3>3. CASE f = d
      BY <3>1, <3>3, <1>2, <1>3, <1>5
    <3>4. CASE e # d /\ f # d
      BY <3>1, <3>4, <1>3
    <3> QED BY <3>2, <3>3, <3>4
  <2>3. \A e \in D : NoDuplicates(new[e])
    BY <1>2, <1>3 DEF Exact
  <2> QED BY <2>1, <2>2, <2>3 DEF Exact
<1> QED BY <1>4, <1>6 DEF new

LEMMA RemoveExact ==
    ASSUME NEW D, NEW lists \in [D -> Seq(Threads)], NEW M, Exact(lists, D, M),
           NEW d \in D, lists[d] # <<>>
    PROVE  /\ Head(lists[d]) \in M \cap Threads
           /\ [lists EXCEPT ![d] = Tail(@)] \in [D -> Seq(Threads)]
           /\ Exact([lists EXCEPT ![d] = Tail(@)], D, M \ {Head(lists[d])})
<1> DEFINE new == [lists EXCEPT ![d] = Tail(@)]
           h == Head(lists[d])
<1>1. /\ new[d] \in Seq(Threads)
      /\ h \in Threads
      /\ Elems(lists[d]) = Elems(new[d]) \cup {h}
      /\ NoDuplicates(new[d])
      /\ h \notin Elems(new[d])
  <2>1. lists[d] \in Seq(Threads) /\ new[d] = Tail(lists[d]) /\ NoDuplicates(lists[d])
    BY DEF Exact
  <2> HIDE DEF new
  <2> QED BY <2>1, TailElems
<1>2. \A e \in D : e # d => new[e] = lists[e]
  OBVIOUS
<1>3. new \in [D -> Seq(Threads)]
  BY <1>1, <1>2
<1> HIDE DEF new, h
<1>4. h \in M
  BY <1>1 DEF Exact
<1>5. \A e \in D : e # d => h \notin Elems(lists[e])
  BY <1>1 DEF Exact
<1>6. Exact(new, D, M \ {h})
  <2>1. \A u \in Threads : u \in M \ {h} <=> \E e \in D : u \in Elems(new[e])
    <3> SUFFICES ASSUME NEW u \in Threads
                 PROVE  u \in M \ {h} <=> \E e \in D : u \in Elems(new[e])
      OBVIOUS
    <3>1. u \in M <=> \E e \in D : u \in Elems(lists[e])
      BY DEF Exact
    <3> QED BY <3>1, <1>1, <1>2, <1>5
  <2>2. \A e, f \in D : e # f => Elems(new[e]) \cap Elems(new[f]) = {}
    <3> SUFFICES ASSUME NEW e \in D, NEW f \in D, e # f
                 PROVE  Elems(new[e]) \cap Elems(new[f]) = {}
      OBVIOUS
    <3>1. Elems(lists[e]) \cap Elems(lists[f]) = {}
      BY DEF Exact
    <3> QED BY <3>1, <1>1, <1>2
  <2>3. \A e \in D : NoDuplicates(new[e])
    BY <1>1, <1>2 DEF Exact
  <2> QED BY <2>1, <2>2, <2>3 DEF Exact
<1> QED BY <1>1, <1>3, <1>4, <1>6 DEF new, h

-----------------------------------------------------------------------------
(* Facts about the inductive invariant, IInv of KeDispatcher. *)

\* The threads in state st under the assignment f of states.
Members(f, st) == {t \in Threads : f[t] = st}

LEMMA ReadyExact == ReadyListsExact <=> Exact(ready, Priorities, Members(state, "ready"))
  BY DEF ReadyListsExact, Exact, Members

LEMMA WaitExact == WaitListsExact <=> Exact(waiters, Objects, Members(state, "waiting"))
  BY DEF WaitListsExact, Exact, Members

\* KiSelectNextThread finds the head of the highest list at or above floor.
LEMMA Selection ==
    ASSUME TypeOK, ReadyListsExact, NEW floor \in Priorities, Candidates(floor) # {}
    PROVE  LET p == SelectedList(floor) IN
           /\ p \in Priorities /\ p >= floor /\ ready[p] # <<>>
           /\ \A q \in Priorities : q >= floor /\ ready[q] # <<>> => q <= p
           /\ KiSelectNextThread(floor) = Head(ready[p])
           /\ Head(ready[p]) \in Threads
           /\ state[Head(ready[p])] = "ready"
           /\ RemoveSelected(floor) \in [Priorities -> Seq(Threads)]
           /\ Exact(RemoveSelected(floor), Priorities,
                    Members(state, "ready") \ {Head(ready[p])})
<1> DEFINE p == SelectedList(floor)
<1>1. \E x \in Candidates(floor) : \A q \in Candidates(floor) : q <= x
  <2>1. Candidates(floor) \subseteq {1, 2, 3, 4, 5, 6}
    BY DEF Candidates, Priorities, PROCESS_PRIORITY_IDLE, PROCESS_PRIORITY_MAX
  <2> HIDE DEF Candidates
  <2> QED BY <2>1
<1>2. p \in Candidates(floor) /\ \A q \in Candidates(floor) : q <= p
  BY <1>1 DEF SelectedList
<1> HIDE DEF p
<1>3. /\ p \in Priorities /\ p >= floor /\ ready[p] # <<>>
      /\ \A q \in Priorities : q >= floor /\ ready[q] # <<>> => q <= p
  BY <1>2 DEF Candidates
<1>4. KiSelectNextThread(floor) = Head(ready[p])
  BY DEF KiSelectNextThread, p
<1>5. RemoveSelected(floor) = [ready EXCEPT ![p] = Tail(@)]
  BY DEF RemoveSelected, p
<1>6. ready \in [Priorities -> Seq(Threads)] /\ Exact(ready, Priorities, Members(state, "ready"))
  BY ReadyExact DEF TypeOK
<1>7. /\ Head(ready[p]) \in Members(state, "ready") \cap Threads
      /\ RemoveSelected(floor) \in [Priorities -> Seq(Threads)]
      /\ Exact(RemoveSelected(floor), Priorities, Members(state, "ready") \ {Head(ready[p])})
  <2>1. /\ Head(ready[p]) \in Members(state, "ready") \cap Threads
        /\ [ready EXCEPT ![p] = Tail(@)] \in [Priorities -> Seq(Threads)]
        /\ Exact([ready EXCEPT ![p] = Tail(@)], Priorities, Members(state, "ready") \ {Head(ready[p])})
    BY <1>3, <1>6, RemoveExact
  <2> QED BY <2>1, <1>5
<1> QED BY <1>3, <1>4, <1>7 DEF Members, p

\* LIST_REMOVE_HEAD of a wait list that is not empty takes a WAITING thread.
LEMMA FirstWaiter ==
    ASSUME TypeOK, WaitListsExact, NEW o \in Objects, waiters[o] # <<>>
    PROVE  /\ Head(waiters[o]) \in Threads
           /\ state[Head(waiters[o])] = "waiting"
           /\ [waiters EXCEPT ![o] = Tail(@)] \in [Objects -> Seq(Threads)]
           /\ Exact([waiters EXCEPT ![o] = Tail(@)], Objects,
                    Members(state, "waiting") \ {Head(waiters[o])})
<1>1. waiters \in [Objects -> Seq(Threads)] /\ Exact(waiters, Objects, Members(state, "waiting"))
  BY WaitExact DEF TypeOK
<1>2. /\ Head(waiters[o]) \in Members(state, "waiting") \cap Threads
      /\ [waiters EXCEPT ![o] = Tail(@)] \in [Objects -> Seq(Threads)]
      /\ Exact([waiters EXCEPT ![o] = Tail(@)], Objects,
               Members(state, "waiting") \ {Head(waiters[o])})
  BY <1>1, RemoveExact
<1> QED BY <1>2 DEF Members

\* There is always a thread to switch to when the current one is not the idle
\* thread, which is then READY.
LEMMA SomeoneReady ==
    ASSUME IInv, current # Idle
    PROVE  Candidates(PROCESS_PRIORITY_IDLE) # {}
<1>1. state[Idle] = "ready"
  BY ThreadAssumption DEF IInv, IdleDispatchable, OneRunning
<1>2. PICK p \in Priorities : Idle \in Elems(ready[p])
  BY <1>1, ThreadAssumption DEF IInv, ReadyListsExact
<1>3. ready[p] # <<>>
  BY <1>2, EmptyElems
<1> QED BY <1>3 DEF Candidates, Priorities, PROCESS_PRIORITY_IDLE, PROCESS_PRIORITY_MAX

\* None of the dispatcher's own checks can fail in a state of the invariant.
LEMMA NoInternalFault ==
    ASSUME IInv
    PROVE  ~InternalFault(current)
<1> DEFINE t == current
<1>1. t \in Threads
  BY DEF IInv, TypeOK
<1>2. ~(/\ pc[t] \in {"KeReleaseSemaphore", "KeReleaseMutant", "PsExitThread", "Schedule"}
        /\ ddb # None)
  BY DEF IInv, LockHandOver, LockedPCs
<1>3. ~(pc[t] = "Drain" /\ dpcQueued /\ ddb # None)
  BY DEF IInv, LockHandOver, LockedPCs
<1>4. ~(pc[t] = "Unlock" /\ ddb = None)
  BY DEF IInv, LockHandOver, LockedPCs
<1>5. ASSUME pc[t] \in {"ReleaseSemaphore", "ReleaseMutant", "SetEvent", "ReleaseAll"},
             waiters[arg[t]] # <<>>
      PROVE  signal[arg[t]] = 0 /\ MayBecomeReady(Head(waiters[arg[t]]))
  <2>1. arg[t] \in Objects
    BY <1>1, <1>5 DEF IInv, ControlConsistent, ArgFits, Busy, Objects, Events
  <2>2. signal[arg[t]] = 0
    BY <1>5, <2>1 DEF IInv, NoWaiterOnSignaled
  <2>3. state[Head(waiters[arg[t]])] = "waiting"
    BY <1>5, <2>1, FirstWaiter DEF IInv
  <2> QED BY <2>2, <2>3 DEF MayBecomeReady
<1>6. ASSUME pc[t] = "CreateThread" PROVE MayBecomeReady(arg[t])
  BY <1>1, <1>6 DEF IInv, ControlConsistent, ArgFits, MayBecomeReady
<1>7. ASSUME pc[t] = "Wait" \/ (pc[t] = "Scheduling" /\ state[t] = "terminated")
      PROVE  /\ KiSelectNextThread(PROCESS_PRIORITY_IDLE) \notin {None, t}
             /\ state[KiSelectNextThread(PROCESS_PRIORITY_IDLE)] = "ready"
  <2>1. current # Idle
    BY <1>7 DEF IInv, ControlConsistent, Workers
  <2>2. PROCESS_PRIORITY_IDLE \in Priorities
    BY DEF Priorities, PROCESS_PRIORITY_IDLE, PROCESS_PRIORITY_MAX
  <2>3. /\ KiSelectNextThread(PROCESS_PRIORITY_IDLE) \in Threads
        /\ state[KiSelectNextThread(PROCESS_PRIORITY_IDLE)] = "ready"
    BY <2>1, <2>2, SomeoneReady, Selection DEF IInv
  <2> QED BY <2>3, ThreadAssumption DEF IInv, OneRunning
<1>8. ASSUME pc[t] = "Wait" PROVE state[t] = "running"
  BY <1>8 DEF IInv, OneRunning, ControlConsistent, Exiting
<1>9. ASSUME pc[t] = "Scheduling", state[t] # "terminated", KiSelectNextThread(Priority[t]) # None
      PROVE  /\ KiSelectNextThread(Priority[t]) # t
             /\ state[KiSelectNextThread(Priority[t])] = "ready"
             /\ MayBecomeReady(t)
  <2>1. Candidates(Priority[t]) # {}
    BY <1>9 DEF KiSelectNextThread
  <2>2. state[KiSelectNextThread(Priority[t])] = "ready"
    BY <1>1, <2>1, ThreadAssumption, Selection DEF IInv
  <2>3. state[t] = "running"
    BY <1>9 DEF IInv, OneRunning
  <2> QED BY <2>2, <2>3 DEF MayBecomeReady
<1>10. ASSUME exitList # <<>> PROVE state[Head(exitList)] = "terminated"
  <2>1. Head(exitList) \in Elems(exitList)
    BY <1>10, TailElems DEF IInv, TypeOK
  <2> QED BY <2>1 DEF IInv, ReapedIsOffCpu
<1>11. ~(pc[t] \in LockedPCs \ {"Unlock"} /\ ddb # t)
  BY DEF IInv, LockHandOver
<1> QED BY <1>2, <1>3, <1>4, <1>5, <1>6, <1>7, <1>8, <1>9, <1>10, <1>11 DEF InternalFault

-----------------------------------------------------------------------------
(* Steps that move the current thread and leave every list alone. *)

\* What has to be shown of such a step.
LEMMA ControlOnly ==
    ASSUME IInv,
           UNCHANGED <<current, state, ready, exitList, reaped, waiters, signal>>,
           \A t \in Threads \ {current} : pc'[t] = pc[t],
           TypeOK', LockHandOver', ControlConsistent', NoInternalBugCheck'
    PROVE  IInv'
<1>1. ReadyListsExact'
  BY DEF IInv, ReadyListsExact
<1>2. WaitListsExact'
  BY DEF IInv, WaitListsExact
<1>3. NoWaiterOnSignaled' /\ OneRunning' /\ IdleDispatchable'
  BY DEF IInv, NoWaiterOnSignaled, OneRunning, IdleDispatchable
<1>4. ReapedIsOffCpu'
  <2>1. Elems(exitList) \subseteq Threads /\ reaped \subseteq Threads
    BY DEF IInv, TypeOK, Elems
  <2> QED BY <2>1 DEF IInv, ReapedIsOffCpu
<1> QED BY <1>1, <1>2, <1>3, <1>4 DEF IInv

\* KiUnLockDispatcherDataBase.
LEMMA UnLockStep ==
    ASSUME IInv, KiUnLockDispatcherDataBase(current)
    PROVE  IInv'
<1> USE DEF KiUnLockDispatcherDataBase, At, Goto, schedVars, cpuVars, threadVars, objectVars
<1>1. current \in Threads
  BY DEF IInv, TypeOK
<1>2. TypeOK'
  BY <1>1 DEF IInv, TypeOK, PCs, PassivePCs, LockedPCs, DispatchPCs, Irqls
<1>3. LockHandOver'
  BY <1>1, ThreadAssumption DEF IInv, TypeOK, LockHandOver, LockedPCs, PassivePCs
<1>4. ControlConsistent'
  BY <1>1, ThreadAssumption DEF IInv, TypeOK, LockHandOver, OneRunning, ControlConsistent,
     ArgFits, Busy, Exiting, SwitchedOut, PassivePCs, Workers
<1>5. NoInternalBugCheck'
  BY DEF IInv, NoInternalBugCheck
<1> QED BY <1>1, <1>2, <1>3, <1>4, <1>5, ControlOnly DEF IInv, TypeOK

\* A turn of the loop of KiProcessDpcQueue.
LEMMA DpcStep ==
    ASSUME IInv, KiProcessDpcQueue(current)
    PROVE  IInv'
<1> USE DEF KiProcessDpcQueue, At, Goto, schedVars, cpuVars, threadVars, objectVars
<1>1. current \in Threads
  BY DEF IInv, TypeOK
<1>2. TypeOK'
  BY <1>1 DEF IInv, TypeOK, PCs, PassivePCs, LockedPCs, DispatchPCs, Irqls
<1>3. LockHandOver'
  BY <1>1, ThreadAssumption DEF IInv, TypeOK, LockHandOver, LockedPCs, PassivePCs
<1>4. ControlConsistent'
  <2> USE <1>1, ThreadAssumption DEF IInv, TypeOK, PassivePCs
  <2>1. ASSUME NEW t \in Threads
        PROVE  /\ pc'[t] \in PassivePCs => ret'[t] = "run"
               /\ ArgFits(t)'
               /\ Busy(t, {"PsExitThread"})' => t \in Workers
               /\ t # current => SwitchedOut(t)'
    <3>1. pc'[t] \in PassivePCs => ret'[t] = "run"
      BY DEF ControlConsistent, LockHandOver
    <3>2. ArgFits(t)'
      <4>1. ArgFits(t) /\ ret'[t] = ret[t] /\ arg'[t] = arg[t] /\ state' = state
        BY DEF ControlConsistent
      <4>2. pc'[t] = pc[t] \/ pc'[t] \in {"Scheduling", "Lower"}
        OBVIOUS
      <4> QED BY <4>1, <4>2 DEF ArgFits, Busy
    <3>3. Busy(t, {"PsExitThread"})' => t \in Workers
      BY DEF ControlConsistent, Busy, LockHandOver
    <3>4. t # current => SwitchedOut(t)'
      BY DEF ControlConsistent, SwitchedOut
    <3> QED BY <3>1, <3>2, <3>3, <3>4
  <2>2. /\ pc'[current] \notin {"new", "gone"}
        /\ pc'[Idle] \in {"run", "Unlock", "Drain", "Lower", "Scheduling", "Reaping"}
        /\ ret'[Idle] = "run"
    BY DEF ControlConsistent, LockHandOver
  <2>3. state[current] = "terminated" => current \in Workers /\ Exiting(current)'
    BY DEF ControlConsistent, Exiting, LockHandOver
  <2>4. \A u \in Workers : state[u] = "initialized" => waiters'[u] = <<>>
    BY DEF ControlConsistent
  <2> QED BY <2>1, <2>2, <2>3, <2>4 DEF ControlConsistent
<1>5. NoInternalBugCheck'
  BY DEF IInv, NoInternalBugCheck
<1> QED BY <1>1, <1>2, <1>3, <1>4, <1>5, ControlOnly DEF IInv, TypeOK

\* The end of KeLowerIrql.
LEMMA LowerStep ==
    ASSUME IInv, KeLowerIrql(current)
    PROVE  IInv'
<1> USE DEF KeLowerIrql, At, Goto, schedVars, cpuVars, threadVars, objectVars
<1>1. current \in Threads
  BY DEF IInv, TypeOK
<1>2. TypeOK'
  BY <1>1 DEF IInv, TypeOK, PCs, PassivePCs, LockedPCs, DispatchPCs, Irqls
<1>3. LockHandOver'
  BY <1>1, ThreadAssumption DEF IInv, TypeOK, LockHandOver, LockedPCs, PassivePCs
<1>4. ControlConsistent'
  <2> USE <1>1, ThreadAssumption DEF IInv, TypeOK, PassivePCs
  <2>1. ASSUME NEW t \in Threads
        PROVE  /\ pc'[t] \in PassivePCs => ret'[t] = "run"
               /\ ArgFits(t)'
               /\ Busy(t, {"PsExitThread"})' => t \in Workers
               /\ t # current => SwitchedOut(t)'
    <3>1. pc'[t] \in PassivePCs => ret'[t] = "run"
      BY DEF ControlConsistent, LockHandOver
    <3>2. ArgFits(t)'
      <4>1. ArgFits(t)
        BY DEF ControlConsistent
      <4>2. CASE t # current
        <5>1. pc'[t] = pc[t] /\ ret'[t] = ret[t] /\ arg'[t] = arg[t] /\ state' = state
          BY <4>2
        <5> QED BY <4>1, <5>1 DEF ArgFits, Busy
      <4>3. CASE t = current
        <5>1. /\ pc'[t] = ret[t] /\ ret'[t] = "run"
              /\ ret[t] # "run" => arg'[t] = arg[t]
              /\ ret[t] \in PassivePCs
          BY <4>3
        <5> QED BY <4>1, <5>1 DEF ArgFits, Busy
      <4> QED BY <4>2, <4>3
    <3>3. Busy(t, {"PsExitThread"})' => t \in Workers
      BY DEF ControlConsistent, Busy, LockHandOver
    <3>4. t # current => SwitchedOut(t)'
      BY DEF ControlConsistent, SwitchedOut
    <3> QED BY <3>1, <3>2, <3>3, <3>4
  <2>2. /\ pc'[current] \notin {"new", "gone"}
        /\ pc'[Idle] \in {"run", "Unlock", "Drain", "Lower", "Scheduling", "Reaping"}
        /\ ret'[Idle] = "run"
    BY DEF ControlConsistent, LockHandOver
  <2>3. state[current] = "terminated" => current \in Workers /\ Exiting(current)'
    BY DEF ControlConsistent, Exiting, LockHandOver
  <2>4. \A u \in Workers : state[u] = "initialized" => waiters'[u] = <<>>
    BY DEF ControlConsistent
  <2> QED BY <2>1, <2>2, <2>3, <2>4 DEF ControlConsistent
<1>5. NoInternalBugCheck'
  BY DEF IInv, NoInternalBugCheck
<1> QED BY <1>1, <1>2, <1>3, <1>4, <1>5, ControlOnly DEF IInv, TypeOK

\* Schedule takes the lock.
LEMMA CallScheduleStep ==
    ASSUME IInv, CallSchedule(current)
    PROVE  IInv'
<1> USE DEF CallSchedule, At, KiLockDispatcherDataBase, RaisedIrql, Goto, schedVars, cpuVars, threadVars, objectVars
<1>1. current \in Threads
  BY DEF IInv, TypeOK
<1>2. TypeOK'
  BY <1>1 DEF IInv, TypeOK, PCs, PassivePCs, LockedPCs, DispatchPCs, Irqls
<1>3. LockHandOver'
  BY <1>1, ThreadAssumption DEF IInv, TypeOK, LockHandOver, LockedPCs, PassivePCs
<1>4. ControlConsistent'
  <2> USE <1>1, ThreadAssumption DEF IInv, TypeOK, PassivePCs
  <2>1. ASSUME NEW t \in Threads
        PROVE  /\ pc'[t] \in PassivePCs => ret'[t] = "run"
               /\ ArgFits(t)'
               /\ Busy(t, {"PsExitThread"})' => t \in Workers
               /\ t # current => SwitchedOut(t)'
    <3>1. pc'[t] \in PassivePCs => ret'[t] = "run"
      BY DEF ControlConsistent
    <3>2. ArgFits(t)'
      <4>1. ArgFits(t) /\ arg' = arg /\ state' = state
        BY DEF ControlConsistent
      <4>2. \/ pc'[t] = pc[t] /\ ret'[t] = ret[t]
            \/ pc'[t] = "Scheduling" /\ ret'[t] = "Reap"
        OBVIOUS
      <4> QED BY <4>1, <4>2 DEF ArgFits, Busy
    <3>3. Busy(t, {"PsExitThread"})' => t \in Workers
      BY DEF ControlConsistent, Busy
    <3>4. t # current => SwitchedOut(t)'
      BY DEF ControlConsistent, SwitchedOut
    <3> QED BY <3>1, <3>2, <3>3, <3>4
  <2>2. /\ pc'[current] \notin {"new", "gone"}
        /\ pc'[Idle] \in {"run", "Unlock", "Drain", "Lower", "Scheduling", "Reaping"}
        /\ ret'[Idle] = "run"
    BY DEF ControlConsistent
  <2>3. state[current] = "terminated" => current \in Workers /\ Exiting(current)'
    BY DEF ControlConsistent, Exiting
  <2>4. \A u \in Workers : state[u] = "initialized" => waiters'[u] = <<>>
    BY DEF ControlConsistent
  <2> QED BY <2>1, <2>2, <2>3, <2>4 DEF ControlConsistent
<1>5. NoInternalBugCheck'
  BY DEF IInv, NoInternalBugCheck
<1> QED BY <1>1, <1>2, <1>3, <1>4, <1>5, ControlOnly DEF IInv, TypeOK

\* The tail of Schedule takes ExitThreadLock.
LEMMA ExitLockStep ==
    ASSUME IInv, AcquireExitThreadLock(current)
    PROVE  IInv'
<1> USE DEF AcquireExitThreadLock, At, Goto, schedVars, cpuVars, threadVars, objectVars
<1>1. current \in Threads
  BY DEF IInv, TypeOK
<1>2. TypeOK'
  BY <1>1 DEF IInv, TypeOK, PCs, PassivePCs, LockedPCs, DispatchPCs, Irqls
<1>3. LockHandOver'
  BY <1>1, ThreadAssumption DEF IInv, TypeOK, LockHandOver, LockedPCs, PassivePCs
<1>4. ControlConsistent'
  BY <1>1, ThreadAssumption DEF IInv, TypeOK, LockHandOver, OneRunning, ControlConsistent,
     ArgFits, Busy, Exiting, SwitchedOut, PassivePCs, Workers
<1>5. NoInternalBugCheck'
  BY DEF IInv, NoInternalBugCheck
<1> QED BY <1>1, <1>2, <1>3, <1>4, <1>5, ControlOnly DEF IInv, TypeOK

\* KeReleaseSemaphore takes the lock.
LEMMA LockForReleaseSemaphoreStep ==
    ASSUME IInv, LockForReleaseSemaphore(current)
    PROVE  IInv'
<1> USE DEF LockForReleaseSemaphore, At, KiLockDispatcherDataBase, RaisedIrql, Goto, schedVars, cpuVars, threadVars, objectVars
<1>1. current \in Threads
  BY DEF IInv, TypeOK
<1>2. TypeOK'
  BY <1>1 DEF IInv, TypeOK, PCs, PassivePCs, LockedPCs, DispatchPCs, Irqls
<1>3. LockHandOver'
  BY <1>1, ThreadAssumption DEF IInv, TypeOK, LockHandOver, LockedPCs, PassivePCs
<1>4. ControlConsistent'
  BY <1>1, ThreadAssumption DEF IInv, TypeOK, LockHandOver, OneRunning, ControlConsistent,
     ArgFits, Busy, Exiting, SwitchedOut, PassivePCs, Workers
<1>5. NoInternalBugCheck'
  BY DEF IInv, NoInternalBugCheck
<1> QED BY <1>1, <1>2, <1>3, <1>4, <1>5, ControlOnly DEF IInv, TypeOK

\* KeReleaseMutant takes the lock.
LEMMA LockForReleaseMutantStep ==
    ASSUME IInv, LockForReleaseMutant(current)
    PROVE  IInv'
<1> USE DEF LockForReleaseMutant, At, KiLockDispatcherDataBase, RaisedIrql, Goto, schedVars, cpuVars, threadVars, objectVars
<1>1. current \in Threads
  BY DEF IInv, TypeOK
<1>2. TypeOK'
  BY <1>1 DEF IInv, TypeOK, PCs, PassivePCs, LockedPCs, DispatchPCs, Irqls
<1>3. LockHandOver'
  BY <1>1, ThreadAssumption DEF IInv, TypeOK, LockHandOver, LockedPCs, PassivePCs
<1>4. ControlConsistent'
  BY <1>1, ThreadAssumption DEF IInv, TypeOK, LockHandOver, OneRunning, ControlConsistent,
     ArgFits, Busy, Exiting, SwitchedOut, PassivePCs, Workers
<1>5. NoInternalBugCheck'
  BY DEF IInv, NoInternalBugCheck
<1> QED BY <1>1, <1>2, <1>3, <1>4, <1>5, ControlOnly DEF IInv, TypeOK

\* An exiting thread takes the lock to release its waiters.
LEMMA LockForExitStep ==
    ASSUME IInv, LockForExit(current)
    PROVE  IInv'
<1> USE DEF LockForExit, At, KiLockDispatcherDataBase, RaisedIrql, Goto, schedVars, cpuVars, threadVars, objectVars
<1>1. current \in Threads
  BY DEF IInv, TypeOK
<1>2. TypeOK'
  BY <1>1 DEF IInv, TypeOK, ControlConsistent, Busy, PCs, PassivePCs, LockedPCs, DispatchPCs, Irqls, Objects
<1>3. LockHandOver'
  BY <1>1, ThreadAssumption DEF IInv, TypeOK, LockHandOver, LockedPCs, PassivePCs
<1>4. ControlConsistent'
  BY <1>1, ThreadAssumption DEF IInv, TypeOK, LockHandOver, OneRunning, ControlConsistent,
     ArgFits, Busy, Exiting, SwitchedOut, PassivePCs, Workers, Objects
<1>5. NoInternalBugCheck'
  BY DEF IInv, NoInternalBugCheck
<1> QED BY <1>1, <1>2, <1>3, <1>4, <1>5, ControlOnly DEF IInv, TypeOK

\* KeWaitForSingleObject takes the lock.
LEMMA WaitCallStep ==
    ASSUME IInv, NEW o \in Objects, KeWaitForSingleObject(current, o)
    PROVE  IInv'
<1> USE DEF KeWaitForSingleObject, Calls, At, KiLockDispatcherDataBase, RaisedIrql, Goto, schedVars, cpuVars, threadVars, objectVars
<1>1. current \in Threads
  BY DEF IInv, TypeOK
<1>2. TypeOK'
  BY <1>1 DEF IInv, TypeOK, PCs, PassivePCs, LockedPCs, DispatchPCs, Irqls
<1>3. LockHandOver'
  BY <1>1, ThreadAssumption DEF IInv, TypeOK, LockHandOver, LockedPCs, PassivePCs
<1>4. ControlConsistent'
  BY <1>1, ThreadAssumption DEF IInv, TypeOK, LockHandOver, OneRunning, ControlConsistent,
     ArgFits, Busy, Exiting, SwitchedOut, PassivePCs, Workers
<1>5. NoInternalBugCheck'
  BY DEF IInv, NoInternalBugCheck
<1> QED BY <1>1, <1>2, <1>3, <1>4, <1>5, ControlOnly DEF IInv, TypeOK

\* KeReleaseSemaphore checks the limit.
LEMMA ReleaseSemaphoreCallStep ==
    ASSUME IInv, NEW o \in Semaphores, KeReleaseSemaphore(current, o)
    PROVE  IInv'
<1> USE DEF KeReleaseSemaphore, Calls, At, Goto, schedVars, cpuVars, threadVars, objectVars
<1>1. current \in Threads
  BY DEF IInv, TypeOK
<1>2. TypeOK'
  BY <1>1 DEF IInv, TypeOK, PCs, PassivePCs, LockedPCs, DispatchPCs, Irqls, Objects
<1>3. LockHandOver'
  BY <1>1, ThreadAssumption DEF IInv, TypeOK, LockHandOver, LockedPCs, PassivePCs
<1>4. ControlConsistent'
  BY <1>1, ThreadAssumption DEF IInv, TypeOK, LockHandOver, OneRunning, ControlConsistent,
     ArgFits, Busy, Exiting, SwitchedOut, PassivePCs, Workers, Objects
<1>5. NoInternalBugCheck'
  BY DEF IInv, NoInternalBugCheck
<1> QED BY <1>1, <1>2, <1>3, <1>4, <1>5, ControlOnly DEF IInv, TypeOK

\* KeReleaseMutant clears the owner.
LEMMA ReleaseMutantCallStep ==
    ASSUME IInv, NEW o \in Mutants, KeReleaseMutant(current, o)
    PROVE  IInv'
<1> USE DEF KeReleaseMutant, NewOwner, Calls, At, Goto, schedVars, cpuVars, threadVars, objectVars
<1>1. current \in Threads
  BY DEF IInv, TypeOK
<1>2. TypeOK'
  BY <1>1 DEF IInv, TypeOK, PCs, PassivePCs, LockedPCs, DispatchPCs, Irqls, Objects
<1>3. LockHandOver'
  BY <1>1, ThreadAssumption DEF IInv, TypeOK, LockHandOver, LockedPCs, PassivePCs
<1>4. ControlConsistent'
  BY <1>1, ThreadAssumption DEF IInv, TypeOK, LockHandOver, OneRunning, ControlConsistent,
     ArgFits, Busy, Exiting, SwitchedOut, PassivePCs, Workers, Objects
<1>5. NoInternalBugCheck'
  BY DEF IInv, NoInternalBugCheck
<1> QED BY <1>1, <1>2, <1>3, <1>4, <1>5, ControlOnly DEF IInv, TypeOK

\* KeSetEvent takes the lock.
LEMMA SetEventCallStep ==
    ASSUME IInv, NEW o \in Events, KeSetEvent(current, o)
    PROVE  IInv'
<1> USE DEF KeSetEvent, Calls, At, KiLockDispatcherDataBase, RaisedIrql, Goto, schedVars, cpuVars, threadVars, objectVars
<1>1. current \in Threads
  BY DEF IInv, TypeOK
<1>2. TypeOK'
  BY <1>1 DEF IInv, TypeOK, PCs, PassivePCs, LockedPCs, DispatchPCs, Irqls, Objects, Events
<1>3. LockHandOver'
  BY <1>1, ThreadAssumption DEF IInv, TypeOK, LockHandOver, LockedPCs, PassivePCs
<1>4. ControlConsistent'
  BY <1>1, ThreadAssumption DEF IInv, TypeOK, LockHandOver, OneRunning, ControlConsistent,
     ArgFits, Busy, Exiting, SwitchedOut, PassivePCs, Workers, Objects, Events
<1>5. NoInternalBugCheck'
  BY DEF IInv, NoInternalBugCheck
<1> QED BY <1>1, <1>2, <1>3, <1>4, <1>5, ControlOnly DEF IInv, TypeOK

\* PspCreateThread takes the lock.
LEMMA CreateCallStep ==
    ASSUME IInv, NEW o \in Workers, PspCreateThread(current, o)
    PROVE  IInv'
<1> USE DEF PspCreateThread, Calls, At, KiLockDispatcherDataBase, RaisedIrql, Goto, schedVars, cpuVars, threadVars, objectVars
<1>1. current \in Threads
  BY DEF IInv, TypeOK
<1>2. TypeOK'
  BY <1>1 DEF IInv, TypeOK, PCs, PassivePCs, LockedPCs, DispatchPCs, Irqls, Objects
<1>3. LockHandOver'
  BY <1>1, ThreadAssumption DEF IInv, TypeOK, LockHandOver, LockedPCs, PassivePCs
<1>4. ControlConsistent'
  BY <1>1, ThreadAssumption DEF IInv, TypeOK, LockHandOver, OneRunning, ControlConsistent,
     ArgFits, Busy, Exiting, SwitchedOut, PassivePCs, Workers, Objects
<1>5. NoInternalBugCheck'
  BY DEF IInv, NoInternalBugCheck
<1> QED BY <1>1, <1>2, <1>3, <1>4, <1>5, ControlOnly DEF IInv, TypeOK

\* KeDelayExecutionThread calls Schedule.
LEMMA DelayCallStep ==
    ASSUME IInv, KeDelayExecutionThread(current)
    PROVE  IInv'
<1> USE DEF KeDelayExecutionThread, Calls, At, Goto, schedVars, cpuVars, threadVars, objectVars
<1>1. current \in Threads
  BY DEF IInv, TypeOK
<1>2. TypeOK'
  BY <1>1 DEF IInv, TypeOK, PCs, PassivePCs, LockedPCs, DispatchPCs, Irqls
<1>3. LockHandOver'
  BY <1>1, ThreadAssumption DEF IInv, TypeOK, LockHandOver, LockedPCs, PassivePCs
<1>4. ControlConsistent'
  BY <1>1, ThreadAssumption DEF IInv, TypeOK, LockHandOver, OneRunning, ControlConsistent,
     ArgFits, Busy, Exiting, SwitchedOut, PassivePCs, Workers
<1>5. NoInternalBugCheck'
  BY DEF IInv, NoInternalBugCheck
<1> QED BY <1>1, <1>2, <1>3, <1>4, <1>5, ControlOnly DEF IInv, TypeOK

\* A timer tick.
LEMMA TimerStep ==
    ASSUME IInv, KiThreadTimerISR
    PROVE  IInv'
<1> USE DEF KiThreadTimerISR, QuantumExpired, ReturnDrains, Goto, schedVars, cpuVars, threadVars, objectVars
<1>1. current \in Threads
  BY DEF IInv, TypeOK
<1>2. TypeOK'
  <2>1. quantum' \in [Threads -> 0 .. QuantumReset]
    <3> DEFINE left == IF quantum[current] > 0 THEN quantum[current] - 1 ELSE 0
    <3>1. quantum' = [quantum EXCEPT ![current] = left]
      OBVIOUS
    <3>2. quantum \in [Threads -> 0 .. QuantumReset]
      BY DEF IInv, TypeOK
    <3>3. left \in 0 .. QuantumReset
      BY <1>1, <3>2, ThreadAssumption
    <3> HIDE DEF left
    <3> QED BY <3>1, <3>2, <3>3
  <2>2. pc' \in [Threads -> PCs] /\ ret' \in [Threads -> PassivePCs] /\ irql' \in Irqls
    BY <1>1 DEF IInv, TypeOK, LockHandOver, PCs, DispatchPCs, Irqls
  <2>3. dpcQueued' \in BOOLEAN
    BY DEF IInv, TypeOK
  <2> QED BY <2>1, <2>2, <2>3 DEF IInv, TypeOK
<1>3. LockHandOver'
  BY <1>1, ThreadAssumption DEF IInv, TypeOK, LockHandOver, LockedPCs, PassivePCs
<1>4. ControlConsistent'
  <2> USE <1>1, ThreadAssumption DEF IInv, TypeOK, PassivePCs
  <2>1. ASSUME NEW t \in Threads
        PROVE  /\ pc'[t] \in PassivePCs => ret'[t] = "run"
               /\ ArgFits(t)'
               /\ Busy(t, {"PsExitThread"})' => t \in Workers
               /\ t # current => SwitchedOut(t)'
    <3>1. pc'[t] \in PassivePCs => ret'[t] = "run"
      BY DEF ControlConsistent, LockHandOver
    <3>2. ArgFits(t)'
      BY DEF ControlConsistent, ArgFits, Busy, LockHandOver
    <3>3. Busy(t, {"PsExitThread"})' => t \in Workers
      BY DEF ControlConsistent, Busy, LockHandOver
    <3>4. t # current => SwitchedOut(t)'
      BY DEF ControlConsistent, SwitchedOut
    <3> QED BY <3>1, <3>2, <3>3, <3>4
  <2>2. /\ pc'[current] \notin {"new", "gone"}
        /\ pc'[Idle] \in {"run", "Unlock", "Drain", "Lower", "Scheduling", "Reaping"}
        /\ ret'[Idle] = "run"
    BY DEF ControlConsistent, LockHandOver
  <2>3. state[current] = "terminated" => current \in Workers /\ Exiting(current)'
    BY DEF ControlConsistent, Exiting, LockHandOver
  <2>4. \A u \in Workers : state[u] = "initialized" => waiters'[u] = <<>>
    BY DEF ControlConsistent
  <2> QED BY <2>1, <2>2, <2>3, <2>4 DEF ControlConsistent
<1>5. NoInternalBugCheck'
  BY DEF IInv, NoInternalBugCheck
<1> QED BY <1>1, <1>2, <1>3, <1>4, <1>5, ControlOnly DEF IInv, TypeOK

-----------------------------------------------------------------------------
(* Steps that wake a thread. *)

\* KiReadyThread of a thread that is not READY keeps the ready lists exact.
LEMMA ReadyEffect ==
    ASSUME TypeOK, ReadyListsExact, NEW u \in Threads, state[u] # "ready", KiReadyThread(u)
    PROVE  /\ ready' \in [Priorities -> Seq(Threads)]
           /\ quantum' \in [Threads -> 0 .. QuantumReset]
           /\ state' \in [Threads -> States]
           /\ ReadyListsExact'
<1>1. Priority[u] \in Priorities
  BY ThreadAssumption
<1>2. ready \in [Priorities -> Seq(Threads)] /\ Exact(ready, Priorities, Members(state, "ready"))
  BY ReadyExact DEF TypeOK
<1>3. u \notin Members(state, "ready")
  BY DEF Members
<1>4. /\ [ready EXCEPT ![Priority[u]] = Append(@, u)] \in [Priorities -> Seq(Threads)]
      /\ Exact([ready EXCEPT ![Priority[u]] = Append(@, u)], Priorities, Members(state, "ready") \cup {u})
  BY <1>1, <1>2, <1>3, InsertExact
<1>5. ready' \in [Priorities -> Seq(Threads)] /\ Exact(ready', Priorities, Members(state, "ready") \cup {u})
  BY <1>4 DEF KiReadyThread
<1>6. \A t \in Threads : t \in Members(state, "ready") \cup {u} <=> state'[t] = "ready"
  BY DEF KiReadyThread, Members, TypeOK
<1>7. ReadyListsExact'
  BY <1>5, <1>6 DEF ReadyListsExact, Exact
<1>8. quantum' \in [Threads -> 0 .. QuantumReset] /\ state' \in [Threads -> States]
  BY ThreadAssumption DEF KiReadyThread, FullQuantum, TypeOK, States
<1> QED BY <1>5, <1>7, <1>8

\* Waking the first waiter of o moves it from that wait list to a ready list.
LEMMA WakeEffect ==
    ASSUME IInv, NEW o \in Objects, waiters[o] # <<>>,
           KiReadyThread(Head(waiters[o])),
           waiters' = [waiters EXCEPT ![o] = OtherWaiters(o)]
    PROVE  /\ ready' \in [Priorities -> Seq(Threads)]
           /\ quantum' \in [Threads -> 0 .. QuantumReset]
           /\ state' \in [Threads -> States]
           /\ waiters' \in [Objects -> Seq(Threads)]
           /\ ReadyListsExact' /\ WaitListsExact'
           /\ Head(waiters[o]) \in Threads /\ state[Head(waiters[o])] = "waiting"
           /\ state' = [state EXCEPT ![Head(waiters[o])] = "ready"]
           /\ signal[o] = 0
<1> DEFINE h == Head(waiters[o])
<1>1. /\ h \in Threads /\ state[h] = "waiting"
      /\ [waiters EXCEPT ![o] = Tail(@)] \in [Objects -> Seq(Threads)]
      /\ Exact([waiters EXCEPT ![o] = Tail(@)], Objects, Members(state, "waiting") \ {h})
  BY FirstWaiter DEF IInv
<1>2. waiters' = [waiters EXCEPT ![o] = Tail(@)]
  BY DEF OtherWaiters
<1>3. waiters' \in [Objects -> Seq(Threads)] /\ Exact(waiters', Objects, Members(state, "waiting") \ {h})
  BY <1>1, <1>2
<1> HIDE DEF h
<1>4. state' = [state EXCEPT ![h] = "ready"] /\ KiReadyThread(h)
  BY DEF KiReadyThread, h
<1>5. \A t \in Threads : t \in Members(state, "waiting") \ {h} <=> state'[t] = "waiting"
  BY <1>1, <1>4 DEF Members, IInv, TypeOK
<1>6. WaitListsExact'
  BY <1>3, <1>5 DEF WaitListsExact, Exact
<1>7. /\ ready' \in [Priorities -> Seq(Threads)]
      /\ quantum' \in [Threads -> 0 .. QuantumReset]
      /\ state' \in [Threads -> States]
      /\ ReadyListsExact'
  BY <1>1, <1>4, ReadyEffect DEF IInv
<1>8. signal[o] = 0
  BY DEF IInv, NoWaiterOnSignaled
<1> QED BY <1>1, <1>3, <1>4, <1>6, <1>7, <1>8 DEF h

\* KiDHeaderRelease keeps the lists exact and leaves no waiter on a signalled
\* object; the thread it readies, if any, was WAITING.
LEMMA ReleaseEffect ==
    ASSUME IInv, NEW o \in Objects, NEW zero \in BOOLEAN, KiDHeaderRelease(o, zero)
    PROVE  /\ ready' \in [Priorities -> Seq(Threads)]
           /\ quantum' \in [Threads -> 0 .. QuantumReset]
           /\ state' \in [Threads -> States]
           /\ waiters' \in [Objects -> Seq(Threads)]
           /\ signal' \in [Objects -> Int]
           /\ ReadyListsExact' /\ WaitListsExact' /\ NoWaiterOnSignaled'
           /\ \A t \in Threads : state'[t] = state[t] \/ (state[t] = "waiting" /\ state'[t] = "ready")
           /\ \A r \in Objects : waiters[r] = <<>> => waiters'[r] = <<>>
<1>1. CASE waiters[o] # <<>>
  <2>1. /\ KiReadyThread(Head(waiters[o]))
        /\ waiters' = [waiters EXCEPT ![o] = OtherWaiters(o)]
        /\ signal' = [signal EXCEPT ![o] = IF zero THEN 0 ELSE HandedOver(o)]
    BY <1>1 DEF KiDHeaderRelease
  <2>2. /\ ready' \in [Priorities -> Seq(Threads)]
        /\ quantum' \in [Threads -> 0 .. QuantumReset]
        /\ state' \in [Threads -> States]
        /\ waiters' \in [Objects -> Seq(Threads)]
        /\ ReadyListsExact' /\ WaitListsExact'
        /\ Head(waiters[o]) \in Threads /\ state[Head(waiters[o])] = "waiting"
        /\ state' = [state EXCEPT ![Head(waiters[o])] = "ready"]
        /\ signal[o] = 0
    BY <1>1, <2>1, WakeEffect
  <2>3. signal' = signal
    BY <2>1, <2>2 DEF HandedOver, IInv, TypeOK
  <2>4. \A r \in Objects : waiters[r] = <<>> => waiters'[r] = <<>>
    BY <1>1, <2>1 DEF IInv, TypeOK
  <2>5. NoWaiterOnSignaled'
    BY <1>1, <2>2, <2>3, <2>4 DEF IInv, NoWaiterOnSignaled
  <2>6. \A t \in Threads : state'[t] = state[t] \/ (state[t] = "waiting" /\ state'[t] = "ready")
    BY <2>2 DEF IInv, TypeOK
  <2> QED BY <2>2, <2>3, <2>4, <2>5, <2>6 DEF IInv, TypeOK
<1>2. CASE waiters[o] = <<>>
  <2>1. /\ signal' = [signal EXCEPT ![o] = IF zero THEN 0 ELSE @ + 1]
        /\ UNCHANGED <<state, quantum, ready, waiters>>
    BY <1>2 DEF KiDHeaderRelease
  <2>2. signal' \in [Objects -> Int]
    BY <2>1 DEF IInv, TypeOK
  <2>3. ReadyListsExact'
    BY <2>1 DEF IInv, ReadyListsExact
  <2>4. WaitListsExact'
    BY <2>1 DEF IInv, WaitListsExact
  <2>5. NoWaiterOnSignaled'
    BY <1>2, <2>1 DEF IInv, TypeOK, NoWaiterOnSignaled
  <2> QED BY <2>1, <2>2, <2>3, <2>4, <2>5 DEF IInv, TypeOK
<1> QED BY <1>1, <1>2

\* What has to be shown of a step under the lock that wakes WAITING threads and
\* sends the current thread to the end of its section, or keeps it there.
LEMMA WakeStep ==
    ASSUME IInv, TypeOK',
           ReadyListsExact', WaitListsExact', NoWaiterOnSignaled',
           \A t \in Threads : state'[t] = state[t] \/ (state[t] = "waiting" /\ state'[t] = "ready"),
           \A r \in Objects : waiters[r] = <<>> => waiters'[r] = <<>>,
           pc[current] \in {"ReleaseSemaphore", "ReleaseMutant", "SetEvent", "ReleaseAll"},
           pc' = pc \/ pc' = [pc EXCEPT ![current] = "Unlock"],
           UNCHANGED <<current, exitList, reaped, irql, dpcQueued, ddb, ret, arg, waitIrql, bug>>
    PROVE  IInv'
<1>1. current \in Threads
  BY DEF IInv, TypeOK
<1>2. state'[current] = state[current]
  BY <1>1 DEF IInv, OneRunning
<1>3. OneRunning'
  BY <1>1, <1>2 DEF IInv, OneRunning
<1>4. \A t \in Threads \ {current} : pc'[t] = pc[t]
  BY DEF IInv, TypeOK
<1>5. pc'[current] \in {"ReleaseSemaphore", "ReleaseMutant", "SetEvent", "ReleaseAll", "Unlock"}
  BY <1>1 DEF IInv, TypeOK
<1>6. LockHandOver'
  BY <1>1, <1>4, <1>5 DEF IInv, LockHandOver, LockedPCs, PassivePCs
<1>7. IdleDispatchable'
  BY ThreadAssumption DEF IInv, IdleDispatchable
<1>8. ReapedIsOffCpu'
  <2>1. Elems(exitList) \subseteq Threads /\ reaped \subseteq Threads
    BY DEF IInv, TypeOK, Elems
  <2>2. \A t \in Elems(exitList) \cup reaped : state'[t] = state[t] /\ pc'[t] = pc[t]
    BY <2>1, <1>4 DEF IInv, ReapedIsOffCpu
  <2> QED BY <2>1, <2>2 DEF IInv, ReapedIsOffCpu
<1>9. ControlConsistent'
  <2>1. ASSUME NEW t \in Threads
        PROVE  /\ pc'[t] \in PassivePCs => ret'[t] = "run"
               /\ ArgFits(t)'
               /\ Busy(t, {"PsExitThread"})' => t \in Workers
               /\ t # current => SwitchedOut(t)'
    <3>1. pc'[t] \in PassivePCs => ret'[t] = "run"
      BY <1>4, <1>5 DEF IInv, ControlConsistent, PassivePCs
    <3>2. ArgFits(t)'
      <4>1. ArgFits(t) /\ (\A u \in Workers : state[u] = "initialized" <=> state'[u] = "initialized")
        BY DEF IInv, ControlConsistent, Workers
      <4> QED BY <4>1, <1>1, <1>4, <1>5 DEF IInv, TypeOK, ArgFits, Busy
    <3>3. Busy(t, {"PsExitThread"})' => t \in Workers
      BY <1>4, <1>5 DEF IInv, ControlConsistent, Busy
    <3>4. t # current => SwitchedOut(t)'
      BY <1>4 DEF IInv, ControlConsistent, SwitchedOut
    <3> QED BY <3>1, <3>2, <3>3, <3>4
  <2>2. pc[current] # "ReleaseAll" => state[current] = "running"
    BY DEF IInv, OneRunning, ControlConsistent, Exiting
  <2>3. state'[current] = "terminated" => current \in Workers /\ Exiting(current)'
    BY <1>1, <1>2, <1>5, <2>2 DEF IInv, TypeOK, ControlConsistent, Exiting
  <2>4. /\ pc'[Idle] \in {"run", "Unlock", "Drain", "Lower", "Scheduling", "Reaping"}
        /\ ret'[Idle] = "run"
    BY <1>4, ThreadAssumption DEF IInv, ControlConsistent
  <2>5. \A u \in Workers : state'[u] = "initialized" => waiters'[u] = <<>>
    BY DEF IInv, ControlConsistent, Workers, Objects
  <2> QED BY <2>1, <2>3, <2>4, <2>5, <1>5 DEF ControlConsistent
<1> QED BY <1>3, <1>6, <1>7, <1>8, <1>9 DEF IInv, NoInternalBugCheck

\* The locked part of KeReleaseSemaphore.
LEMMA ReleaseSemaphoreStep ==
    ASSUME IInv, ReleaseSemaphore(current)
    PROVE  IInv'
<1>1. current \in Threads /\ arg[current] \in Objects
  BY DEF ReleaseSemaphore, At, IInv, TypeOK, ControlConsistent, ArgFits, Busy, Objects, Events
<1>2. KiDHeaderRelease(arg[current], FALSE)
  BY DEF ReleaseSemaphore
<1>3. /\ ready' \in [Priorities -> Seq(Threads)]
      /\ quantum' \in [Threads -> 0 .. QuantumReset]
      /\ state' \in [Threads -> States]
      /\ waiters' \in [Objects -> Seq(Threads)]
      /\ signal' \in [Objects -> Int]
      /\ ReadyListsExact' /\ WaitListsExact' /\ NoWaiterOnSignaled'
      /\ \A t \in Threads : state'[t] = state[t] \/ (state[t] = "waiting" /\ state'[t] = "ready")
      /\ \A r \in Objects : waiters[r] = <<>> => waiters'[r] = <<>>
  BY <1>1, <1>2, ReleaseEffect
<1>4. holds' \in [Threads -> SUBSET Guarding]
  BY DEF ReleaseSemaphore, IInv, TypeOK, PassPermit
<1>5. TypeOK'
  BY <1>1, <1>3, <1>4 DEF ReleaseSemaphore, cpuVars, IInv, TypeOK, Goto, PCs, LockedPCs
<1>6. /\ pc[current] \in {"ReleaseSemaphore", "ReleaseMutant", "SetEvent", "ReleaseAll"}
      /\ pc' = [pc EXCEPT ![current] = "Unlock"]
      /\ UNCHANGED <<current, exitList, reaped, irql, dpcQueued, ddb, ret, arg, waitIrql, bug>>
  BY DEF ReleaseSemaphore, At, Goto, cpuVars
<1> QED BY <1>3, <1>5, <1>6, WakeStep

\* The locked part of KeReleaseMutant.
LEMMA ReleaseMutantStep ==
    ASSUME IInv, ReleaseMutant(current)
    PROVE  IInv'
<1>1. current \in Threads /\ arg[current] \in Objects
  BY DEF ReleaseMutant, At, IInv, TypeOK, ControlConsistent, ArgFits, Busy, Objects, Events
<1>2. KiDHeaderRelease(arg[current], FALSE)
  BY DEF ReleaseMutant
<1>3. /\ ready' \in [Priorities -> Seq(Threads)]
      /\ quantum' \in [Threads -> 0 .. QuantumReset]
      /\ state' \in [Threads -> States]
      /\ waiters' \in [Objects -> Seq(Threads)]
      /\ signal' \in [Objects -> Int]
      /\ ReadyListsExact' /\ WaitListsExact' /\ NoWaiterOnSignaled'
      /\ \A t \in Threads : state'[t] = state[t] \/ (state[t] = "waiting" /\ state'[t] = "ready")
      /\ \A r \in Objects : waiters[r] = <<>> => waiters'[r] = <<>>
  BY <1>1, <1>2, ReleaseEffect
<1>4. UNCHANGED <<owner, holds>>
  BY DEF ReleaseMutant
<1>5. TypeOK'
  BY <1>1, <1>3, <1>4 DEF ReleaseMutant, cpuVars, IInv, TypeOK, Goto, PCs, LockedPCs
<1>6. /\ pc[current] \in {"ReleaseSemaphore", "ReleaseMutant", "SetEvent", "ReleaseAll"}
      /\ pc' = [pc EXCEPT ![current] = "Unlock"]
      /\ UNCHANGED <<current, exitList, reaped, irql, dpcQueued, ddb, ret, arg, waitIrql, bug>>
  BY DEF ReleaseMutant, At, Goto, cpuVars
<1> QED BY <1>3, <1>5, <1>6, WakeStep

\* The locked part of KeSetEvent for a synchronization event.
LEMMA SetEventStep ==
    ASSUME IInv, SetEvent(current)
    PROVE  IInv'
<1>1. current \in Threads /\ arg[current] \in Objects
  BY DEF SetEvent, At, IInv, TypeOK, ControlConsistent, ArgFits, Busy, Objects, Events
<1>2. KiDHeaderRelease(arg[current], TRUE)
  BY DEF SetEvent
<1>3. /\ ready' \in [Priorities -> Seq(Threads)]
      /\ quantum' \in [Threads -> 0 .. QuantumReset]
      /\ state' \in [Threads -> States]
      /\ waiters' \in [Objects -> Seq(Threads)]
      /\ signal' \in [Objects -> Int]
      /\ ReadyListsExact' /\ WaitListsExact' /\ NoWaiterOnSignaled'
      /\ \A t \in Threads : state'[t] = state[t] \/ (state[t] = "waiting" /\ state'[t] = "ready")
      /\ \A r \in Objects : waiters[r] = <<>> => waiters'[r] = <<>>
  BY <1>1, <1>2, ReleaseEffect
<1>4. UNCHANGED <<owner, holds>>
  BY DEF SetEvent
<1>5. TypeOK'
  BY <1>1, <1>3, <1>4 DEF SetEvent, cpuVars, IInv, TypeOK, Goto, PCs, LockedPCs
<1>6. /\ pc[current] \in {"ReleaseSemaphore", "ReleaseMutant", "SetEvent", "ReleaseAll"}
      /\ pc' = [pc EXCEPT ![current] = "Unlock"]
      /\ UNCHANGED <<current, exitList, reaped, irql, dpcQueued, ddb, ret, arg, waitIrql, bug>>
  BY DEF SetEvent, At, Goto, cpuVars
<1> QED BY <1>3, <1>5, <1>6, WakeStep

\* A turn of the loop of KiDHeaderReleaseAll, or its end.
LEMMA ReleaseAllStep ==
    ASSUME IInv, KiDHeaderReleaseAll(current)
    PROVE  IInv'
<1>1. current \in Threads /\ arg[current] \in Objects
  BY DEF KiDHeaderReleaseAll, At, IInv, TypeOK, ControlConsistent, ArgFits, Objects, Events
<1>0. /\ pc[current] \in {"ReleaseSemaphore", "ReleaseMutant", "SetEvent", "ReleaseAll"}
      /\ arg[current] \in Events \cup Workers
      /\ UNCHANGED <<current, exitList, reaped, irql, dpcQueued, ddb, ret, arg, waitIrql, htype, owner, holds, bug>>
  BY <1>1 DEF KiDHeaderReleaseAll, cpuVars, At, IInv, ControlConsistent, ArgFits, Events
<1>2. CASE waiters[arg[current]] # <<>>
  <2>1. /\ KiReadyThread(Head(waiters[arg[current]]))
        /\ waiters' = [waiters EXCEPT ![arg[current]] = OtherWaiters(arg[current])]
        /\ UNCHANGED <<signal, pc>>
    BY <1>2 DEF KiDHeaderReleaseAll
  <2>2. /\ ready' \in [Priorities -> Seq(Threads)]
        /\ quantum' \in [Threads -> 0 .. QuantumReset]
        /\ state' \in [Threads -> States]
        /\ waiters' \in [Objects -> Seq(Threads)]
        /\ ReadyListsExact' /\ WaitListsExact'
        /\ Head(waiters[arg[current]]) \in Threads /\ state[Head(waiters[arg[current]])] = "waiting"
        /\ state' = [state EXCEPT ![Head(waiters[arg[current]])] = "ready"]
        /\ signal[arg[current]] = 0
    BY <1>1, <1>2, <2>1, WakeEffect
  <2>3. \A r \in Objects : waiters[r] = <<>> => waiters'[r] = <<>>
    BY <1>2, <2>1 DEF IInv, TypeOK
  <2>4. NoWaiterOnSignaled'
    BY <1>2, <2>1, <2>2, <2>3 DEF IInv, NoWaiterOnSignaled
  <2>5. \A t \in Threads : state'[t] = state[t] \/ (state[t] = "waiting" /\ state'[t] = "ready")
    BY <2>2 DEF IInv, TypeOK
  <2>6. TypeOK'
    BY <1>0, <2>1, <2>2 DEF IInv, TypeOK
  <2> QED BY <1>0, <2>1, <2>2, <2>3, <2>4, <2>5, <2>6, WakeStep
<1>3. CASE waiters[arg[current]] = <<>>
  <2>1. /\ signal' = [signal EXCEPT ![arg[current]] = IF arg[current] \in Events THEN 0 ELSE 1]
        /\ pc' = [pc EXCEPT ![current] = "Unlock"]
        /\ UNCHANGED <<state, quantum, ready, waiters>>
    BY <1>3 DEF KiDHeaderReleaseAll, Goto
  <2>2. TypeOK'
    <3>1. signal' \in [Objects -> Int]
      <4>1. CASE arg[current] \in Events
        <5>1. signal' = [signal EXCEPT ![arg[current]] = 0]
          BY <2>1, <4>1
        <5> QED BY <1>1, <5>1 DEF IInv, TypeOK
      <4>2. CASE arg[current] \notin Events
        <5>1. signal' = [signal EXCEPT ![arg[current]] = 1]
          BY <2>1, <4>2
        <5> QED BY <1>1, <5>1 DEF IInv, TypeOK
      <4> QED BY <4>1, <4>2
    <3>2. pc' \in [Threads -> PCs]
      BY <1>1, <2>1 DEF IInv, TypeOK, PCs, LockedPCs
    <3> QED BY <1>0, <2>1, <3>1, <3>2 DEF IInv, TypeOK
  <2>3. ReadyListsExact'
    BY <2>1 DEF IInv, ReadyListsExact
  <2>4. WaitListsExact'
    BY <2>1 DEF IInv, WaitListsExact
  <2>5. NoWaiterOnSignaled'
    BY <1>3, <2>1 DEF IInv, TypeOK, NoWaiterOnSignaled
  <2> QED BY <1>0, <2>1, <2>2, <2>3, <2>4, <2>5, WakeStep
<1> QED BY <1>2, <1>3

-----------------------------------------------------------------------------
(* Steps that switch threads, create them or end them. *)

\* What has to be shown of a switch to the selected thread next: the current
\* thread becomes WAITING or READY at "Unlock", or is TERMINATED and gone.
LEMMA SwapStep ==
    ASSUME IInv, NEW next \in Threads, state[next] = "ready",
           NEW st \in {"waiting", "ready", "terminated"},
           pc[current] \in {"Wait", "Scheduling"},
           current # Idle \/ st = "ready",
           st = "terminated" <=> state[current] = "terminated",
           state' = [state EXCEPT ![current] = st, ![next] = "running"],
           pc' = [pc EXCEPT ![current] = IF st = "terminated" THEN "gone" ELSE "Unlock"],
           exitList' = IF st = "terminated" THEN Append(exitList, current) ELSE exitList,
           current' = next,
           \A u \in Workers : waiters[u] = <<>> => waiters'[u] = <<>> \/ state[u] # "initialized",
           TypeOK', ReadyListsExact', WaitListsExact', NoWaiterOnSignaled',
           UNCHANGED <<reaped, irql, dpcQueued, ddb, ret, arg, waitIrql, bug>>
    PROVE  IInv'
<1>1. /\ current \in Threads /\ next # current /\ exitList \in Seq(Threads)
      /\ pc \in [Threads -> PCs] /\ state \in [Threads -> States]
      /\ state[current] \in {"running", "terminated"}
  BY DEF IInv, TypeOK, OneRunning
<1>2. /\ pc'[current] = IF st = "terminated" THEN "gone" ELSE "Unlock"
      /\ pc'[next] = "Unlock"
      /\ \A t \in Threads \ {current} : pc'[t] = pc[t]
  BY <1>1 DEF IInv, ControlConsistent, SwitchedOut
<1>3. /\ state'[current] = st /\ state'[next] = "running"
      /\ \A t \in Threads \ {current, next} : state'[t] = state[t]
  BY <1>1
<1>4. OneRunning'
  BY <1>3 DEF IInv, OneRunning
<1>5. LockHandOver'
  BY <1>1, <1>2 DEF IInv, LockHandOver, LockedPCs, PassivePCs
<1>6. IdleDispatchable'
  BY <1>3, ThreadAssumption DEF IInv, IdleDispatchable
<1>7. ReapedIsOffCpu'
  <2>1. Elems(exitList) \subseteq Threads /\ reaped \subseteq Threads
    BY <1>1 DEF IInv, TypeOK, Elems
  <2>2. \A t \in Elems(exitList) \cup reaped : t # current /\ state[t] = "terminated" /\ pc[t] = "gone"
    BY DEF IInv, ReapedIsOffCpu
  <2>3. Elems(exitList) \cap reaped = {} /\ NoDuplicates(exitList)
    BY DEF IInv, ReapedIsOffCpu
  <2>4. \A t \in Elems(exitList) \cup reaped : t # next /\ state'[t] = "terminated" /\ pc'[t] = "gone"
    BY <1>2, <1>3, <2>1, <2>2
  <2>5. CASE st = "terminated"
    <3>1. /\ Elems(exitList') = Elems(exitList) \cup {current}
          /\ NoDuplicates(exitList')
      BY <1>1, <2>2, <2>3, <2>5, AppendElems
    <3>2. state'[current] = "terminated" /\ pc'[current] = "gone"
      BY <1>2, <1>3, <2>5
    <3>3. Elems(exitList') \cap reaped' = {}
      BY <2>2, <2>3, <3>1
    <3>4. \A t \in Elems(exitList') \cup reaped' : t # current' /\ state'[t] = "terminated" /\ pc'[t] = "gone"
      <4> SUFFICES ASSUME NEW t \in Elems(exitList) \cup {current} \cup reaped
                   PROVE  t # next /\ state'[t] = "terminated" /\ pc'[t] = "gone"
        BY <3>1
      <4>1. CASE t = current
        BY <1>1, <3>2, <4>1
      <4>2. CASE t \in Elems(exitList) \cup reaped
        BY <2>4, <4>2
      <4> QED BY <4>1, <4>2
    <3> QED BY <3>1, <3>3, <3>4 DEF ReapedIsOffCpu
  <2>6. CASE st # "terminated"
    BY <2>3, <2>4, <2>6 DEF ReapedIsOffCpu
  <2> QED BY <2>5, <2>6
<1>8. ControlConsistent'
  <2>1. ASSUME NEW t \in Threads
        PROVE  /\ pc'[t] \in PassivePCs => ret'[t] = "run"
               /\ ArgFits(t)'
               /\ Busy(t, {"PsExitThread"})' => t \in Workers
               /\ t # next => SwitchedOut(t)'
    <3>1. pc'[t] \in PassivePCs => ret'[t] = "run"
      BY <1>2 DEF IInv, ControlConsistent, PassivePCs
    <3>2. ArgFits(t)'
      <4>1. ArgFits(t) /\ ret'[t] = ret[t] /\ arg'[t] = arg[t]
        BY DEF IInv, ControlConsistent
      <4>2. pc'[t] \in {"Unlock", "new", "gone"}
        BY <1>2 DEF IInv, LockHandOver
      <4> QED BY <4>1, <4>2 DEF ArgFits, Busy
    <3>3. Busy(t, {"PsExitThread"})' => t \in Workers
      BY <1>2 DEF IInv, ControlConsistent, Busy
    <3>4. t # next => SwitchedOut(t)'
      <4>1. CASE t = current
        BY <1>2, <1>3, <4>1 DEF SwitchedOut
      <4>2. CASE t # current /\ t # next
        <5>1. SwitchedOut(t) /\ state'[t] = state[t] /\ pc'[t] = pc[t]
          BY <1>2, <1>3, <4>2 DEF IInv, ControlConsistent
        <5> QED BY <5>1 DEF SwitchedOut
      <4> QED BY <4>1, <4>2
    <3> QED BY <3>1, <3>2, <3>3, <3>4
  <2>2. pc'[current'] \notin {"new", "gone"} /\ state'[current'] # "terminated"
    BY <1>2, <1>3
  <2>3. /\ pc'[Idle] \in {"run", "Unlock", "Drain", "Lower", "Scheduling", "Reaping"}
        /\ ret'[Idle] = "run"
    BY <1>2, ThreadAssumption DEF IInv, ControlConsistent
  <2>4. \A u \in Workers : state'[u] = "initialized" => waiters'[u] = <<>>
    BY <1>3 DEF IInv, ControlConsistent, Workers
  <2> QED BY <2>1, <2>2, <2>3, <2>4 DEF ControlConsistent
<1> QED BY <1>4, <1>5, <1>6, <1>7, <1>8 DEF IInv, NoInternalBugCheck

\* The body of KiDHeaderAcquire.
LEMMA AcquireStep ==
    ASSUME IInv, KiDHeaderAcquire(current)
    PROVE  IInv'
<1> DEFINE t == current
           o == arg[t]
           next == KiSelectNextThread(PROCESS_PRIORITY_IDLE)
<1>1. /\ t \in Threads /\ o \in Objects /\ pc[t] = "Wait"
      /\ o \in Workers => state[o] # "initialized"
  BY DEF KiDHeaderAcquire, At, IInv, TypeOK, ControlConsistent, ArgFits
<1>2. t # Idle /\ state[t] = "running"
  BY <1>1 DEF IInv, OneRunning, ControlConsistent, Exiting
<1>3. /\ pc' = [pc EXCEPT ![t] = "Unlock"]
      /\ UNCHANGED <<quantum, exitList, reaped, irql, dpcQueued, ddb, ret, arg, waitIrql, htype, bug>>
  BY DEF KiDHeaderAcquire, Goto, cpuVars
<1>4. pc' \in [Threads -> PCs]
  BY <1>3 DEF IInv, TypeOK, PCs, LockedPCs
<1>5. CASE signal[o] = 0
  <2>1. /\ waiters' = [waiters EXCEPT ![o] = Append(waiters[o], t)]
        /\ ready' = RemoveSelected(PROCESS_PRIORITY_IDLE)
        /\ state' = [state EXCEPT ![t] = "waiting", ![next] = "running"]
        /\ current' = next
        /\ UNCHANGED <<signal, owner, holds>>
    BY <1>5 DEF KiDHeaderAcquire, EnqueuedLast, MarkedWaiting, KiSwapThread
  <2>2. PROCESS_PRIORITY_IDLE \in Priorities
    BY DEF Priorities, PROCESS_PRIORITY_IDLE, PROCESS_PRIORITY_MAX
  <2>3. /\ next \in Threads /\ state[next] = "ready"
        /\ RemoveSelected(PROCESS_PRIORITY_IDLE) \in [Priorities -> Seq(Threads)]
        /\ Exact(RemoveSelected(PROCESS_PRIORITY_IDLE), Priorities, Members(state, "ready") \ {next})
    BY <1>2, <2>2, SomeoneReady, Selection DEF IInv
  <2> HIDE DEF next
  <2>4. state' \in [Threads -> States] /\ next # t
    BY <1>2, <2>1, <2>3 DEF IInv, TypeOK, States
  <2>5. ReadyListsExact'
    <3>1. \A u \in Threads : u \in Members(state, "ready") \ {next} <=> state'[u] = "ready"
      BY <1>2, <2>1, <2>4 DEF Members, IInv, TypeOK
    <3> QED BY <2>1, <2>3, <3>1 DEF ReadyListsExact, Exact
  <2>6. waiters' \in [Objects -> Seq(Threads)] /\ WaitListsExact'
    <3>1. waiters \in [Objects -> Seq(Threads)] /\ Exact(waiters, Objects, Members(state, "waiting"))
      BY WaitExact DEF IInv, TypeOK
    <3>2. t \notin Members(state, "waiting")
      BY <1>2 DEF Members
    <3>3. /\ [waiters EXCEPT ![o] = Append(@, t)] \in [Objects -> Seq(Threads)]
          /\ Exact([waiters EXCEPT ![o] = Append(@, t)], Objects, Members(state, "waiting") \cup {t})
      BY <1>1, <3>1, <3>2, InsertExact
    <3>4. waiters' \in [Objects -> Seq(Threads)] /\ Exact(waiters', Objects, Members(state, "waiting") \cup {t})
      BY <2>1, <3>3
    <3>5. \A u \in Threads : u \in Members(state, "waiting") \cup {t} <=> state'[u] = "waiting"
      BY <1>1, <2>1, <2>3, <2>4 DEF Members, IInv, TypeOK
    <3> QED BY <3>4, <3>5 DEF WaitListsExact, Exact
  <2>7. \A r \in Objects : r # o => waiters'[r] = waiters[r]
    BY <2>1 DEF IInv, TypeOK
  <2>8. NoWaiterOnSignaled'
    BY <1>5, <2>1, <2>7 DEF IInv, NoWaiterOnSignaled
  <2>9. \A u \in Workers : waiters[u] = <<>> => waiters'[u] = <<>> \/ state[u] # "initialized"
    BY <1>1, <2>7 DEF Objects
  <2>10. TypeOK'
    BY <1>3, <1>4, <2>1, <2>3, <2>4, <2>6 DEF IInv, TypeOK
  <2> QED BY <1>1, <1>2, <1>3, <2>1, <2>3, <2>5, <2>6, <2>8, <2>9, <2>10, SwapStep
<1>6. CASE signal[o] # 0
  <2>1. /\ signal' = [signal EXCEPT ![o] = @ - 1]
        /\ owner' \in [Mutants -> Threads \cup {None}]
        /\ holds' \in [Threads -> SUBSET Guarding]
        /\ UNCHANGED <<current, state, ready, waiters>>
    <3>1. /\ signal' = [signal EXCEPT ![o] = @ - 1]
          /\ owner' = IF o \in Mutants THEN [owner EXCEPT ![o] = t] ELSE owner
          /\ holds' = IF o \in Guarding THEN [holds EXCEPT ![t] = @ \cup {o}] ELSE holds
          /\ UNCHANGED <<current, state, ready, waiters>>
      BY <1>6 DEF KiDHeaderAcquire
    <3>2. owner' \in [Mutants -> Threads \cup {None}]
      BY <1>1, <3>1 DEF IInv, TypeOK
    <3>3. holds' \in [Threads -> SUBSET Guarding]
      BY <1>1, <3>1 DEF IInv, TypeOK
    <3> QED BY <3>1, <3>2, <3>3
  <2>2. TypeOK'
    <3>1. signal' \in [Objects -> Int]
      BY <1>1, <2>1 DEF IInv, TypeOK
    <3> QED BY <1>3, <1>4, <2>1, <3>1 DEF IInv, TypeOK
  <2>3. \A u \in Threads \ {t} : pc'[u] = pc[u]
    BY <1>3 DEF IInv, TypeOK
  <2>4. pc'[t] = "Unlock"
    BY <1>1, <1>3 DEF IInv, TypeOK
  <2>5. ReadyListsExact'
    BY <2>1 DEF IInv, ReadyListsExact
  <2>6. WaitListsExact'
    BY <2>1 DEF IInv, WaitListsExact
  <2>7. NoWaiterOnSignaled'
    BY <1>1, <1>6, <2>1 DEF IInv, TypeOK, NoWaiterOnSignaled
  <2>8. OneRunning' /\ IdleDispatchable'
    BY <2>1 DEF IInv, OneRunning, IdleDispatchable
  <2>9. LockHandOver'
    BY <1>1, <1>3, <2>1, <2>3, <2>4 DEF IInv, LockHandOver, LockedPCs, PassivePCs
  <2>10. ReapedIsOffCpu'
    <3>1. Elems(exitList) \subseteq Threads /\ reaped \subseteq Threads
      BY DEF IInv, TypeOK, Elems
    <3> QED BY <1>3, <2>1, <2>3, <3>1 DEF IInv, ReapedIsOffCpu
  <2>11. ControlConsistent'
    BY <1>1, <1>2, <1>3, <2>1, <2>3, <2>4, ThreadAssumption
    DEF IInv, ControlConsistent, ArgFits, Busy, SwitchedOut, PassivePCs
  <2> QED BY <1>3, <2>2, <2>5, <2>6, <2>7, <2>8, <2>9, <2>10, <2>11 DEF IInv, NoInternalBugCheck
<1> QED BY <1>5, <1>6

\* The locked part of Schedule.
LEMMA ScheduleStep ==
    ASSUME IInv, Schedule(current)
    PROVE  IInv'
<1> DEFINE t == current
<1>1. t \in Threads /\ pc[t] = "Scheduling" /\ state[t] \in {"running", "terminated"}
  BY DEF Schedule, At, IInv, TypeOK, OneRunning
<1>2. UNCHANGED <<reaped, irql, dpcQueued, ddb, ret, arg, waitIrql, bug>>
  BY DEF Schedule, cpuVars
<1>3. UNCHANGED <<waiters, signal, htype, owner, holds>>
  BY DEF Schedule, objectVars
<1>4. NoWaiterOnSignaled'
  BY <1>3 DEF IInv, NoWaiterOnSignaled
<1>5. CASE state[t] = "terminated"
  <2> DEFINE next == KiSelectNextThread(PROCESS_PRIORITY_IDLE)
  <2>1. /\ ready' = RemoveSelected(PROCESS_PRIORITY_IDLE)
        /\ exitList' = Append(exitList, t)
        /\ state' = [state EXCEPT ![next] = "running"]
        /\ current' = next
        /\ pc' = [pc EXCEPT ![t] = "gone"]
        /\ UNCHANGED quantum
    BY <1>5 DEF Schedule, KiSwapThread, Goto
  <2>2. PROCESS_PRIORITY_IDLE \in Priorities /\ t # Idle
    BY <1>5 DEF Priorities, PROCESS_PRIORITY_IDLE, PROCESS_PRIORITY_MAX, IInv, ControlConsistent, Workers
  <2>3. /\ next \in Threads /\ state[next] = "ready"
        /\ RemoveSelected(PROCESS_PRIORITY_IDLE) \in [Priorities -> Seq(Threads)]
        /\ Exact(RemoveSelected(PROCESS_PRIORITY_IDLE), Priorities, Members(state, "ready") \ {next})
    BY <2>2, SomeoneReady, Selection DEF IInv
  <2> HIDE DEF next
  <2>4. /\ state' \in [Threads -> States] /\ next # t
        /\ state' = [state EXCEPT ![t] = "terminated", ![next] = "running"]
    BY <1>5, <2>1, <2>3 DEF IInv, TypeOK, States
  <2>5. ReadyListsExact'
    <3>1. \A u \in Threads : u \in Members(state, "ready") \ {next} <=> state'[u] = "ready"
      BY <2>1, <2>3 DEF Members, IInv, TypeOK
    <3> QED BY <2>1, <2>3, <3>1 DEF ReadyListsExact, Exact
  <2>6. WaitListsExact'
    <3>1. \A u \in Threads : state[u] = "waiting" <=> state'[u] = "waiting"
      BY <2>1, <2>3 DEF IInv, TypeOK
    <3> QED BY <1>3, <3>1 DEF IInv, WaitListsExact
  <2>7. TypeOK'
    <3>1. exitList' \in Seq(Threads) /\ pc' \in [Threads -> PCs]
      BY <1>1, <2>1 DEF IInv, TypeOK, PCs
    <3> QED BY <1>2, <1>3, <2>1, <2>3, <2>4, <3>1 DEF IInv, TypeOK
  <2> QED BY <1>1, <1>2, <1>3, <1>4, <1>5, <2>1, <2>2, <2>3, <2>4, <2>5, <2>6, <2>7, SwapStep
<1>6. CASE state[t] # "terminated" /\ KiSelectNextThread(Priority[t]) # None
  <2> DEFINE next == KiSelectNextThread(Priority[t])
             r == RemoveSelected(Priority[t])
  <2>1. /\ ready' = [r EXCEPT ![Priority[t]] = Append(@, t)]
        /\ state' = [state EXCEPT ![t] = "ready", ![next] = "running"]
        /\ quantum' = [quantum EXCEPT ![t] = QuantumReset]
        /\ current' = next
        /\ pc' = [pc EXCEPT ![t] = "Unlock"]
        /\ UNCHANGED exitList
    BY <1>6 DEF Schedule, KiSwapThread, FullQuantum, Goto
  <2>2. Priority[t] \in Priorities /\ Candidates(Priority[t]) # {} /\ state[t] = "running"
    BY <1>1, <1>6, ThreadAssumption DEF KiSelectNextThread
  <2>3. /\ next \in Threads /\ state[next] = "ready"
        /\ r \in [Priorities -> Seq(Threads)]
        /\ Exact(r, Priorities, Members(state, "ready") \ {next})
    BY <2>2, Selection DEF IInv
  <2> HIDE DEF next, r
  <2>4. next # t /\ t \notin Members(state, "ready") \ {next}
    BY <2>2, <2>3 DEF Members
  <2>5. state' \in [Threads -> States] /\ quantum' \in [Threads -> 0 .. QuantumReset]
    <3>1. state' \in [Threads -> States]
      BY <2>1 DEF IInv, TypeOK, States
    <3>2. quantum' \in [Threads -> 0 .. QuantumReset]
      BY <1>1, <2>1, ThreadAssumption DEF IInv, TypeOK
    <3> QED BY <3>1, <3>2
  <2>6. ready' \in [Priorities -> Seq(Threads)] /\ ReadyListsExact'
    <3>1. /\ [r EXCEPT ![Priority[t]] = Append(@, t)] \in [Priorities -> Seq(Threads)]
          /\ Exact([r EXCEPT ![Priority[t]] = Append(@, t)], Priorities,
                   (Members(state, "ready") \ {next}) \cup {t})
      BY <1>1, <2>2, <2>3, <2>4, InsertExact
    <3>2. /\ ready' \in [Priorities -> Seq(Threads)]
          /\ Exact(ready', Priorities, (Members(state, "ready") \ {next}) \cup {t})
      BY <2>1, <3>1
    <3>3. \A u \in Threads : u \in (Members(state, "ready") \ {next}) \cup {t} <=> state'[u] = "ready"
      BY <1>1, <2>1, <2>3, <2>4 DEF Members, IInv, TypeOK
    <3> QED BY <3>2, <3>3 DEF ReadyListsExact, Exact
  <2>7. WaitListsExact'
    <3>1. \A u \in Threads : state[u] = "waiting" <=> state'[u] = "waiting"
      BY <2>1, <2>2, <2>3 DEF IInv, TypeOK
    <3> QED BY <1>3, <3>1 DEF IInv, WaitListsExact
  <2>8. TypeOK'
    <3>1. pc' \in [Threads -> PCs]
      BY <1>1, <2>1 DEF IInv, TypeOK, PCs, LockedPCs
    <3> QED BY <1>2, <1>3, <2>1, <2>3, <2>5, <2>6, <3>1 DEF IInv, TypeOK
  <2> QED BY <1>1, <1>2, <1>3, <1>4, <2>1, <2>2, <2>3, <2>6, <2>7, <2>8, SwapStep
<1>7. CASE state[t] # "terminated" /\ KiSelectNextThread(Priority[t]) = None
  <2>1. /\ pc' = [pc EXCEPT ![t] = "Unlock"]
        /\ UNCHANGED <<current, state, quantum, ready, exitList>>
    BY <1>7 DEF Schedule, Goto
  <2>2. TypeOK'
    BY <1>2, <1>3, <2>1 DEF IInv, TypeOK, PCs, LockedPCs
  <2>3. pc'[t] = "Unlock" /\ \A u \in Threads \ {t} : pc'[u] = pc[u]
    BY <1>1, <2>1 DEF IInv, TypeOK
  <2>4. LockHandOver'
    BY <1>1, <1>2, <2>1, <2>3 DEF IInv, LockHandOver, LockedPCs, PassivePCs
  <2>5. ControlConsistent'
    BY <1>1, <1>2, <1>3, <1>7, <2>1, <2>3, ThreadAssumption
    DEF IInv, ControlConsistent, ArgFits, Busy, SwitchedOut, PassivePCs
  <2> QED BY <1>2, <1>3, <2>1, <2>2, <2>3, <2>4, <2>5, ControlOnly DEF IInv, NoInternalBugCheck
<1> QED BY <1>5, <1>6, <1>7

\* The loop over ExitThreadList.
LEMMA ReapStep ==
    ASSUME IInv, ReapExitedThreads(current)
    PROVE  IInv'
<1>1. current \in Threads /\ pc[current] = "Reaping"
  BY DEF ReapExitedThreads, At, IInv, TypeOK
<1>2. UNCHANGED <<current, state, quantum, ready, irql, dpcQueued, ddb, ret, arg, waitIrql, waiters,
                  signal, htype, owner, holds, bug>>
  BY DEF ReapExitedThreads, cpuVars, objectVars
<1>3. CASE exitList # <<>>
  <2>1. reaped' = reaped \cup {Head(exitList)} /\ exitList' = Tail(exitList) /\ pc' = pc
    BY <1>3 DEF ReapExitedThreads, RestOfExitList
  <2>2. /\ Tail(exitList) \in Seq(Threads) /\ Head(exitList) \in Threads
        /\ Elems(exitList) = Elems(Tail(exitList)) \cup {Head(exitList)}
        /\ NoDuplicates(Tail(exitList)) /\ Head(exitList) \notin Elems(Tail(exitList))
    BY <1>3, TailElems DEF IInv, TypeOK, ReapedIsOffCpu
  <2>3. TypeOK'
    BY <1>2, <2>1, <2>2 DEF IInv, TypeOK
  <2>4. ReapedIsOffCpu'
    BY <1>2, <2>1, <2>2 DEF IInv, ReapedIsOffCpu
  <2>5. ReadyListsExact'
    BY <1>2 DEF IInv, ReadyListsExact
  <2>6. WaitListsExact'
    BY <1>2 DEF IInv, WaitListsExact
  <2>7. NoWaiterOnSignaled' /\ OneRunning' /\ IdleDispatchable' /\ NoInternalBugCheck'
    BY <1>2 DEF IInv, NoWaiterOnSignaled, OneRunning, IdleDispatchable, NoInternalBugCheck
  <2>8. LockHandOver'
    BY <1>2, <2>1 DEF IInv, LockHandOver
  <2>9. ControlConsistent'
    BY <1>2, <2>1 DEF IInv, ControlConsistent, ArgFits, Busy, SwitchedOut, Exiting
  <2> QED BY <2>3, <2>4, <2>5, <2>6, <2>7, <2>8, <2>9 DEF IInv
<1>4. CASE exitList = <<>>
  <2>1. pc' = [pc EXCEPT ![current] = "Drain"] /\ UNCHANGED <<exitList, reaped>>
    BY <1>4 DEF ReapExitedThreads, Goto
  <2>2. TypeOK'
    BY <1>2, <2>1 DEF IInv, TypeOK, PCs, DispatchPCs
  <2>3. pc'[current] = "Drain" /\ \A u \in Threads \ {current} : pc'[u] = pc[u]
    BY <1>1, <2>1 DEF IInv, TypeOK
  <2>4. LockHandOver'
    BY <1>1, <1>2, <2>3 DEF IInv, LockHandOver, LockedPCs, PassivePCs
  <2>5. ControlConsistent'
    BY <1>1, <1>2, <2>3, ThreadAssumption
    DEF IInv, ControlConsistent, ArgFits, Busy, SwitchedOut, Exiting, PassivePCs
  <2> QED BY <1>2, <2>1, <2>2, <2>3, <2>4, <2>5, ControlOnly DEF IInv, NoInternalBugCheck
<1> QED BY <1>3, <1>4

\* The locked part of PspCreateThread.
LEMMA CreateStep ==
    ASSUME IInv, CreateThread(current)
    PROVE  IInv'
<1> DEFINE t == current
           u == arg[t]
<1>1. /\ t \in Threads /\ u \in Workers /\ u \in Threads /\ u \in Objects
      /\ pc[t] = "CreateThread" /\ state[u] = "initialized"
  BY DEF CreateThread, At, IInv, TypeOK, ControlConsistent, ArgFits, Workers, Objects
<1>2. u # t /\ state[t] = "running"
  BY <1>1 DEF IInv, OneRunning, ControlConsistent, Exiting
<1>3. /\ KiReadyThread(u)
      /\ pc' = [pc EXCEPT ![t] = "Unlock", ![u] = "Unlock"]
      /\ UNCHANGED <<current, exitList, reaped, irql, dpcQueued, ddb, ret, arg, waitIrql, waiters,
                     owner, holds, bug>>
  BY DEF CreateThread, cpuVars
<1>4. PICK h \in HeaderArgs : /\ htype' = [htype EXCEPT ![u] = h[1]]
                             /\ signal' = [signal EXCEPT ![u] = h[2]]
  BY DEF CreateThread
<1>5. h[1] \in {"ThreadObject", "other"} /\ h[2] \in Int
  BY ObjectAssumption
<1>6. /\ ready' \in [Priorities -> Seq(Threads)]
      /\ quantum' \in [Threads -> 0 .. QuantumReset]
      /\ state' \in [Threads -> States]
      /\ ReadyListsExact'
  BY <1>1, <1>3, ReadyEffect DEF IInv
<1>7. state'[u] = "ready" /\ \A v \in Threads \ {u} : state'[v] = state[v]
  BY <1>1, <1>3 DEF KiReadyThread, IInv, TypeOK
<1>8. /\ pc'[t] = "Unlock" /\ pc'[u] = "Unlock"
      /\ \A v \in Threads \ {t, u} : pc'[v] = pc[v]
  BY <1>1, <1>3 DEF IInv, TypeOK
<1>9. TypeOK'
  <2>1. htype' \in [Workers -> {"ThreadObject", "other"}] /\ signal' \in [Objects -> Int]
    BY <1>4, <1>5 DEF IInv, TypeOK
  <2>2. pc' \in [Threads -> PCs]
    BY <1>3 DEF IInv, TypeOK, PCs, LockedPCs
  <2> QED BY <1>3, <1>6, <2>1, <2>2 DEF IInv, TypeOK
<1>10. WaitListsExact'
  <2>1. \A v \in Threads : state[v] = "waiting" <=> state'[v] = "waiting"
    BY <1>1, <1>7
  <2> QED BY <1>3, <2>1 DEF IInv, WaitListsExact
<1>11. NoWaiterOnSignaled'
  <2>1. waiters[u] = <<>>
    BY <1>1 DEF IInv, ControlConsistent
  <2> QED BY <1>3, <1>4, <2>1 DEF IInv, TypeOK, NoWaiterOnSignaled
<1>12. OneRunning' /\ IdleDispatchable'
  BY <1>1, <1>2, <1>3, <1>7, ThreadAssumption DEF IInv, OneRunning, IdleDispatchable
<1>13. LockHandOver'
  BY <1>1, <1>3, <1>8 DEF IInv, LockHandOver, LockedPCs, PassivePCs
<1>14. ReapedIsOffCpu'
  <2>1. Elems(exitList) \subseteq Threads /\ reaped \subseteq Threads
    BY DEF IInv, TypeOK, Elems
  <2>2. \A v \in Elems(exitList) \cup reaped : v # t /\ v # u
    BY <1>1 DEF IInv, ReapedIsOffCpu
  <2> QED BY <1>3, <1>7, <1>8, <2>1, <2>2 DEF IInv, ReapedIsOffCpu
<1>15. ControlConsistent'
  <2>1. ASSUME NEW v \in Threads
        PROVE  /\ pc'[v] \in PassivePCs => ret'[v] = "run"
               /\ ArgFits(v)'
               /\ Busy(v, {"PsExitThread"})' => v \in Workers
               /\ v # current => SwitchedOut(v)'
    <3>1. pc'[v] \in {"Unlock", "new", "gone"}
      BY <1>8 DEF IInv, LockHandOver
    <3>2. pc'[v] \in PassivePCs => ret'[v] = "run"
      BY <3>1 DEF PassivePCs
    <3>3. ArgFits(v)'
      BY <1>3, <3>1 DEF IInv, ControlConsistent, ArgFits, Busy
    <3>4. Busy(v, {"PsExitThread"})' => v \in Workers
      BY <1>3, <3>1 DEF IInv, ControlConsistent, Busy
    <3>5. v # current => SwitchedOut(v)'
      BY <1>7, <1>8 DEF IInv, ControlConsistent, SwitchedOut
    <3> QED BY <3>2, <3>3, <3>4, <3>5
  <2>2. pc'[current'] \notin {"new", "gone"} /\ state'[current'] # "terminated"
    BY <1>1, <1>2, <1>3, <1>7, <1>8
  <2>3. /\ pc'[Idle] \in {"run", "Unlock", "Drain", "Lower", "Scheduling", "Reaping"}
        /\ ret'[Idle] = "run"
    BY <1>3, <1>8, ThreadAssumption DEF IInv, ControlConsistent
  <2>4. \A v \in Workers : state'[v] = "initialized" => waiters'[v] = <<>>
    BY <1>3, <1>7 DEF IInv, ControlConsistent, Workers
  <2> QED BY <1>3, <2>1, <2>2, <2>3, <2>4 DEF ControlConsistent
<1> QED BY <1>3, <1>6, <1>9, <1>10, <1>11, <1>12, <1>13, <1>14, <1>15 DEF IInv, NoInternalBugCheck

\* PsExitThread of the calling thread marks it TERMINATED.
LEMMA ExitStep ==
    ASSUME IInv, PsExitThread(current)
    PROVE  IInv'
<1> DEFINE t == current
<1>1. /\ t \in Threads /\ t \in Workers /\ t # Idle /\ pc[t] = "run"
      /\ state[t] = "running" /\ irql = "PASSIVE"
  BY DEF PsExitThread, Calls, At, IInv, TypeOK
<1>2. /\ state' = [state EXCEPT ![t] = "terminated"]
      /\ pc' = [pc EXCEPT ![t] = "PsExitThread"]
      /\ UNCHANGED <<current, quantum, ready, exitList, reaped, irql, dpcQueued, ddb, ret, arg, waitIrql,
                     waiters, signal, htype, owner, holds, bug>>
  BY DEF PsExitThread, Goto, cpuVars, objectVars
<1>3. TypeOK'
  BY <1>2 DEF IInv, TypeOK, PCs, PassivePCs, States
<1>4. state'[t] = "terminated" /\ \A v \in Threads \ {t} : state'[v] = state[v]
  BY <1>1, <1>2 DEF IInv, TypeOK
<1>5. pc'[t] = "PsExitThread" /\ \A v \in Threads \ {t} : pc'[v] = pc[v]
  BY <1>1, <1>2 DEF IInv, TypeOK
<1>6. ReadyListsExact'
  <2>1. \A v \in Threads : state[v] = "ready" <=> state'[v] = "ready"
    BY <1>1, <1>4
  <2> QED BY <1>2, <2>1 DEF IInv, ReadyListsExact
<1>7. WaitListsExact'
  <2>1. \A v \in Threads : state[v] = "waiting" <=> state'[v] = "waiting"
    BY <1>1, <1>4
  <2> QED BY <1>2, <2>1 DEF IInv, WaitListsExact
<1>8. NoWaiterOnSignaled' /\ OneRunning' /\ IdleDispatchable' /\ NoInternalBugCheck'
  BY <1>1, <1>2, <1>4, ThreadAssumption
  DEF IInv, NoWaiterOnSignaled, OneRunning, IdleDispatchable, NoInternalBugCheck
<1>9. LockHandOver'
  BY <1>1, <1>2, <1>5 DEF IInv, LockHandOver, LockedPCs, PassivePCs
<1>10. ReapedIsOffCpu'
  <2>1. Elems(exitList) \subseteq Threads /\ reaped \subseteq Threads
    BY DEF IInv, TypeOK, Elems
  <2> QED BY <1>2, <1>4, <1>5, <2>1 DEF IInv, ReapedIsOffCpu
<1>11. ControlConsistent'
  <2>1. ASSUME NEW v \in Threads
        PROVE  /\ pc'[v] \in PassivePCs => ret'[v] = "run"
               /\ ArgFits(v)'
               /\ Busy(v, {"PsExitThread"})' => v \in Workers
               /\ v # current => SwitchedOut(v)'
    <3>1. pc'[v] \in PassivePCs => ret'[v] = "run"
      BY <1>1, <1>2, <1>5 DEF IInv, ControlConsistent, PassivePCs
    <3>2. ArgFits(v)'
      <4>1. ArgFits(v) /\ pc'[v] \in {"PsExitThread", "Unlock", "new", "gone"}
        BY <1>5 DEF IInv, LockHandOver, ControlConsistent
      <4> QED BY <1>2, <4>1 DEF ArgFits, Busy
    <3>3. Busy(v, {"PsExitThread"})' => v \in Workers
      BY <1>1, <1>2, <1>5 DEF IInv, ControlConsistent, Busy
    <3>4. v # current => SwitchedOut(v)'
      BY <1>4, <1>5 DEF IInv, ControlConsistent, SwitchedOut
    <3> QED BY <3>1, <3>2, <3>3, <3>4
  <2>2. pc'[current'] \notin {"new", "gone"} /\ current' \in Workers /\ Exiting(current)'
    BY <1>1, <1>2, <1>5 DEF Exiting
  <2>3. /\ pc'[Idle] \in {"run", "Unlock", "Drain", "Lower", "Scheduling", "Reaping"}
        /\ ret'[Idle] = "run"
    BY <1>1, <1>2, <1>5, ThreadAssumption DEF IInv, ControlConsistent
  <2>4. \A v \in Workers : state'[v] = "initialized" => waiters'[v] = <<>>
    BY <1>2, <1>4 DEF IInv, ControlConsistent, Workers
  <2> QED BY <1>2, <2>1, <2>2, <2>3, <2>4 DEF ControlConsistent
<1> QED BY <1>3, <1>6, <1>7, <1>8, <1>9, <1>10, <1>11 DEF IInv

\* KeResetEvent and KeClearEvent.
LEMMA ResetEventStep ==
    ASSUME IInv, NEW e \in Events, KeResetEvent(current, e)
    PROVE  IInv'
<1>1. /\ signal' = [signal EXCEPT ![e] = 0]
      /\ UNCHANGED <<current, state, quantum, ready, exitList, reaped, irql, dpcQueued, ddb, pc, ret, arg,
                     waitIrql, waiters, htype, owner, holds, bug>>
  BY DEF KeResetEvent, schedVars, cpuVars, threadVars
<1>2. TypeOK'
  <2>1. signal' \in [Objects -> Int]
    BY <1>1 DEF IInv, TypeOK, Objects
  <2> QED BY <1>1, <2>1 DEF IInv, TypeOK
<1>3. ReadyListsExact'
  BY <1>1 DEF IInv, ReadyListsExact
<1>4. WaitListsExact'
  BY <1>1 DEF IInv, WaitListsExact
<1>5. NoWaiterOnSignaled'
  BY <1>1 DEF IInv, TypeOK, NoWaiterOnSignaled
<1>6. ReapedIsOffCpu' /\ OneRunning' /\ IdleDispatchable' /\ NoInternalBugCheck'
  BY <1>1 DEF IInv, ReapedIsOffCpu, OneRunning, IdleDispatchable, NoInternalBugCheck
<1>7. LockHandOver'
  BY <1>1 DEF IInv, LockHandOver
<1>8. ControlConsistent'
  BY <1>1 DEF IInv, ControlConsistent, ArgFits, Busy, SwitchedOut, Exiting
<1> QED BY <1>2, <1>3, <1>4, <1>5, <1>6, <1>7, <1>8 DEF IInv

\* A stop of the machine is never an internal one.
LEMMA BugCheckStep ==
    ASSUME IInv, BugCheck
    PROVE  IInv'
<1>1. Fault(current) \in {"mutant", "header", "signal", "limit"} /\ bug' = Fault(current)
  BY NoInternalFault DEF BugCheck, Fault, CallerFault
<1>2. UNCHANGED <<current, state, quantum, ready, exitList, reaped, irql, dpcQueued, ddb, pc, ret, arg,
                  waitIrql, waiters, signal, htype, owner, holds>>
  BY DEF BugCheck, schedVars, cpuVars, threadVars, objectVars
<1>3. TypeOK' /\ NoInternalBugCheck'
  BY <1>1, <1>2 DEF IInv, TypeOK, NoInternalBugCheck
<1>4. LockHandOver'
  BY <1>2 DEF IInv, LockHandOver
<1>5. ControlConsistent'
  BY <1>2 DEF IInv, ControlConsistent, ArgFits, Busy, SwitchedOut, Exiting
<1> QED BY <1>2, <1>3, <1>4, <1>5, ControlOnly

-----------------------------------------------------------------------------
(* The three facts of the induction and the theorems. *)

\* The boot path establishes the invariant.
LEMMA InitIInv == Init => IInv
<1> SUFFICES ASSUME Init PROVE IInv
  OBVIOUS
<1> USE DEF Init
<1>1. PROCESS_PRIORITY_NORMAL \in Priorities
  BY DEF PROCESS_PRIORITY_NORMAL, Priorities, PROCESS_PRIORITY_IDLE, PROCESS_PRIORITY_MAX
<1>2. /\ Elems(<<Idle>>) = {Idle} /\ NoDuplicates(<<Idle>>)
      /\ <<Idle>> \in Seq(Threads) /\ <<>> \in Seq(Threads)
  BY ThreadAssumption DEF Elems, NoDuplicates
<1>3. state[Idle] = "ready" /\ state[Boot] = "running"
      /\ \A t \in Workers : state[t] = "initialized"
  BY ThreadAssumption DEF Workers
<1>4. pc[Idle] = "Unlock" /\ pc[Boot] = "run" /\ \A t \in Workers : pc[t] = "new"
  BY ThreadAssumption DEF Workers
<1>5. \A t \in Threads : t = Idle \/ t = Boot \/ t \in Workers
  BY DEF Workers
<1>6. TypeOK
  <2>1. state \in [Threads -> States]
    BY DEF States
  <2>2. pc \in [Threads -> PCs] /\ ret \in [Threads -> PassivePCs]
    BY DEF PCs, PassivePCs, LockedPCs
  <2>3. quantum \in [Threads -> 0 .. QuantumReset]
    BY ThreadAssumption
  <2>4. ready \in [Priorities -> Seq(Threads)] /\ exitList \in Seq(Threads)
    BY <1>2
  <2>5. signal \in [Objects -> Int]
    BY ObjectAssumption DEF InitialSignal
  <2>6. waiters \in [Objects -> Seq(Threads)]
    BY <1>2
  <2>7. /\ current \in Threads /\ reaped \subseteq Threads /\ irql \in Irqls /\ dpcQueued \in BOOLEAN
        /\ ddb \in Threads \cup {None} /\ arg \in [Threads -> Objects \cup {None}]
        /\ waitIrql \in [Threads -> Irqls]
        /\ htype \in [Workers -> {"ThreadObject", "other"}]
        /\ owner \in [Mutants -> Threads \cup {None}] /\ holds \in [Threads -> SUBSET Guarding]
    BY ThreadAssumption DEF Irqls
  <2> QED BY <2>1, <2>2, <2>3, <2>4, <2>5, <2>6, <2>7 DEF TypeOK
<1>7. ReadyListsExact
  <2>1. \A p \in Priorities : Elems(ready[p]) = IF p = PROCESS_PRIORITY_NORMAL THEN {Idle} ELSE {}
    BY <1>2, EmptyElems
  <2>2. \A p \in Priorities : NoDuplicates(ready[p])
    BY <1>2, EmptyElems
  <2>3. \A t \in Threads : state[t] = "ready" <=> t = Idle
    BY <1>3, <1>5
  <2> QED BY <1>1, <2>1, <2>2, <2>3 DEF ReadyListsExact
<1>8. WaitListsExact
  <2>1. \A o \in Objects : Elems(waiters[o]) = {} /\ NoDuplicates(waiters[o])
    BY EmptyElems
  <2>2. \A t \in Threads : state[t] # "waiting"
    BY <1>3, <1>5
  <2> QED BY <2>1, <2>2 DEF WaitListsExact
<1>9. NoWaiterOnSignaled /\ NoInternalBugCheck
  BY DEF NoWaiterOnSignaled, NoInternalBugCheck
<1>10. ReapedIsOffCpu
  BY EmptyElems DEF ReapedIsOffCpu
<1>11. OneRunning /\ IdleDispatchable
  BY <1>3, <1>5 DEF OneRunning, IdleDispatchable
<1>12. LockHandOver
  BY <1>4, <1>5 DEF LockHandOver, LockedPCs, PassivePCs
<1>13. ControlConsistent
  <2>1. \A t \in Threads : /\ ret[t] = "run" /\ pc[t] \in {"run", "Unlock", "new"}
                          /\ t # current => SwitchedOut(t)
    BY <1>3, <1>4, <1>5 DEF SwitchedOut
  <2>2. \A t \in Threads : ArgFits(t) /\ ~Busy(t, {"PsExitThread"})
    BY <2>1 DEF ArgFits, Busy
  <2>3. \A u \in Workers : waiters[u] = <<>>
    BY DEF Objects
  <2> QED BY <1>3, <1>4, <2>1, <2>2, <2>3, ThreadAssumption DEF ControlConsistent, PassivePCs
<1> QED BY <1>6, <1>7, <1>8, <1>9, <1>10, <1>11, <1>12, <1>13 DEF IInv

\* Every step preserves it.
LEMMA NextIInv == IInv /\ [Next]_vars => IInv'
<1> SUFFICES ASSUME IInv, [Next]_vars PROVE IInv'
  OBVIOUS
<1>1. CASE KernelStep(current)
  BY <1>1, UnLockStep, DpcStep, LowerStep, ScheduleStep, CallScheduleStep, ExitLockStep, ReapStep,
     AcquireStep, ReleaseSemaphoreStep, ReleaseMutantStep, SetEventStep, ReleaseAllStep, CreateStep,
     LockForReleaseSemaphoreStep, LockForReleaseMutantStep, LockForExitStep
  DEF KernelStep
<1>2. CASE ThreadCall(current)
  BY <1>2, WaitCallStep, ReleaseSemaphoreCallStep, ReleaseMutantCallStep, SetEventCallStep,
     ResetEventStep, CreateCallStep, ExitStep, DelayCallStep
  DEF ThreadCall
<1>3. CASE UNCHANGED vars
  <2>1. UNCHANGED <<current, state, quantum, ready, exitList, reaped, irql, dpcQueued, ddb, pc, ret, arg,
                    waitIrql, waiters, signal, htype, owner, holds, bug>>
    BY <1>3 DEF vars, schedVars, cpuVars, threadVars, objectVars
  <2>2. TypeOK' /\ NoInternalBugCheck'
    BY <2>1 DEF IInv, TypeOK, NoInternalBugCheck
  <2>3. LockHandOver'
    BY <2>1 DEF IInv, LockHandOver
  <2>4. ControlConsistent'
    BY <2>1 DEF IInv, ControlConsistent, ArgFits, Busy, SwitchedOut, Exiting
  <2> QED BY <2>1, <2>2, <2>3, <2>4, ControlOnly
<1> QED BY <1>1, <1>2, <1>3, TimerStep, BugCheckStep DEF Next

\* The inductive invariant holds in every reachable state, for every set of
\* threads and objects: this is what all the theorems below rest on.
THEOREM DispatcherInvariant == Spec => []IInv
  BY InitIInv, NextIInv, PTL DEF Spec

\* Every variable of the dispatcher keeps its type.
THEOREM TypeCorrect == Spec => []TypeOK
<1>1. IInv => TypeOK
  BY DEF IInv
<1> QED BY <1>1, DispatcherInvariant, PTL

\* None of the ASSERTs and KeBugChecks with which KiReadyThread, KiSwapThread,
\* KiBlockThread, Schedule, KiDHeaderRelease and KeAcquireSpinLock guard the
\* dispatcher's own data ever fails, whatever the threads call and whenever a
\* tick comes.
THEOREM NoInternalBugChecks == Spec => []NoInternalBugCheck
<1>1. IInv => NoInternalBugCheck
  BY DEF IInv
<1> QED BY <1>1, DispatcherInvariant, PTL

\* The lock a thread takes before KiSwapThread is released by the thread that
\* is switched to, exactly once, and the IRQL follows.
THEOREM LockHandedOver == Spec => []LockHandOver
<1>1. IInv => LockHandOver
  BY DEF IInv
<1> QED BY <1>1, DispatcherInvariant, PTL

\* A READY thread is in exactly one ready list, a WAITING thread in exactly one
\* wait list, and no thread waits for a signalled object.
THEOREM ListsExact == Spec => [](ReadyListsExact /\ WaitListsExact /\ NoWaiterOnSignaled)
<1>1. IInv => ReadyListsExact /\ WaitListsExact /\ NoWaiterOnSignaled
  BY DEF IInv
<1> QED BY <1>1, DispatcherInvariant, PTL

\* The reaper only dereferences threads that will never run again.
THEOREM ReaperSafe == Spec => []ReapedIsOffCpu
<1>1. IInv => ReapedIsOffCpu
  BY DEF IInv
<1> QED BY <1>1, DispatcherInvariant, PTL

-----------------------------------------------------------------------------
(* Action properties. *)

\* The steps other than a switch keep the processor with the current thread.
LEMMA SwitchesOnly ==
    ASSUME [Next]_vars, current' # current
    PROVE  \/ Schedule(current)
           \/ KiDHeaderAcquire(current) /\ signal[arg[current]] = 0
<1>1. CASE KernelStep(current)
  BY <1>1 DEF KernelStep, KiUnLockDispatcherDataBase, KiProcessDpcQueue, KeLowerIrql, CallSchedule,
     AcquireExitThreadLock, ReapExitedThreads, KiDHeaderAcquire, ReleaseSemaphore, ReleaseMutant,
     SetEvent, KiDHeaderReleaseAll, CreateThread, LockForReleaseSemaphore, LockForReleaseMutant,
     LockForExit, schedVars
<1>2. CASE ThreadCall(current)
  BY <1>2 DEF ThreadCall, KeWaitForSingleObject, KeReleaseSemaphore, KeReleaseMutant, KeSetEvent,
     KeResetEvent, PspCreateThread, PsExitThread, KeDelayExecutionThread, schedVars
<1>3. CASE KiThreadTimerISR \/ BugCheck \/ UNCHANGED vars
  BY <1>3 DEF KiThreadTimerISR, BugCheck, vars, schedVars
<1> QED BY <1>1, <1>2, <1>3 DEF Next

\* Whoever gives up the processor, and why, the thread that gets it is the first
\* of the highest list that has one; a thread that could go on running only
\* gives way to its own priority or a higher one.
THEOREM SwitchesToHighest == Spec => HighestFirst
<1>1. ASSUME IInv, [Next]_vars, current' # current
      PROVE  \E p \in Priorities :
                /\ ready[p] # <<>> /\ current' = Head(ready[p])
                /\ \A q \in Priorities : ready[q] # <<>> => q <= p
                /\ state'[current] = "ready" => p >= Priority[current]
  <2>1. current \in Threads /\ Priority[current] \in Priorities
    BY <1>1, ThreadAssumption DEF IInv, TypeOK
  <2>2. PROCESS_PRIORITY_IDLE \in Priorities /\ \A q \in Priorities : q >= PROCESS_PRIORITY_IDLE
    BY DEF Priorities, PROCESS_PRIORITY_IDLE, PROCESS_PRIORITY_MAX
  <2>3. ASSUME NEW floor \in Priorities, Candidates(floor) # {}, current' = KiSelectNextThread(floor),
               floor = PROCESS_PRIORITY_IDLE \/ floor = Priority[current],
               state'[current] = "ready" => floor = Priority[current]
        PROVE  \E p \in Priorities :
                  /\ ready[p] # <<>> /\ current' = Head(ready[p])
                  /\ \A q \in Priorities : ready[q] # <<>> => q <= p
                  /\ state'[current] = "ready" => p >= Priority[current]
    <3> DEFINE p == SelectedList(floor)
    <3>1. /\ p \in Priorities /\ p >= floor /\ ready[p] # <<>>
          /\ \A q \in Priorities : q >= floor /\ ready[q] # <<>> => q <= p
          /\ current' = Head(ready[p])
      BY <1>1, <2>3, Selection DEF IInv
    <3> HIDE DEF p
    <3>2. \A q \in Priorities : ready[q] # <<>> => q <= p
      BY <2>3, <3>1 DEF Priorities
    <3> QED BY <2>3, <3>1, <3>2
  <2>4. CASE Schedule(current) /\ state[current] = "terminated"
    <3>1. current' = KiSelectNextThread(PROCESS_PRIORITY_IDLE)
      BY <2>4 DEF Schedule, KiSwapThread
    <3>2. current # Idle
      BY <1>1, <2>4 DEF IInv, ControlConsistent, Workers
    <3>3. state'[current] # "ready"
      BY <1>1, <2>1, <2>4 DEF Schedule, IInv, TypeOK
    <3> QED BY <1>1, <2>2, <2>3, <3>1, <3>2, <3>3, SomeoneReady
  <2>5. CASE Schedule(current) /\ state[current] # "terminated"
    <3>1. current' = KiSelectNextThread(Priority[current]) /\ KiSelectNextThread(Priority[current]) # None
      BY <1>1, <2>5 DEF Schedule, KiSwapThread
    <3>2. Candidates(Priority[current]) # {}
      BY <3>1 DEF KiSelectNextThread
    <3> QED BY <2>1, <2>3, <3>1, <3>2
  <2>6. CASE KiDHeaderAcquire(current) /\ signal[arg[current]] = 0
    <3>1. /\ current' = KiSelectNextThread(PROCESS_PRIORITY_IDLE) /\ pc[current] = "Wait"
          /\ state' = [state EXCEPT ![current] = "waiting", ![current'] = "running"]
      BY <2>6 DEF KiDHeaderAcquire, KiSwapThread, At, MarkedWaiting
    <3>2. current # Idle
      BY <1>1, <3>1 DEF IInv, ControlConsistent
    <3>3. state'[current] # "ready"
      BY <1>1, <2>1, <3>1 DEF IInv, TypeOK
    <3> QED BY <1>1, <2>2, <2>3, <3>1, <3>2, <3>3, SomeoneReady
  <2> QED BY <1>1, <2>4, <2>5, <2>6, SwitchesOnly
<1>2. IInv /\ [Next]_vars =>
        [current' # current =>
          \E p \in Priorities :
             /\ ready[p] # <<>> /\ current' = Head(ready[p])
             /\ \A q \in Priorities : ready[q] # <<>> => q <= p
             /\ state'[current] = "ready" => p >= Priority[current]]_vars
  BY <1>1
<1> QED BY <1>2, DispatcherInvariant, PTL DEF Spec, HighestFirst

\* What a step may do to the wait list and the holders of a guarding semaphore.
Fifo(s) ==
    /\ \A t \in Threads :
          s \in holds'[t] \ holds[t] => waiters[s] = <<>> \/ t = Head(waiters[s])
    /\ \/ waiters'[s] \in {waiters[s], Append(waiters[s], current)}
       \/ waiters[s] # <<>> /\ waiters'[s] = Tail(waiters[s])

\* A wait list that loses its head, or nothing, loses no one else.
LEMMA WakeFifo ==
    ASSUME IInv, NEW o \in Objects, NEW s \in Guarding, s \in Objects,
           \/ waiters[o] # <<>> /\ waiters' = [waiters EXCEPT ![o] = Tail(waiters[o])]
           \/ waiters' = waiters
    PROVE  /\ \/ waiters'[s] = waiters[s]
              \/ waiters[s] # <<>> /\ waiters'[s] = Tail(waiters[s])
           /\ \A t \in Elems(waiters[s]) \ Elems(waiters'[s]) : waiters[s] # <<>> /\ t = Head(waiters[s])
<1>1. \/ waiters'[s] = waiters[s]
      \/ waiters[s] # <<>> /\ waiters'[s] = Tail(waiters[s])
  BY DEF IInv, TypeOK
<1>2. CASE waiters'[s] = waiters[s]
  BY <1>1, <1>2
<1>3. CASE waiters[s] # <<>> /\ waiters'[s] = Tail(waiters[s])
  <2>1. waiters[s] \in Seq(Threads)
    BY DEF IInv, TypeOK
  <2>2. Elems(waiters[s]) = Elems(Tail(waiters[s])) \cup {Head(waiters[s])}
    BY <1>3, <2>1, TailElems
  <2> QED BY <1>1, <1>3, <2>2
<1> QED BY <1>1, <1>2, <1>3

\* A guarding semaphore is handed out in the order of arrival: no thread that
\* comes later, or runs at a higher priority, gets it past a waiter.
THEOREM FirstComeFirstServed == Spec => NoBarging
<1>1. ASSUME IInv, [Next]_vars, NEW s \in Guarding
      PROVE  Fifo(s)
  <2>1. s \in Objects /\ s \in Semaphores /\ current \in Threads
    BY <1>1, ObjectAssumption DEF Objects, IInv, TypeOK
  <2>2. CASE UNCHANGED <<waiters, holds>>
    BY <2>2 DEF Fifo
  <2>3. CASE KiDHeaderAcquire(current)
    <3>1. arg[current] \in Objects
      BY <2>1, <2>3, <1>1 DEF KiDHeaderAcquire, At, IInv, ControlConsistent, ArgFits
    <3>2. CASE signal[arg[current]] = 0
      <4>1. waiters' = [waiters EXCEPT ![arg[current]] = Append(waiters[arg[current]], current)]
            /\ holds' = holds
        BY <2>3, <3>2 DEF KiDHeaderAcquire, EnqueuedLast
      <4>2. waiters'[s] \in {waiters[s], Append(waiters[s], current)}
        BY <1>1, <2>1, <4>1 DEF IInv, TypeOK
      <4> QED BY <4>1, <4>2 DEF Fifo
    <3>3. CASE signal[arg[current]] # 0
      <4>1. /\ waiters' = waiters
            /\ holds' = IF arg[current] \in Guarding
                        THEN [holds EXCEPT ![current] = @ \cup {arg[current]}] ELSE holds
        BY <2>3, <3>3 DEF KiDHeaderAcquire
      <4>2. waiters[arg[current]] = <<>>
        BY <1>1, <3>1, <3>3 DEF IInv, NoWaiterOnSignaled
      <4>3. \A t \in Threads : s \in holds'[t] \ holds[t] => s = arg[current]
        BY <1>1, <2>1, <4>1 DEF IInv, TypeOK
      <4> QED BY <4>1, <4>2, <4>3 DEF Fifo
    <3> QED BY <3>2, <3>3
  <2>4. CASE ReleaseSemaphore(current) \/ ReleaseMutant(current) \/ SetEvent(current) \/ KiDHeaderReleaseAll(current)
    <3>1. arg[current] \in Objects
      BY <1>1, <2>1, <2>4 DEF ReleaseSemaphore, ReleaseMutant, SetEvent, KiDHeaderReleaseAll, At,
         IInv, ControlConsistent, ArgFits, Busy, Objects, Events
    <3>2. \/ waiters[arg[current]] # <<>> /\ waiters' = [waiters EXCEPT ![arg[current]] = Tail(waiters[arg[current]])]
          \/ waiters' = waiters
      BY <2>4 DEF ReleaseSemaphore, ReleaseMutant, SetEvent, KiDHeaderReleaseAll, KiDHeaderRelease, OtherWaiters
    <3>3. holds' = holds \/ (arg[current] \in Guarding /\ holds' = PassPermit(current, arg[current]))
      BY <2>4 DEF ReleaseSemaphore, ReleaseMutant, SetEvent, KiDHeaderReleaseAll
    <3>4. /\ \/ waiters'[s] = waiters[s]
             \/ waiters[s] # <<>> /\ waiters'[s] = Tail(waiters[s])
          /\ \A t \in Elems(waiters[s]) \ Elems(waiters'[s]) : waiters[s] # <<>> /\ t = Head(waiters[s])
      BY <1>1, <2>1, <3>1, <3>2, WakeFifo
    <3>5. ASSUME NEW t \in Threads, s \in holds'[t] \ holds[t]
          PROVE  t = Head(waiters[s])
      <4>1. arg[current] \in Guarding /\ holds' = PassPermit(current, arg[current])
        BY <3>3, <3>5
      <4>2. holds'[t] = IF t \in Elems(waiters[arg[current]]) \ Elems(waiters'[arg[current]])
                        THEN holds[t] \cup {arg[current]}
                        ELSE IF t = current THEN holds[t] \ {arg[current]} ELSE holds[t]
        BY <4>1 DEF PassPermit
      <4>3. s = arg[current] /\ t \in Elems(waiters[s]) \ Elems(waiters'[s])
        BY <3>5, <4>2
      <4> QED BY <3>4, <4>3
    <3> QED BY <3>4, <3>5 DEF Fifo
  <2>5. CASE KernelStep(current)
    BY <2>2, <2>3, <2>4, <2>5 DEF KernelStep, KiUnLockDispatcherDataBase, KiProcessDpcQueue, KeLowerIrql,
       Schedule, CallSchedule, AcquireExitThreadLock, ReapExitedThreads, CreateThread,
       LockForReleaseSemaphore, LockForReleaseMutant, LockForExit, objectVars
  <2>6. CASE ThreadCall(current)
    BY <2>2, <2>6 DEF ThreadCall, KeWaitForSingleObject, KeReleaseSemaphore, KeReleaseMutant, KeSetEvent,
       KeResetEvent, PspCreateThread, PsExitThread, KeDelayExecutionThread, objectVars
  <2>7. CASE KiThreadTimerISR \/ BugCheck \/ UNCHANGED vars
    BY <2>2, <2>7 DEF KiThreadTimerISR, BugCheck, vars, objectVars
  <2> QED BY <1>1, <2>5, <2>6, <2>7 DEF Next
<1>2. IInv /\ [Next]_vars =>
        [\A s \in Guarding :
          /\ \A t \in Threads :
                s \in holds'[t] \ holds[t] => waiters[s] = <<>> \/ t = Head(waiters[s])
          /\ \/ waiters'[s] \in {waiters[s], Append(waiters[s], current)}
             \/ waiters[s] # <<>> /\ waiters'[s] = Tail(waiters[s])]_vars
  BY <1>1 DEF Fifo
<1> QED BY <1>2, DispatcherInvariant, PTL DEF Spec, NoBarging

-----------------------------------------------------------------------------
(* Mutants.                                                                 *)

\* A mutant is taken or not, never waited for (a wait for a taken mutant stops
\* the machine), has no owner while it is being released, and is released by
\* one thread.
MutantInv ==
    /\ MutantConsistent
    /\ \A m \in Mutants :
          /\ signal[m] \in {0, 1} /\ waiters[m] = <<>>
          /\ \A t \in Threads : Releasing(t, m) =>
                owner[m] = None /\ \A u \in Threads : Releasing(u, m) => u = t

\* A step leaves the mutants, and who releases them, as they are.
MutantsAlone ==
    \A m \in Mutants :
        /\ signal'[m] = signal[m] /\ owner'[m] = owner[m] /\ waiters'[m] = waiters[m]
        /\ \A t \in Threads : Releasing(t, m)' <=> Releasing(t, m)

LEMMA MutantFrame ==
    ASSUME MutantInv, MutantsAlone
    PROVE  MutantInv'
<1>1. MutantConsistent'
  BY DEF MutantInv, MutantConsistent, MutantsAlone
<1>2. ASSUME NEW m \in Mutants
      PROVE  /\ signal'[m] \in {0, 1} /\ waiters'[m] = <<>>
             /\ \A t \in Threads : Releasing(t, m)' =>
                   owner'[m] = None /\ \A u \in Threads : Releasing(u, m)' => u = t
  BY DEF MutantInv, MutantsAlone
<1>. QED
  BY <1>1, <1>2 DEF MutantInv

\* Whether a thread releases a mutant depends on its locals and its place.
LEMMA ReleasingSame ==
    ASSUME NEW t \in Threads, NEW m \in Mutants,
           \/ /\ arg'[t] = arg[t]
              /\ Busy(t, {"KeReleaseMutant"})' <=> Busy(t, {"KeReleaseMutant"})
              /\ pc'[t] = "ReleaseMutant" <=> pc[t] = "ReleaseMutant"
           \/ /\ arg'[t] = arg[t]
              /\ Busy(t, {"KeReleaseMutant"}) /\ pc'[t] = "ReleaseMutant"
           \/ /\ ~Busy(t, {"KeReleaseMutant", "ReleaseMutant"})
              /\ ~Busy(t, {"KeReleaseMutant", "ReleaseMutant"})'
    PROVE  Releasing(t, m)' <=> Releasing(t, m)
BY DEF Releasing, Busy

\* The objects of the operations, and that a thread at PASSIVE_LEVEL has nowhere
\* else to return to.
LEMMA PlaceFacts ==
    ASSUME IInv
    PROVE  /\ current \in Threads
           /\ \A t \in Threads : pc[t] \in PassivePCs => ret[t] = "run"
           /\ \A t \in Threads : ArgFits(t)
           /\ \A t \in Threads \ {current} : pc[t] \in {"Unlock", "new", "gone"}
           /\ pc \in [Threads -> PCs] /\ ret \in [Threads -> PassivePCs]
           /\ arg \in [Threads -> Objects \cup {None}]
           /\ signal \in [Objects -> Int] /\ waiters \in [Objects -> Seq(Threads)]
           /\ owner \in [Mutants -> Threads \cup {None}]
           /\ holds \in [Threads -> SUBSET Guarding]
           /\ Mutants \subseteq Objects /\ Guarding \subseteq Objects
           /\ Guarding \cap Mutants = {} /\ Guarding \subseteq Semaphores
BY ObjectAssumption DEF IInv, TypeOK, ControlConsistent, LockHandOver, Objects

\* Steps that move a thread between places and touch no object.
LEMMA MutantPlaces ==
    ASSUME IInv,
           \/ KiUnLockDispatcherDataBase(current) \/ KiProcessDpcQueue(current)
           \/ KeLowerIrql(current) \/ Schedule(current) \/ CallSchedule(current)
           \/ AcquireExitThreadLock(current) \/ ReapExitedThreads(current)
           \/ LockForReleaseSemaphore(current) \/ LockForReleaseMutant(current)
           \/ LockForExit(current)
           \/ (\E o \in Objects : KeWaitForSingleObject(current, o))
           \/ (\E s \in Semaphores : KeReleaseSemaphore(current, s))
           \/ (\E e \in Events : KeSetEvent(current, e))
           \/ (\E u \in Workers : PspCreateThread(current, u))
           \/ PsExitThread(current) \/ KeDelayExecutionThread(current)
           \/ KiThreadTimerISR \/ BugCheck \/ UNCHANGED vars
    PROVE  MutantsAlone
<1>0. /\ current \in Threads
      /\ \A t \in Threads : pc[t] \in PassivePCs => ret[t] = "run"
      /\ pc \in [Threads -> PCs] /\ ret \in [Threads -> PassivePCs]
      /\ arg \in [Threads -> Objects \cup {None}]
      /\ Mutants \subseteq Objects
  BY PlaceFacts
<1>1. UNCHANGED <<signal, owner, waiters>>
  BY DEF KiUnLockDispatcherDataBase, KiProcessDpcQueue, KeLowerIrql, Schedule, CallSchedule,
     AcquireExitThreadLock, ReapExitedThreads, LockForReleaseSemaphore, LockForReleaseMutant,
     LockForExit, KeWaitForSingleObject, KeReleaseSemaphore, KeSetEvent, PspCreateThread,
     PsExitThread, KeDelayExecutionThread, KiThreadTimerISR, BugCheck, vars, objectVars
<1>2. ASSUME NEW t \in Threads, NEW m \in Mutants PROVE Releasing(t, m)' <=> Releasing(t, m)
  <2> USE DEF PassivePCs
  <2>1. CASE UNCHANGED <<pc, ret, arg>>
    BY <2>1 DEF Releasing
  <2>2. CASE KiUnLockDispatcherDataBase(current) \/ KiProcessDpcQueue(current)
             \/ ReapExitedThreads(current)
    BY <1>0, <2>2, ReleasingSame
       DEF KiUnLockDispatcherDataBase, KiProcessDpcQueue, ReapExitedThreads, Goto, At, Busy
  <2>3. CASE KeLowerIrql(current)
    BY <1>0, <2>3, ReleasingSame DEF KeLowerIrql, Goto, At, Busy
  <2>4. CASE Schedule(current)
    BY <1>0, <2>4, ReleasingSame DEF Schedule, Goto, At, Busy
  <2>5. CASE CallSchedule(current) \/ AcquireExitThreadLock(current)
    BY <1>0, <2>5, ReleasingSame
       DEF CallSchedule, AcquireExitThreadLock, KiLockDispatcherDataBase, Goto, At, Busy
  <2>6. CASE LockForReleaseSemaphore(current) \/ LockForExit(current)
    BY <1>0, <2>6, ReleasingSame
       DEF LockForReleaseSemaphore, LockForExit, KiLockDispatcherDataBase, Goto, At, Busy
  <2>7. CASE LockForReleaseMutant(current)
    BY <1>0, <2>7, ReleasingSame
       DEF LockForReleaseMutant, KiLockDispatcherDataBase, Goto, At, Busy
  <2>8. CASE \/ \E o \in Objects : KeWaitForSingleObject(current, o)
             \/ \E u \in Workers : PspCreateThread(current, u)
    BY <1>0, <2>8, ReleasingSame
       DEF KeWaitForSingleObject, PspCreateThread, KiLockDispatcherDataBase, Goto, Calls, At, Busy
  <2>9. CASE \E e \in Events : KeSetEvent(current, e)
    BY <1>0, <2>9, ReleasingSame DEF KeSetEvent, KiLockDispatcherDataBase, Goto, Calls, At, Busy
  <2>10. CASE \/ \E s \in Semaphores : KeReleaseSemaphore(current, s)
              \/ PsExitThread(current) \/ KeDelayExecutionThread(current)
    BY <1>0, <2>10, ReleasingSame
       DEF KeReleaseSemaphore, PsExitThread, KeDelayExecutionThread, Goto, Calls, At, Busy
  <2>11. CASE KiThreadTimerISR
    <3>1. CASE ReturnDrains
      <4>1. irql = "PASSIVE" /\ pc[current] \in PassivePCs
        BY <3>1 DEF ReturnDrains, IInv, LockHandOver
      <4>. QED
        BY <1>0, <2>11, <3>1, <4>1, ReleasingSame DEF KiThreadTimerISR, Goto, Busy
    <3>2. CASE ~ReturnDrains
      BY <2>1, <2>11, <3>2 DEF KiThreadTimerISR
    <3>. QED
      BY <3>1, <3>2
  <2>12. CASE BugCheck \/ UNCHANGED vars
    BY <2>1, <2>12 DEF BugCheck, vars, threadVars
  <2>. QED
    BY <2>2, <2>3, <2>4, <2>5, <2>6, <2>7, <2>8, <2>9, <2>10, <2>11, <2>12
<1>. QED
  BY <1>1, <1>2 DEF MutantsAlone

\* Steps on an object that is no mutant.
LEMMA MutantOthers ==
    ASSUME IInv,
           \/ ReleaseSemaphore(current) \/ SetEvent(current) \/ KiDHeaderReleaseAll(current)
           \/ CreateThread(current)
           \/ \E e \in Events : KeResetEvent(current, e)
    PROVE  MutantsAlone
<1>0. /\ current \in Threads
      /\ pc \in [Threads -> PCs] /\ ret \in [Threads -> PassivePCs]
      /\ signal \in [Objects -> Int] /\ waiters \in [Objects -> Seq(Threads)]
      /\ Mutants \subseteq Objects /\ ArgFits(current)
      /\ \A t \in Threads \ {current} : pc[t] \in {"Unlock", "new", "gone"}
  BY PlaceFacts
<1>1. ASSUME NEW m \in Mutants PROVE signal'[m] = signal[m] /\ waiters'[m] = waiters[m]
  <2>1. CASE \E e \in Events : KeResetEvent(current, e)
    BY <2>1, <1>0, ObjectAssumption DEF KeResetEvent
  <2>2. CASE ReleaseSemaphore(current)
    <3>1. arg[current] # m
      BY <2>2, <1>0, ObjectAssumption DEF ReleaseSemaphore, At, ArgFits, Busy
    <3>. QED
      BY <2>2, <3>1, <1>0 DEF ReleaseSemaphore, KiDHeaderRelease
  <2>3. CASE SetEvent(current)
    <3>1. arg[current] # m
      BY <2>3, <1>0, ObjectAssumption DEF SetEvent, At, ArgFits, Busy, Events
    <3>. QED
      BY <2>3, <3>1, <1>0 DEF SetEvent, KiDHeaderRelease
  <2>4. CASE KiDHeaderReleaseAll(current)
    <3>1. arg[current] # m
      BY <2>4, <1>0, ObjectAssumption DEF KiDHeaderReleaseAll, At, ArgFits, Events
    <3>. QED
      BY <2>4, <3>1, <1>0 DEF KiDHeaderReleaseAll
  <2>5. CASE CreateThread(current)
    <3>1. arg[current] # m
      BY <2>5, <1>0, ObjectAssumption DEF CreateThread, At, ArgFits
    <3>. QED
      BY <2>5, <3>1, <1>0 DEF CreateThread
  <2>. QED
    BY <2>1, <2>2, <2>3, <2>4, <2>5
<1>2. owner' = owner /\ arg' = arg /\ ret' = ret
  BY DEF KeResetEvent, ReleaseSemaphore, SetEvent, KiDHeaderReleaseAll, CreateThread, threadVars
<1>3. ASSUME NEW t \in Threads
      PROVE  /\ pc[t] \in {"KeReleaseMutant", "ReleaseMutant"} => pc'[t] = pc[t]
             /\ pc'[t] \in {"KeReleaseMutant", "ReleaseMutant"} => pc'[t] = pc[t]
  <2>1. CASE CreateThread(current)
    <3>1. pc[arg[current]] = "new" /\ arg[current] \in Threads /\ pc[current] = "CreateThread"
      <4>1. /\ arg[current] \in Workers /\ state[arg[current]] = "initialized"
            /\ pc[current] = "CreateThread"
        BY <2>1, <1>0 DEF CreateThread, At, ArgFits
      <4>2. arg[current] # current /\ SwitchedOut(arg[current]) /\ arg[current] \in Threads
        BY <4>1 DEF IInv, OneRunning, ControlConsistent, Workers
      <4>. QED
        BY <4>1, <4>2 DEF SwitchedOut
    <3>2. pc' = [pc EXCEPT ![current] = "Unlock", ![arg[current]] = "Unlock"]
      BY <2>1 DEF CreateThread
    <3>. QED
      BY <3>1, <3>2, <1>0
  <2>2. CASE \/ ReleaseSemaphore(current) \/ SetEvent(current) \/ KiDHeaderReleaseAll(current)
             \/ \E e \in Events : KeResetEvent(current, e)
    BY <2>2, <1>0 DEF ReleaseSemaphore, SetEvent, KiDHeaderReleaseAll, KeResetEvent, threadVars,
       Goto, At
  <2>. QED
    BY <2>1, <2>2
<1>4. ASSUME NEW t \in Threads, NEW m \in Mutants PROVE Releasing(t, m)' <=> Releasing(t, m)
  BY <1>2, <1>3 DEF Releasing
<1>. QED
  BY <1>1, <1>2, <1>4 DEF MutantsAlone

\* KeReleaseMutant: the owner becomes the one thread that releases the mutant.
LEMMA MutantReleaseCall ==
    ASSUME IInv, MutantInv, NEW m \in Mutants, KeReleaseMutant(current, m)
    PROVE  MutantInv'
<1>0. /\ current \in Threads /\ None \notin Threads
      /\ pc \in [Threads -> PCs] /\ ret \in [Threads -> PassivePCs]
      /\ arg \in [Threads -> Objects \cup {None}]
      /\ owner \in [Mutants -> Threads \cup {None}]
  BY PlaceFacts, ThreadAssumption
<1>1. /\ pc[current] = "run" /\ ret[current] = "run" /\ owner[m] = current
      /\ owner' = [owner EXCEPT ![m] = None] /\ arg' = [arg EXCEPT ![current] = m]
      /\ pc' = [pc EXCEPT ![current] = "KeReleaseMutant"]
      /\ UNCHANGED <<ret, signal, waiters>>
  BY PlaceFacts DEF KeReleaseMutant, NewOwner, Calls, At, Goto, PassivePCs
<1>2. ASSUME NEW t \in Threads, NEW k \in Mutants
      PROVE  Releasing(t, k)' <=> Releasing(t, k) \/ (t = current /\ k = m)
  BY <1>0, <1>1 DEF Releasing
<1>3. \A t \in Threads : ~Releasing(t, m)
  BY <1>0, <1>1 DEF MutantInv
<1>4. ASSUME NEW k \in Mutants
      PROVE  /\ signal'[k] = 0 <=> owner'[k] # None \/ \E t \in Threads : Releasing(t, k)'
             /\ signal'[k] \in {0, 1} /\ waiters'[k] = <<>>
             /\ \A t \in Threads : Releasing(t, k)' =>
                   owner'[k] = None /\ \A u \in Threads : Releasing(u, k)' => u = t
  <2>1. CASE k = m
    <3>1. signal[m] = 0 /\ waiters[m] = <<>>
      BY <1>0, <1>1 DEF MutantInv, MutantConsistent
    <3>2. owner'[k] = None
      BY <2>1, <1>0, <1>1
    <3>. QED
      BY <2>1, <3>1, <3>2, <1>0, <1>1, <1>2, <1>3
  <2>2. CASE k # m
    <3>1. owner'[k] = owner[k] /\ \A t \in Threads : Releasing(t, k)' <=> Releasing(t, k)
      BY <2>2, <1>0, <1>1, <1>2
    <3>2. /\ signal[k] = 0 <=> owner[k] # None \/ \E t \in Threads : Releasing(t, k)
          /\ signal[k] \in {0, 1} /\ waiters[k] = <<>>
          /\ \A t \in Threads : Releasing(t, k) =>
                owner[k] = None /\ \A u \in Threads : Releasing(u, k) => u = t
      BY DEF MutantInv, MutantConsistent
    <3>. QED
      BY <3>1, <3>2, <1>1
  <2>. QED
    BY <2>1, <2>2
<1>. QED
  BY <1>4 DEF MutantInv, MutantConsistent

\* KiDHeaderAcquire takes a mutant that is free, or is about another object.
LEMMA MutantAcquire ==
    ASSUME IInv, MutantInv, KiDHeaderAcquire(current)
    PROVE  MutantInv'
<1>0. /\ current \in Threads /\ None \notin Threads /\ Mutants \subseteq Objects
      /\ pc \in [Threads -> PCs] /\ ret \in [Threads -> PassivePCs]
      /\ signal \in [Objects -> Int] /\ waiters \in [Objects -> Seq(Threads)]
      /\ owner \in [Mutants -> Threads \cup {None}]
  BY PlaceFacts, ThreadAssumption
<1>1. PICK o : /\ o = arg[current] /\ pc[current] = "Wait"
               /\ o \in Mutants => signal[o] # 0
               /\ pc' = [pc EXCEPT ![current] = "Unlock"]
               /\ UNCHANGED <<ret, arg>>
  BY DEF KiDHeaderAcquire, At, Fault, CallerFault, Goto
<1>2. ASSUME NEW t \in Threads, NEW k \in Mutants PROVE Releasing(t, k)' <=> Releasing(t, k)
  BY <1>0, <1>1 DEF Releasing
<1>3. CASE signal[o] = 0
  <2>1. /\ waiters' = [waiters EXCEPT ![o] = Append(waiters[o], current)]
        /\ signal' = signal /\ owner' = owner
    BY <1>1, <1>3 DEF KiDHeaderAcquire, EnqueuedLast
  <2>2. \A k \in Mutants : waiters'[k] = waiters[k]
    BY <2>1, <1>0, <1>1, <1>3
  <2>3. MutantsAlone
    BY <2>1, <2>2, <1>2 DEF MutantsAlone
  <2>. QED
    BY <2>3, MutantFrame
<1>4. CASE signal[o] # 0
  <2>1. /\ signal' = [signal EXCEPT ![o] = @ - 1] /\ waiters' = waiters
        /\ owner' = IF o \in Mutants THEN [owner EXCEPT ![o] = current] ELSE owner
    BY <1>1, <1>4 DEF KiDHeaderAcquire
  <2>2. CASE o \notin Mutants
    <3>1. MutantsAlone
      BY <2>1, <2>2, <1>0, <1>2 DEF MutantsAlone
    <3>. QED
      BY <3>1, MutantFrame
  <2>3. CASE o \in Mutants
    <3>1. signal[o] = 1 /\ \A t \in Threads : ~Releasing(t, o)
      BY <2>3, <1>4 DEF MutantInv, MutantConsistent
    <3>2. signal'[o] = 0 /\ owner'[o] = current
      BY <2>1, <2>3, <3>1, <1>0
    <3>3. ASSUME NEW k \in Mutants
          PROVE  /\ signal'[k] = 0 <=> owner'[k] # None \/ \E t \in Threads : Releasing(t, k)'
                 /\ signal'[k] \in {0, 1} /\ waiters'[k] = <<>>
                 /\ \A t \in Threads : Releasing(t, k)' =>
                       owner'[k] = None /\ \A u \in Threads : Releasing(u, k)' => u = t
      <4>1. CASE k = o
        <5>1. owner'[k] # None /\ waiters'[k] = <<>>
          BY <4>1, <3>2, <2>1, <1>0 DEF MutantInv
        <5>. QED
          BY <4>1, <5>1, <3>1, <3>2, <1>2
      <4>2. CASE k # o
        <5>1. signal'[k] = signal[k] /\ owner'[k] = owner[k] /\ waiters'[k] = waiters[k]
          BY <4>2, <2>1, <2>3, <1>0
        <5>2. /\ signal[k] = 0 <=> owner[k] # None \/ \E t \in Threads : Releasing(t, k)
              /\ signal[k] \in {0, 1} /\ waiters[k] = <<>>
              /\ \A t \in Threads : Releasing(t, k) =>
                    owner[k] = None /\ \A u \in Threads : Releasing(u, k) => u = t
          BY DEF MutantInv, MutantConsistent
        <5>. QED
          BY <5>1, <5>2, <1>2
      <4>. QED
        BY <4>1, <4>2
    <3>. QED
      BY <3>3 DEF MutantInv, MutantConsistent
  <2>. QED
    BY <2>2, <2>3
<1>. QED
  BY <1>3, <1>4

\* From the locked parts of KeReleaseMutant and KeReleaseSemaphore a thread
\* returns to its own code.
ReleaseReturns ==
    \A t \in Threads : pc[t] \in {"ReleaseMutant", "ReleaseSemaphore"} => ret[t] = "run"

LEMMA NextReleaseReturns == IInv /\ ReleaseReturns /\ [Next]_vars => ReleaseReturns'
<1> SUFFICES ASSUME IInv, ReleaseReturns, [Next]_vars, NEW t \in Threads,
                    pc'[t] \in {"ReleaseMutant", "ReleaseSemaphore"}
             PROVE  ret'[t] = "run"
  BY DEF ReleaseReturns
<1>0. /\ current \in Threads
      /\ \A u \in Threads : pc[u] \in PassivePCs => ret[u] = "run"
      /\ pc \in [Threads -> PCs] /\ ret \in [Threads -> PassivePCs]
  BY PlaceFacts
<1>1. CASE KernelStep(current)
  <2>1. CASE LockForReleaseMutant(current)
    BY <2>1, <1>0 DEF LockForReleaseMutant, KiLockDispatcherDataBase, Goto, ReleaseReturns
  <2>2. CASE KeLowerIrql(current)
    BY <2>2, <1>0 DEF KeLowerIrql, Goto, ReleaseReturns, PassivePCs
  <2>3. CASE \/ CallSchedule(current) \/ AcquireExitThreadLock(current)
             \/ LockForReleaseSemaphore(current) \/ LockForExit(current)
    BY <2>3, <1>0 DEF CallSchedule, AcquireExitThreadLock, LockForReleaseSemaphore, LockForExit,
       KiLockDispatcherDataBase, Goto, ReleaseReturns
  <2>4. CASE \/ KiUnLockDispatcherDataBase(current) \/ KiProcessDpcQueue(current)
             \/ Schedule(current) \/ ReapExitedThreads(current)
    BY <2>4, <1>0 DEF KiUnLockDispatcherDataBase, KiProcessDpcQueue, Schedule, ReapExitedThreads,
       Goto, ReleaseReturns
  <2>5. CASE \/ KiDHeaderAcquire(current) \/ ReleaseSemaphore(current) \/ ReleaseMutant(current)
             \/ SetEvent(current) \/ KiDHeaderReleaseAll(current)
    BY <2>5, <1>0 DEF KiDHeaderAcquire, ReleaseSemaphore, ReleaseMutant, SetEvent,
       KiDHeaderReleaseAll, Goto, ReleaseReturns
  <2>6. CASE CreateThread(current)
    BY <2>6, <1>0 DEF CreateThread, ReleaseReturns
  <2>. QED
    BY <1>1, <2>1, <2>2, <2>3, <2>4, <2>5, <2>6 DEF KernelStep
<1>2. CASE ThreadCall(current)
  <2>1. ASSUME NEW o \in Objects, KeWaitForSingleObject(current, o) PROVE ret'[t] = "run"
    BY <2>1, <1>0 DEF KeWaitForSingleObject, KiLockDispatcherDataBase, Goto, ReleaseReturns
  <2>2. ASSUME NEW e \in Events, KeSetEvent(current, e) PROVE ret'[t] = "run"
    BY <2>2, <1>0 DEF KeSetEvent, KiLockDispatcherDataBase, Goto, ReleaseReturns
  <2>3. ASSUME NEW u \in Workers, PspCreateThread(current, u) PROVE ret'[t] = "run"
    BY <2>3, <1>0 DEF PspCreateThread, KiLockDispatcherDataBase, Goto, ReleaseReturns
  <2>4. CASE \/ \E s \in Semaphores : KeReleaseSemaphore(current, s)
             \/ \E m \in Mutants : KeReleaseMutant(current, m)
             \/ \E e \in Events : KeResetEvent(current, e)
             \/ PsExitThread(current) \/ KeDelayExecutionThread(current)
    BY <2>4, <1>0 DEF KeReleaseSemaphore, KeReleaseMutant, KeResetEvent, PsExitThread,
       KeDelayExecutionThread, threadVars, Goto, ReleaseReturns
  <2>. QED
    BY <1>2, <2>1, <2>2, <2>3, <2>4 DEF ThreadCall
<1>3. CASE KiThreadTimerISR
  BY <1>3, <1>0 DEF KiThreadTimerISR, Goto, ReleaseReturns
<1>4. CASE BugCheck \/ UNCHANGED vars
  BY <1>4 DEF BugCheck, vars, threadVars, ReleaseReturns
<1>. QED
  BY <1>1, <1>2, <1>3, <1>4 DEF Next

\* The locked part of KeReleaseMutant ends the release: the mutant is free.
LEMMA MutantRelease ==
    ASSUME IInv, MutantInv, ReleaseReturns, ReleaseMutant(current)
    PROVE  MutantInv'
<1>0. /\ current \in Threads /\ Mutants \subseteq Objects
      /\ pc \in [Threads -> PCs] /\ ret \in [Threads -> PassivePCs]
      /\ signal \in [Objects -> Int] /\ ArgFits(current)
  BY PlaceFacts
<1>1. PICK o \in Mutants : o = arg[current] /\ pc[current] = "ReleaseMutant"
  BY <1>0 DEF ReleaseMutant, At, ArgFits, Busy
<1>2. waiters[o] = <<>> /\ Releasing(current, o)
  BY <1>1 DEF MutantInv, Releasing
<1>3. /\ signal' = [signal EXCEPT ![o] = @ + 1] /\ UNCHANGED <<waiters, owner, ret, arg>>
      /\ pc' = [pc EXCEPT ![current] = "Unlock"]
  BY <1>1, <1>2 DEF ReleaseMutant, KiDHeaderRelease, Goto
<1>4. owner[o] = None /\ signal[o] = 0 /\ \A u \in Threads : Releasing(u, o) => u = current
  BY <1>0, <1>2 DEF MutantInv, MutantConsistent
<1>5. ret[current] = "run"
  BY <1>0, <1>1 DEF ReleaseReturns
<1>6. ASSUME NEW t \in Threads, NEW k \in Mutants
      PROVE  Releasing(t, k)' <=> Releasing(t, k) /\ t # current
  BY <1>0, <1>1, <1>3, <1>5 DEF Releasing
<1>7. ASSUME NEW k \in Mutants
      PROVE  /\ signal'[k] = 0 <=> owner'[k] # None \/ \E t \in Threads : Releasing(t, k)'
             /\ signal'[k] \in {0, 1} /\ waiters'[k] = <<>>
             /\ \A t \in Threads : Releasing(t, k)' =>
                   owner'[k] = None /\ \A u \in Threads : Releasing(u, k)' => u = t
  <2>1. CASE k = o
    <3>1. signal'[k] = 1
      BY <2>1, <1>0, <1>3, <1>4
    <3>2. \A t \in Threads : ~Releasing(t, k)'
      BY <2>1, <1>4, <1>6
    <3>. QED
      BY <2>1, <3>1, <3>2, <1>2, <1>3, <1>4
  <2>2. CASE k # o
    <3>1. signal'[k] = signal[k]
      BY <2>2, <1>0, <1>3
    <3>2. ~Releasing(current, k)
      BY <2>2, <1>1 DEF Releasing
    <3>3. \A t \in Threads : Releasing(t, k)' <=> Releasing(t, k)
      BY <3>2, <1>6
    <3>4. /\ signal[k] = 0 <=> owner[k] # None \/ \E t \in Threads : Releasing(t, k)
          /\ signal[k] \in {0, 1} /\ waiters[k] = <<>>
          /\ \A t \in Threads : Releasing(t, k) =>
                owner[k] = None /\ \A u \in Threads : Releasing(u, k) => u = t
      BY DEF MutantInv, MutantConsistent
    <3>. QED
      BY <3>1, <3>3, <3>4, <1>3
  <2>. QED
    BY <2>1, <2>2
<1>. QED
  BY <1>7 DEF MutantInv, MutantConsistent

LEMMA NextMutantInv == IInv /\ ReleaseReturns /\ MutantInv /\ [Next]_vars => MutantInv'
<1> SUFFICES ASSUME IInv, ReleaseReturns, MutantInv, [Next]_vars PROVE MutantInv'
  OBVIOUS
<1>1. CASE KernelStep(current)
  BY <1>1, MutantPlaces, MutantOthers, MutantFrame, MutantAcquire, MutantRelease DEF KernelStep
<1>2. CASE ThreadCall(current)
  BY <1>2, MutantPlaces, MutantOthers, MutantFrame, MutantReleaseCall DEF ThreadCall
<1>3. CASE KiThreadTimerISR \/ BugCheck \/ UNCHANGED vars
  BY <1>3, MutantPlaces, MutantFrame
<1>. QED
  BY <1>1, <1>2, <1>3 DEF Next

LEMMA InitMutantInv == Init => ReleaseReturns /\ MutantInv
<1> SUFFICES ASSUME Init PROVE ReleaseReturns /\ MutantInv
  OBVIOUS
<1>1. \A t \in Threads : pc[t] \in {"run", "Unlock", "new"} /\ ret[t] = "run"
  BY DEF Init
<1>2. \A t \in Threads, m \in Mutants : ~Releasing(t, m)
  BY <1>1 DEF Releasing
<1>3. \A m \in Mutants : m \in Objects /\ m \notin Semaphores
  BY ObjectAssumption DEF Objects
<1>4. \A m \in Mutants : signal[m] = 1 /\ owner[m] = None /\ waiters[m] = <<>>
  BY <1>3 DEF Init, InitialSignal
<1>. QED
  BY <1>1, <1>2, <1>4 DEF ReleaseReturns, MutantInv, MutantConsistent

\* A mutant is taken exactly as long as it has an owner or a thread that is
\* releasing it, although the owner is cleared before the lock is taken and a
\* tick may come in between.
THEOREM MutantsConsistent == Spec => []MutantConsistent
<1>1. Init => IInv /\ ReleaseReturns /\ MutantInv
  BY InitIInv, InitMutantInv
<1>2. IInv /\ ReleaseReturns /\ MutantInv /\ [Next]_vars => (IInv /\ ReleaseReturns /\ MutantInv)'
  BY NextIInv, NextReleaseReturns, NextMutantInv
<1>3. MutantInv => MutantConsistent
  BY DEF MutantInv
<1>. QED
  BY <1>1, <1>2, <1>3, PTL DEF Spec

-----------------------------------------------------------------------------
(* Permits of guarding semaphores.                                          *)

Holders(s) == {t \in Threads : s \in holds[t]}

\* A thread that is about to wait for a guarding semaphore does not hold it; one
\* that is about to release it does.
PermitFits(t) ==
    arg[t] \in Guarding =>
        /\ pc[t] = "Wait" => t \notin Holders(arg[t])
        /\ Busy(t, {"KeReleaseSemaphore", "ReleaseSemaphore"}) => t \in Holders(arg[t])

\* The permits add up; those who wait for one hold none.
PermitInv ==
    /\ PermitsConserved
    /\ \A s \in Guarding : IsFiniteSet(Holders(s)) /\ Elems(waiters[s]) \cap Holders(s) = {}
    /\ \A t \in Threads : PermitFits(t)

\* A step leaves the guarding semaphores as they are.
PermitsAlone ==
    /\ holds' = holds
    /\ \A s \in Guarding : signal'[s] = signal[s] /\ waiters'[s] = waiters[s]

LEMMA PermitFrame ==
    ASSUME PermitInv, PermitsAlone, \A t \in Threads : PermitFits(t)'
    PROVE  PermitInv'
<1>1. \A s \in Guarding : Holders(s)' = Holders(s)
  BY DEF Holders, PermitsAlone
<1>2. PermitsConserved'
  BY <1>1 DEF PermitInv, PermitsConserved, PermitsAlone, Holders
<1>. QED
  BY <1>1, <1>2 DEF PermitInv, PermitsAlone

\* A thread that does not move, and keeps its permits, still fits.
LEMMA FitsSame ==
    ASSUME NEW t \in Threads, PermitFits(t), holds'[t] = holds[t], arg'[t] = arg[t],
           pc'[t] = "Wait" => pc[t] = "Wait",
           Busy(t, {"KeReleaseSemaphore", "ReleaseSemaphore"})'
              => Busy(t, {"KeReleaseSemaphore", "ReleaseSemaphore"})
    PROVE  PermitFits(t)'
BY DEF PermitFits, Holders

\* Nor does one that is at none of these places.
LEMMA FitsElsewhere ==
    ASSUME NEW t \in Threads, pc'[t] # "Wait",
           ~Busy(t, {"KeReleaseSemaphore", "ReleaseSemaphore"})'
    PROVE  PermitFits(t)'
BY DEF PermitFits

LEMMA PermitPlaces ==
    ASSUME IInv, PermitInv,
           \/ KiUnLockDispatcherDataBase(current) \/ KiProcessDpcQueue(current)
           \/ KeLowerIrql(current) \/ Schedule(current) \/ CallSchedule(current)
           \/ AcquireExitThreadLock(current) \/ ReapExitedThreads(current)
           \/ LockForReleaseSemaphore(current) \/ LockForReleaseMutant(current)
           \/ LockForExit(current)
           \/ (\E o \in Objects : KeWaitForSingleObject(current, o))
           \/ (\E s \in Semaphores : KeReleaseSemaphore(current, s))
           \/ (\E m \in Mutants : KeReleaseMutant(current, m))
           \/ (\E e \in Events : KeSetEvent(current, e))
           \/ (\E u \in Workers : PspCreateThread(current, u))
           \/ PsExitThread(current) \/ KeDelayExecutionThread(current)
           \/ KiThreadTimerISR \/ BugCheck \/ UNCHANGED vars
    PROVE  PermitInv'
<1>0. /\ current \in Threads
      /\ \A t \in Threads : pc[t] \in PassivePCs => ret[t] = "run"
      /\ pc \in [Threads -> PCs] /\ ret \in [Threads -> PassivePCs]
      /\ arg \in [Threads -> Objects \cup {None}]
  BY PlaceFacts
<1>1. UNCHANGED <<signal, holds, waiters>>
  BY DEF KiUnLockDispatcherDataBase, KiProcessDpcQueue, KeLowerIrql, Schedule, CallSchedule,
     AcquireExitThreadLock, ReapExitedThreads, LockForReleaseSemaphore, LockForReleaseMutant,
     LockForExit, KeWaitForSingleObject, KeReleaseSemaphore, KeReleaseMutant, KeSetEvent,
     PspCreateThread, PsExitThread, KeDelayExecutionThread, KiThreadTimerISR, BugCheck, vars,
     objectVars
<1>2. ASSUME NEW t \in Threads PROVE PermitFits(t)'
  <2> USE DEF PassivePCs
  <2>0. PermitFits(t)
    BY DEF PermitInv
  <2>1. CASE UNCHANGED <<pc, ret, arg>>
    BY <2>0, <2>1, <1>1, FitsSame DEF Busy
  <2>2. CASE KiUnLockDispatcherDataBase(current) \/ KiProcessDpcQueue(current)
             \/ ReapExitedThreads(current)
    BY <1>0, <1>1, <2>0, <2>2, FitsSame
       DEF KiUnLockDispatcherDataBase, KiProcessDpcQueue, ReapExitedThreads, Goto, At, Busy
  <2>3. CASE KeLowerIrql(current)
    BY <1>0, <1>1, <2>0, <2>3, FitsSame, FitsElsewhere DEF KeLowerIrql, Goto, At, Busy
  <2>4. CASE Schedule(current)
    BY <1>0, <1>1, <2>0, <2>4, FitsSame DEF Schedule, Goto, At, Busy
  <2>5. CASE CallSchedule(current) \/ AcquireExitThreadLock(current)
    BY <1>0, <1>1, <2>0, <2>5, FitsSame
       DEF CallSchedule, AcquireExitThreadLock, KiLockDispatcherDataBase, Goto, At, Busy
  <2>6. CASE LockForReleaseSemaphore(current) \/ LockForReleaseMutant(current)
    BY <1>0, <1>1, <2>0, <2>6, FitsSame
       DEF LockForReleaseSemaphore, LockForReleaseMutant, KiLockDispatcherDataBase, Goto, At, Busy
  <2>7. CASE LockForExit(current)
    BY <1>0, <1>1, <2>0, <2>7, FitsSame, FitsElsewhere
       DEF LockForExit, KiLockDispatcherDataBase, Goto, At, Busy
  <2>8. ASSUME NEW o \in Objects, KeWaitForSingleObject(current, o) PROVE PermitFits(t)'
    <3>1. /\ pc[current] = "run" /\ ret'[current] = "run" /\ o \notin holds[current]
          /\ pc'[current] = "Wait" /\ arg'[current] = o
      BY <1>0, <2>8 DEF KeWaitForSingleObject, KiLockDispatcherDataBase, Goto, Calls, At
    <3>2. CASE t = current
      BY <3>1, <3>2, <1>1 DEF PermitFits, Holders, Busy
    <3>3. CASE t # current
      BY <1>0, <1>1, <2>0, <2>8, <3>3, FitsSame
         DEF KeWaitForSingleObject, KiLockDispatcherDataBase, Goto, Busy
    <3>. QED
      BY <3>2, <3>3
  <2>9. ASSUME NEW s \in Semaphores, KeReleaseSemaphore(current, s) PROVE PermitFits(t)'
    <3>1. /\ s \in Guarding => s \in holds[current]
          /\ pc'[current] # "Wait" /\ arg'[current] = s
      BY <1>0, <2>9 DEF KeReleaseSemaphore, Goto
    <3>2. CASE t = current
      BY <3>1, <3>2, <1>1 DEF PermitFits, Holders, Busy
    <3>3. CASE t # current
      BY <1>0, <1>1, <2>0, <2>9, <3>3, FitsSame DEF KeReleaseSemaphore, Goto, Busy
    <3>. QED
      BY <3>2, <3>3
  <2>10. ASSUME NEW m \in Mutants, KeReleaseMutant(current, m) PROVE PermitFits(t)'
    BY <1>0, <1>1, <2>0, <2>10, FitsSame, FitsElsewhere DEF KeReleaseMutant, Goto, Calls, At, Busy
  <2>11. ASSUME NEW e \in Events, KeSetEvent(current, e) PROVE PermitFits(t)'
    BY <1>0, <1>1, <2>0, <2>11, FitsSame, FitsElsewhere
       DEF KeSetEvent, KiLockDispatcherDataBase, Goto, Calls, At, Busy
  <2>12. ASSUME NEW u \in Workers, PspCreateThread(current, u) PROVE PermitFits(t)'
    BY <1>0, <1>1, <2>0, <2>12, FitsSame, FitsElsewhere
       DEF PspCreateThread, KiLockDispatcherDataBase, Goto, Calls, At, Busy
  <2>13. CASE PsExitThread(current) \/ KeDelayExecutionThread(current)
    BY <1>0, <1>1, <2>0, <2>13, FitsSame DEF PsExitThread, KeDelayExecutionThread, Goto, At, Busy
  <2>14. CASE KiThreadTimerISR
    BY <1>0, <1>1, <2>0, <2>14, FitsSame DEF KiThreadTimerISR, Goto, Busy
  <2>15. CASE BugCheck \/ UNCHANGED vars
    BY <2>1, <2>15 DEF BugCheck, vars, threadVars
  <2>. QED
    BY <2>2, <2>3, <2>4, <2>5, <2>6, <2>7, <2>8, <2>9, <2>10, <2>11, <2>12, <2>13, <2>14, <2>15
<1>3. PermitsAlone
  BY <1>1 DEF PermitsAlone
<1>. QED
  BY <1>2, <1>3, PermitFrame

\* Steps on an object that is no semaphore.
LEMMA PermitOthers ==
    ASSUME IInv, PermitInv,
           \/ ReleaseMutant(current) \/ SetEvent(current) \/ KiDHeaderReleaseAll(current)
           \/ CreateThread(current)
           \/ \E e \in Events : KeResetEvent(current, e)
    PROVE  PermitInv'
<1>0. /\ current \in Threads
      /\ pc \in [Threads -> PCs] /\ ret \in [Threads -> PassivePCs]
      /\ signal \in [Objects -> Int] /\ waiters \in [Objects -> Seq(Threads)]
      /\ Guarding \subseteq Objects /\ Guarding \subseteq Semaphores /\ ArgFits(current)
  BY PlaceFacts
<1>1. ASSUME NEW s \in Guarding PROVE signal'[s] = signal[s] /\ waiters'[s] = waiters[s]
  <2>1. CASE \E e \in Events : KeResetEvent(current, e)
    BY <2>1, <1>0, ObjectAssumption DEF KeResetEvent
  <2>2. CASE ReleaseMutant(current)
    <3>1. arg[current] # s
      BY <2>2, <1>0, ObjectAssumption DEF ReleaseMutant, At, ArgFits, Busy
    <3>. QED
      BY <2>2, <3>1, <1>0 DEF ReleaseMutant, KiDHeaderRelease
  <2>3. CASE SetEvent(current)
    <3>1. arg[current] # s
      BY <2>3, <1>0, ObjectAssumption DEF SetEvent, At, ArgFits, Busy, Events
    <3>. QED
      BY <2>3, <3>1, <1>0 DEF SetEvent, KiDHeaderRelease
  <2>4. CASE KiDHeaderReleaseAll(current)
    <3>1. arg[current] # s
      BY <2>4, <1>0, ObjectAssumption DEF KiDHeaderReleaseAll, At, ArgFits, Events
    <3>. QED
      BY <2>4, <3>1, <1>0 DEF KiDHeaderReleaseAll
  <2>5. CASE CreateThread(current)
    <3>1. arg[current] # s
      BY <2>5, <1>0, ObjectAssumption DEF CreateThread, At, ArgFits
    <3>. QED
      BY <2>5, <3>1, <1>0 DEF CreateThread
  <2>. QED
    BY <2>1, <2>2, <2>3, <2>4, <2>5
<1>2. holds' = holds /\ arg' = arg /\ ret' = ret
  BY DEF KeResetEvent, ReleaseMutant, SetEvent, KiDHeaderReleaseAll, CreateThread, threadVars
<1>3. ASSUME NEW t \in Threads
      PROVE  pc'[t] \in {"Wait", "KeReleaseSemaphore", "ReleaseSemaphore"} => pc'[t] = pc[t]
  BY <1>0 DEF ReleaseMutant, SetEvent, KiDHeaderReleaseAll, KeResetEvent, CreateThread, threadVars,
     Goto
<1>4. ASSUME NEW t \in Threads PROVE PermitFits(t)'
  BY <1>2, <1>3, FitsSame DEF PermitInv, Busy
<1>. QED
  BY <1>1, <1>2, <1>4, PermitFrame DEF PermitsAlone

\* KiDHeaderAcquire takes a permit for the current thread, or puts it behind the
\* other waiters.
LEMMA PermitAcquire ==
    ASSUME IInv, PermitInv, KiDHeaderAcquire(current)
    PROVE  PermitInv'
<1>0. /\ current \in Threads
      /\ pc \in [Threads -> PCs] /\ ret \in [Threads -> PassivePCs]
      /\ signal \in [Objects -> Int] /\ waiters \in [Objects -> Seq(Threads)]
      /\ holds \in [Threads -> SUBSET Guarding]
      /\ Guarding \subseteq Objects /\ ArgFits(current)
  BY PlaceFacts
<1>1. PICK o \in Objects :
        /\ o = arg[current] /\ pc[current] = "Wait"
        /\ pc' = [pc EXCEPT ![current] = "Unlock"]
        /\ UNCHANGED <<ret, arg>>
  BY <1>0 DEF KiDHeaderAcquire, At, ArgFits, Goto
<1>2. o \in Guarding => current \notin Holders(o)
  BY <1>0, <1>1 DEF PermitInv, PermitFits
<1>3. CASE signal[o] = 0
  <2>1. /\ waiters' = [waiters EXCEPT ![o] = Append(waiters[o], current)]
        /\ signal' = signal /\ holds' = holds
    BY <1>1, <1>3 DEF KiDHeaderAcquire, EnqueuedLast
  <2>2. ASSUME NEW t \in Threads PROVE PermitFits(t)'
    BY <1>0, <1>1, <2>1, FitsSame DEF PermitInv, Busy
  <2>3. \A s \in Guarding : Holders(s)' = Holders(s)
    BY <2>1 DEF Holders
  <2>4. PermitsConserved'
    BY <2>1, <2>3 DEF PermitInv, PermitsConserved, Holders
  <2>5. ASSUME NEW s \in Guarding PROVE Elems(waiters'[s]) \cap Holders(s)' = {}
    <3>1. CASE s = o
      <4>1. waiters[o] \in Seq(Threads)
        BY <1>0
      <4>2. Elems(waiters'[s]) = Elems(waiters[s]) \cup {current}
        BY <3>1, <4>1, <2>1, <1>0, AppendElems
      <4>. QED
        BY <3>1, <4>2, <2>3, <1>2 DEF PermitInv
    <3>2. CASE s # o
      BY <3>2, <2>1, <2>3, <1>0 DEF PermitInv
    <3>. QED
      BY <3>1, <3>2
  <2>. QED
    BY <2>2, <2>3, <2>4, <2>5 DEF PermitInv
<1>4. CASE signal[o] # 0
  <2>1. /\ signal' = [signal EXCEPT ![o] = @ - 1] /\ waiters' = waiters
        /\ holds' = IF o \in Guarding THEN [holds EXCEPT ![current] = @ \cup {o}] ELSE holds
    BY <1>1, <1>4 DEF KiDHeaderAcquire
  <2>2. ASSUME NEW t \in Threads PROVE PermitFits(t)'
    <3>1. CASE t = current
      <4>1. pc'[t] = "Unlock" /\ (Busy(t, {"KeReleaseSemaphore", "ReleaseSemaphore"})'
                                    => Busy(t, {"KeReleaseSemaphore", "ReleaseSemaphore"}))
        BY <3>1, <1>0, <1>1 DEF Busy
      <4>2. holds[t] \subseteq holds'[t] /\ PermitFits(t)
        BY <3>1, <2>1, <1>0 DEF PermitInv
      <4>. QED
        BY <4>1, <4>2, <1>1 DEF PermitFits, Holders
    <3>2. CASE t # current
      BY <3>2, <2>1, <1>0, <1>1, FitsSame DEF PermitInv, Busy
    <3>. QED
      BY <3>1, <3>2
  <2>3. CASE o \notin Guarding
    BY <2>1, <2>2, <2>3, <1>0, PermitFrame DEF PermitsAlone
  <2>4. CASE o \in Guarding
    <3>1. \A s \in Guarding : Holders(s)' = IF s = o THEN Holders(o) \cup {current} ELSE Holders(s)
      BY <2>1, <2>4, <1>0 DEF Holders
    <3>2. Elems(waiters[o]) = {}
      <4>1. waiters[o] = <<>>
        BY <1>4 DEF IInv, NoWaiterOnSignaled
      <4>. QED
        BY <4>1, EmptyElems
    <3>3. /\ IsFiniteSet(Holders(o) \cup {current})
          /\ Cardinality(Holders(o) \cup {current}) = Cardinality(Holders(o)) + 1
          /\ Cardinality(Holders(o)) \in Nat
      BY <2>4, <1>2, FS_AddElement, FS_CardinalityType DEF PermitInv
    <3>4. ASSUME NEW s \in Guarding
          PROVE  /\ signal'[s] + Cardinality(Holders(s)') = Count[s]
                 /\ IsFiniteSet(Holders(s)') /\ Elems(waiters'[s]) \cap Holders(s)' = {}
      <4>0. /\ signal[s] + Cardinality(Holders(s)) = Count[s] /\ signal[s] \in Int
            /\ IsFiniteSet(Holders(s)) /\ Elems(waiters[s]) \cap Holders(s) = {}
        BY <1>0 DEF PermitInv, PermitsConserved, Holders
      <4>1. CASE s = o
        <5>1. signal'[s] = signal[s] - 1 /\ Holders(s)' = Holders(o) \cup {current}
          BY <4>1, <2>1, <3>1, <1>0
        <5>. QED
          BY <4>0, <4>1, <5>1, <3>2, <3>3, <2>1
      <4>2. CASE s # o
        <5>1. signal'[s] = signal[s] /\ Holders(s)' = Holders(s)
          BY <4>2, <2>1, <3>1, <1>0
        <5>. QED
          BY <4>0, <5>1, <2>1
      <4>. QED
        BY <4>1, <4>2
    <3>5. PermitsConserved'
      BY <3>4 DEF PermitsConserved, Holders
    <3>. QED
      BY <2>2, <3>4, <3>5 DEF PermitInv
  <2>. QED
    BY <2>3, <2>4
<1>. QED
  BY <1>3, <1>4

\* KeReleaseSemaphore passes the permit to the first waiter, or back to the
\* signal state.
LEMMA PermitRelease ==
    ASSUME IInv, PermitInv, ReleaseReturns, ReleaseSemaphore(current)
    PROVE  PermitInv'
<1>0. /\ current \in Threads
      /\ pc \in [Threads -> PCs] /\ ret \in [Threads -> PassivePCs]
      /\ signal \in [Objects -> Int] /\ waiters \in [Objects -> Seq(Threads)]
      /\ holds \in [Threads -> SUBSET Guarding]
      /\ Guarding \subseteq Objects /\ Semaphores \subseteq Objects /\ ArgFits(current)
  BY PlaceFacts DEF Objects
<1>1. PICK o \in Objects :
        /\ o = arg[current] /\ pc[current] = "ReleaseSemaphore"
        /\ pc' = [pc EXCEPT ![current] = "Unlock"]
        /\ UNCHANGED <<ret, arg>>
        /\ holds' = IF o \in Guarding THEN PassPermit(current, o) ELSE holds
        /\ KiDHeaderRelease(o, FALSE)
  BY <1>0 DEF ReleaseSemaphore, At, ArgFits, Busy, Goto
<1>2. /\ waiters[o] # <<>> =>
            /\ waiters' = [waiters EXCEPT ![o] = Tail(waiters[o])]
            /\ signal' = [signal EXCEPT ![o] = signal[o]]
      /\ waiters[o] = <<>> =>
            waiters' = waiters /\ signal' = [signal EXCEPT ![o] = @ + 1]
  BY <1>1 DEF KiDHeaderRelease, OtherWaiters, HandedOver
<1>3. CASE o \notin Guarding
  <2>1. PermitsAlone
    BY <1>0, <1>1, <1>2, <1>3 DEF PermitsAlone
  <2>2. ASSUME NEW t \in Threads PROVE PermitFits(t)'
    BY <1>0, <1>1, <1>3, FitsSame DEF PermitInv, Busy
  <2>. QED
    BY <2>1, <2>2, PermitFrame
<1>4. CASE o \in Guarding
  <2>1. /\ current \in Holders(o) /\ IsFiniteSet(Holders(o))
        /\ Elems(waiters[o]) \cap Holders(o) = {}
        /\ signal[o] + Cardinality(Holders(o)) = Count[o] /\ Cardinality(Holders(o)) \in Nat
        /\ waiters[o] \in Seq(Threads) /\ signal[o] \in Int
    BY <1>0, <1>1, <1>4, FS_CardinalityType
       DEF PermitInv, PermitFits, PermitsConserved, Holders, Busy
  <2>2. /\ IsFiniteSet(Holders(o) \ {current})
        /\ Cardinality(Holders(o) \ {current}) = Cardinality(Holders(o)) - 1
    BY <2>1, FS_RemoveElement
  <2>3. \A s \in Guarding : s # o =>
            signal'[s] = signal[s] /\ waiters'[s] = waiters[s] /\ Holders(s)' = Holders(s)
    BY <1>0, <1>1, <1>2, <1>4 DEF Holders, PassPermit
  <2>4. PICK W : W = Elems(waiters[o]) \ Elems(waiters'[o])
    OBVIOUS
  <2>5. /\ Holders(o)' = (Holders(o) \ {current}) \cup W /\ current \notin W /\ W \subseteq Threads
        /\ \A t \in Threads \ {current} : holds[t] \subseteq holds'[t]
    <3>1. holds' = [u \in Threads |-> IF u \in W THEN holds[u] \cup {o}
                                     ELSE IF u = current THEN holds[u] \ {o} ELSE holds[u]]
      BY <1>1, <1>4, <2>4 DEF PassPermit
    <3>2. W \subseteq Threads /\ current \notin W
      BY <2>1, <2>4 DEF Elems
    <3>. QED
      BY <3>1, <3>2, <1>0 DEF Holders
  <2>6. ASSUME NEW t \in Threads PROVE PermitFits(t)'
    <3>1. CASE t = current
      <4>1. ret[t] = "run" /\ pc'[t] = "Unlock" /\ ret'[t] = "run"
        BY <3>1, <1>0, <1>1 DEF ReleaseReturns
      <4>. QED
        BY <4>1, FitsElsewhere DEF Busy
    <3>2. CASE t # current
      <4>1. /\ pc'[t] = pc[t] /\ ret'[t] = ret[t] /\ arg'[t] = arg[t]
            /\ holds[t] \subseteq holds'[t] /\ pc[t] # "Wait" /\ PermitFits(t)
        BY <3>2, <2>5, <1>0, <1>1, PlaceFacts DEF PermitInv
      <4>. QED
        BY <4>1 DEF PermitFits, Holders, Busy
    <3>. QED
      BY <3>1, <3>2
  <2>7. /\ signal'[o] + Cardinality(Holders(o)') = Count[o]
        /\ IsFiniteSet(Holders(o)') /\ Elems(waiters'[o]) \cap Holders(o)' = {}
    <3>1. CASE waiters[o] = <<>>
      <4>1. W = {} /\ signal'[o] = signal[o] + 1 /\ Elems(waiters'[o]) = {}
        BY <3>1, <2>4, <1>0, <1>2, EmptyElems
      <4>2. Holders(o)' = Holders(o) \ {current}
        BY <4>1, <2>5
      <4>. QED
        BY <4>1, <4>2, <2>1, <2>2
    <3>2. CASE waiters[o] # <<>>
      <4>1. waiters'[o] = Tail(waiters[o]) /\ signal'[o] = signal[o]
        BY <3>2, <1>0, <1>2
      <4>2. /\ Elems(waiters[o]) = Elems(Tail(waiters[o])) \cup {Head(waiters[o])}
            /\ Head(waiters[o]) \notin Elems(Tail(waiters[o]))
        BY <3>2, <2>1, TailElems DEF IInv, WaitListsExact
      <4>3. PICK h : h = Head(waiters[o])
        OBVIOUS
      <4>4. W = {h} /\ h \notin Holders(o)
        BY <4>1, <4>2, <4>3, <2>1, <2>4
      <4>5. /\ Holders(o)' = (Holders(o) \ {current}) \cup {h}
            /\ h \notin Holders(o) \ {current}
        BY <4>4, <2>5
      <4>6. /\ IsFiniteSet((Holders(o) \ {current}) \cup {h})
            /\ Cardinality((Holders(o) \ {current}) \cup {h})
                  = Cardinality(Holders(o) \ {current}) + 1
        BY <4>5, <2>2, FS_AddElement
      <4>7. Elems(waiters'[o]) \cap Holders(o)' = {}
        BY <4>1, <4>2, <4>3, <4>5, <2>1
      <4>. QED
        BY <4>1, <4>5, <4>6, <4>7, <2>1, <2>2
    <3>. QED
      BY <3>1, <3>2
  <2>8. ASSUME NEW s \in Guarding
        PROVE  /\ signal'[s] + Cardinality(Holders(s)') = Count[s]
               /\ IsFiniteSet(Holders(s)') /\ Elems(waiters'[s]) \cap Holders(s)' = {}
    <3>1. CASE s = o
      BY <3>1, <2>7
    <3>2. CASE s # o
      <4>1. /\ signal[s] + Cardinality(Holders(s)) = Count[s]
            /\ IsFiniteSet(Holders(s)) /\ Elems(waiters[s]) \cap Holders(s) = {}
        BY DEF PermitInv, PermitsConserved, Holders
      <4>. QED
        BY <3>2, <4>1, <2>3
    <3>. QED
      BY <3>1, <3>2
  <2>9. PermitsConserved'
    BY <2>8 DEF PermitsConserved, Holders
  <2>. QED
    BY <2>6, <2>8, <2>9 DEF PermitInv
<1>. QED
  BY <1>3, <1>4

LEMMA NextPermitInv == IInv /\ ReleaseReturns /\ PermitInv /\ [Next]_vars => PermitInv'
<1> SUFFICES ASSUME IInv, ReleaseReturns, PermitInv, [Next]_vars PROVE PermitInv'
  OBVIOUS
<1>1. CASE KernelStep(current)
  BY <1>1, PermitPlaces, PermitOthers, PermitAcquire, PermitRelease DEF KernelStep
<1>2. CASE ThreadCall(current)
  BY <1>2, PermitPlaces, PermitOthers DEF ThreadCall
<1>3. CASE KiThreadTimerISR \/ BugCheck \/ UNCHANGED vars
  BY <1>3, PermitPlaces
<1>. QED
  BY <1>1, <1>2, <1>3 DEF Next

LEMMA InitPermitInv == Init => PermitInv
<1> SUFFICES ASSUME Init PROVE PermitInv
  OBVIOUS
<1>1. \A t \in Threads : pc[t] \in {"run", "Unlock", "new"} /\ ret[t] = "run"
  BY DEF Init
<1>2. ASSUME NEW s \in Guarding
      PROVE  /\ signal[s] + Cardinality(Holders(s)) = Count[s]
             /\ IsFiniteSet(Holders(s)) /\ Elems(waiters[s]) \cap Holders(s) = {}
  <2>1. s \in Objects /\ s \in Semaphores /\ s \notin Mutants /\ Count[s] \in Nat
    BY ObjectAssumption DEF Objects
  <2>2. signal[s] = Count[s] /\ Holders(s) = {} /\ waiters[s] = <<>>
    <3>1. signal[s] = Count[s]
      BY <2>1 DEF Init, InitialSignal
    <3>2. \A t \in Threads : holds[t] = {}
      BY DEF Init
    <3>3. waiters[s] = <<>>
      BY <2>1 DEF Init
    <3>. QED
      BY <3>1, <3>2, <3>3 DEF Holders
  <2>. QED
    BY <2>1, <2>2, EmptyElems, FS_EmptySet
<1>3. PermitsConserved
  BY <1>2 DEF PermitsConserved, Holders
<1>. QED
  BY <1>1, <1>2, <1>3 DEF PermitInv, PermitFits, Busy

\* A permit of a guarding semaphore is in its signal state or with exactly one
\* holder, whatever blocks, is handed over or preempted.
THEOREM PermitsAreConserved == Spec => []PermitsConserved
<1>1. Init => IInv /\ ReleaseReturns /\ PermitInv
  BY InitIInv, InitMutantInv, InitPermitInv
<1>2. IInv /\ ReleaseReturns /\ PermitInv /\ [Next]_vars => (IInv /\ ReleaseReturns /\ PermitInv)'
  BY NextIInv, NextReleaseReturns, NextPermitInv
<1>3. PermitInv => PermitsConserved
  BY DEF PermitInv
<1>. QED
  BY <1>1, <1>2, <1>3, PTL DEF Spec
=============================================================================
