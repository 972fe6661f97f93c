---------------------------- MODULE KeDispatcher ----------------------------
(***************************************************************************)
(* The thread dispatcher of the kernel (kern/ke): the scheduler and its    *)
(* ready lists, the dispatcher-database lock that one thread takes and the *)
(* next one releases, the wait lists of semaphores, mutants, events and    *)
(* threads, the timer tick with its scheduler DPC, and the exit and        *)
(* reaping of threads.                                                     *)
(*                                                                         *)
(* There is one processor.  At PASSIVE_LEVEL a tick can switch threads     *)
(* between any two steps; at DISPATCH_LEVEL a tick only counts the quantum *)
(* down and queues the scheduler DPC, which runs when the IRQL is lowered. *)
(* Every locked section is therefore three steps: take the lock, do the    *)
(* body, release the lock; a tick may fall between any two of them.        *)
(***************************************************************************)
EXTENDS Integers, Sequences, FiniteSets

CONSTANTS
    Threads,               \* every ETHREAD that can exist
    Idle,                  \* the idle thread (KiSetIdleThread)
    Boot,                  \* the first system thread
    Priority,              \* Tcb->Priority of each thread
    QuantumReset,          \* DEFAULT_PROCESS_QUANTUM
    Semaphores,            \* KSEMAPHORE objects
    Guarding,              \* the semaphores released only by a thread that acquired them
    Count, Limit,          \* the arguments of KeInitializeSemaphore
    Mutants,               \* KMUTANT objects
    NotificationEvents,    \* KEVENT objects of type EventNotificationObject
    SynchronizationEvents, \* KEVENT objects of type EventSynchronizationObject
    HeaderArgs,            \* what PspAllocateThread may pass as <<Type, SignalState>>
    MaxSignal,             \* MAX_DISPATCH_SIGNAL_STATE
    None                   \* a null pointer

\* ke.h, _PROCESS_PRIORITY: nothing runs at 0.
PROCESS_PRIORITY_IDLE == 1
PROCESS_PRIORITY_NORMAL == 3
PROCESS_PRIORITY_MAX == 6
Priorities == PROCESS_PRIORITY_IDLE .. PROCESS_PRIORITY_MAX

Workers == Threads \ {Idle, Boot}
Events == NotificationEvents \cup SynchronizationEvents
Objects == Workers \cup Semaphores \cup Mutants \cup Events

ASSUME ThreadAssumption ==
    /\ Idle \in Threads /\ Boot \in Threads /\ Idle # Boot
    /\ None \notin Threads \cup Objects
    /\ Priority \in [Threads -> Priorities]
    /\ Priority[Idle] = PROCESS_PRIORITY_IDLE
    /\ QuantumReset \in Nat \ {0}

ASSUME ObjectAssumption ==
    /\ Workers \cap (Semaphores \cup Mutants \cup Events) = {}
    /\ Semaphores \cap (Mutants \cup Events) = {}
    /\ Mutants \cap Events = {}
    /\ NotificationEvents \cap SynchronizationEvents = {}
    /\ Guarding \subseteq Semaphores
    /\ Count \in [Semaphores -> Nat] /\ Limit \in [Semaphores -> Nat]
    /\ \A s \in Semaphores : Count[s] <= Limit[s]
    /\ MaxSignal \in Nat \ {0}
    /\ HeaderArgs # {}
    /\ HeaderArgs \subseteq {"ThreadObject", "other"} \X Int

\* A worker is known to its creator only after PspCreateThread, so a header of
\* a thread that was never created is never waited on.

VARIABLES
    current,    \* KeGetCurrentThread()
    state,      \* Tcb->State
    quantum,    \* Tcb->Quantum, which the code only compares with 0: 0 stands for <= 0
    ready,      \* the scheduler list of each priority
    exitList,   \* ExitThreadList
    reaped,     \* threads the reaper has dereferenced
    irql,       \* the processor's IRQL
    dpcQueued,  \* the scheduler DPC is in the processor's DPC list
    ddb,        \* the thread that acquired DispatcherDataBaseLock, or None
    pc,         \* where each thread is
    ret,        \* where a thread continues when KeLowerIrql reaches PASSIVE_LEVEL
    arg,        \* the object or thread the operation in progress is about
    waitIrql,   \* OldIrql of the locked section in progress; Tcb->WaitIrql in Schedule
    waiters,    \* Header.WaitListHead of each object
    signal,     \* Header.SignalState of each object
    htype,      \* Header.Type of a worker's header
    owner,      \* Mutant->OwnerThread
    holds,      \* the guarding semaphores each thread has acquired and not released
    bug         \* "none", or why KeBugCheck was called

schedVars == <<current, state, quantum, ready, exitList, reaped>>
cpuVars == <<irql, dpcQueued, ddb>>
threadVars == <<pc, ret, arg, waitIrql>>
objectVars == <<waiters, signal, htype, owner, holds>>
vars == <<schedVars, cpuVars, threadVars, objectVars, bug>>

States == {"initialized", "ready", "running", "waiting", "terminated"}
Irqls == {"PASSIVE", "DISPATCH"}

\* Where a thread can be at PASSIVE_LEVEL: its own code, or inside a kernel
\* routine before the routine raises the IRQL.
PassivePCs == {"run", "KeReleaseSemaphore", "LimitAssert", "KeReleaseMutant",
               "PsExitThread", "Schedule", "Reap"}

\* Inside a section that holds the dispatcher-database lock.
LockedPCs == {"Wait", "ReleaseSemaphore", "ReleaseMutant", "SetEvent",
              "ReleaseAll", "CreateThread", "Scheduling", "Unlock"}

\* At DISPATCH_LEVEL without that lock.
DispatchPCs == {"Reaping", "Drain", "Lower"}

PCs == PassivePCs \cup LockedPCs \cup DispatchPCs \cup {"new", "gone"}

Elems(s) == {s[i] : i \in 1 .. Len(s)}

\* The signal state KeInitializeSemaphore, KeInitializeMutant (not owned) and
\* KeInitializeEvent start with.
InitialSignal(o) ==
    CASE o \in Semaphores -> Count[o]
      [] o \in Mutants -> 1
      [] OTHER -> 0

-----------------------------------------------------------------------------
(* The state in which the boot path leaves the dispatcher: PspCreateThread  *)
(* put the idle thread in the list of its process's base priority before    *)
(* PsSetTheadPriority gave it the idle priority, and the first system       *)
(* thread was never given a quantum.                                        *)
Init ==
    /\ current = Boot
    /\ state = [t \in Threads |-> CASE t = Boot -> "running"
                                    [] t = Idle -> "ready"
                                    [] OTHER -> "initialized"]
    /\ quantum = [t \in Threads |-> IF t = Boot THEN 0 ELSE QuantumReset]
    /\ ready = [p \in Priorities |-> IF p = PROCESS_PRIORITY_NORMAL THEN <<Idle>> ELSE <<>>]
    /\ exitList = <<>>
    /\ reaped = {}
    /\ irql = "PASSIVE"
    /\ dpcQueued = FALSE
    /\ ddb = None
    /\ pc = [t \in Threads |-> CASE t = Boot -> "run"
                                 [] t = Idle -> "Unlock"
                                 [] OTHER -> "new"]
    /\ ret = [t \in Threads |-> "run"]
    /\ arg = [t \in Threads |-> None]
    /\ waitIrql = [t \in Threads |-> "PASSIVE"]
    /\ waiters = [o \in Objects |-> <<>>]
    /\ signal = [o \in Objects |-> InitialSignal(o)]
    /\ htype = [t \in Workers |-> "other"]
    /\ owner = [m \in Mutants |-> None]
    /\ holds = [t \in Threads |-> {}]
    /\ bug = "none"

-----------------------------------------------------------------------------
(* Ready lists. *)

\* The lists KiSelectNextThread looks into.
Candidates(floor) == {p \in Priorities : p >= floor /\ ready[p] # <<>>}

\* The list it takes a thread from, and the thread; with a fault, the loop runs
\* from the lowest priority up.
LowestList(floor) ==
    CHOOSE p \in Candidates(floor) : \A q \in Candidates(floor) : p <= q
SelectedList(floor) ==
    CHOOSE p \in Candidates(floor) : \A q \in Candidates(floor) : q <= p
KiSelectNextThread(floor) ==
    IF Candidates(floor) = {} THEN None ELSE Head(ready[SelectedList(floor)])

\* LIST_REMOVE_HEAD of that list.
RemoveSelected(floor) == [ready EXCEPT ![SelectedList(floor)] = Tail(@)]

\* The time slice KiReadyThread assigns.
FullQuantum == QuantumReset

\* The states KiReadyThread accepts.
MayBecomeReady(t) == state[t] \in {"initialized", "waiting", "running"}

\* KiReadyThread: READY, a full quantum, the tail of the list of its priority.
KiReadyThread(t) ==
    /\ state' = [state EXCEPT ![t] = "ready"]
    /\ quantum' = [quantum EXCEPT ![t] = FullQuantum]
    /\ ready' = [ready EXCEPT ![Priority[t]] = Append(@, t)]

Goto(t, where) == pc' = [pc EXCEPT ![t] = where]

-----------------------------------------------------------------------------
(* Assertions.  A failed ASSERT and a KeBugCheck stop the machine.  Fault    *)
(* says which one the current thread is about to meet: "internal" for the    *)
(* dispatcher's own consistency checks, a name for the ones a caller can     *)
(* provoke.                                                                  *)

\* KiReadyThread, KiSwapThread, KiBlockThread and Schedule check the states of
\* the threads they move, and that the current thread itself took the lock
\* (stated here for the whole section); KeAcquireSpinLock hangs on a lock that
\* is held, KeReleaseSpinLock stops on one that is not.
InternalFault(t) ==
    \/ /\ pc[t] \in {"KeReleaseSemaphore", "KeReleaseMutant", "PsExitThread", "Schedule"}
       /\ ddb # None
    \/ /\ pc[t] = "Drain" /\ dpcQueued
       /\ ddb # None
    \/ /\ pc[t] = "Unlock"
       /\ ddb = None
    \/ /\ pc[t] \in LockedPCs \ {"Unlock"}
       /\ ddb # t
    \/ /\ pc[t] \in {"ReleaseSemaphore", "ReleaseMutant", "SetEvent", "ReleaseAll"}
       /\ waiters[arg[t]] # <<>>
       /\ signal[arg[t]] # 0 \/ ~MayBecomeReady(Head(waiters[arg[t]]))
    \/ /\ pc[t] = "CreateThread"
       /\ ~MayBecomeReady(arg[t])
    \/ /\ pc[t] = "Wait" /\ signal[arg[t]] = 0
       /\ \/ state[t] # "running"
          \/ KiSelectNextThread(PROCESS_PRIORITY_IDLE) = None
          \/ state[KiSelectNextThread(PROCESS_PRIORITY_IDLE)] # "ready"
    \/ /\ pc[t] = "Scheduling" /\ state[t] = "terminated"
       /\ \/ KiSelectNextThread(PROCESS_PRIORITY_IDLE) \in {None, t}
          \/ state[KiSelectNextThread(PROCESS_PRIORITY_IDLE)] # "ready"
    \/ /\ pc[t] = "Scheduling" /\ state[t] # "terminated"
       /\ KiSelectNextThread(Priority[t]) # None
       /\ \/ KiSelectNextThread(Priority[t]) = t
          \/ state[KiSelectNextThread(Priority[t])] # "ready"
          \/ ~MayBecomeReady(t)
    \/ /\ pc[t] = "Reaping" /\ exitList # <<>>
       /\ state[Head(exitList)] \in {"running", "ready"}

\* KeWaitForSingleObject stops on a mutant that is taken, on a type it does not
\* know and on a negative count; the releasing routines stop at MaxSignal, and
\* KeReleaseSemaphore when it found the semaphore at its limit.
CallerFault(t) ==
    CASE pc[t] = "Wait" /\ arg[t] \in Mutants /\ (owner[arg[t]] = t \/ signal[arg[t]] = 0) -> "mutant"
      [] pc[t] = "Wait" /\ arg[t] \in Workers /\ (htype[arg[t]] = "other" \/ signal[arg[t]] < 0) -> "header"
      [] /\ pc[t] \in {"ReleaseSemaphore", "ReleaseMutant", "SetEvent", "ReleaseAll"}
         /\ signal[arg[t]] >= MaxSignal -> "signal"
      [] pc[t] = "LimitAssert" -> "limit"
      [] OTHER -> "none"

Fault(t) == IF CallerFault(t) # "none" THEN CallerFault(t)
            ELSE IF InternalFault(t) THEN "internal" ELSE "none"

BugCheck ==
    /\ Fault(current) # "none"
    /\ bug' = Fault(current)
    /\ UNCHANGED <<schedVars, cpuVars, threadVars, objectVars>>

\* The current thread is at one of the places W and no assertion fails there.
At(t, W) == t = current /\ pc[t] \in W /\ Fault(t) = "none"

-----------------------------------------------------------------------------
(* Locks and IRQL. *)

\* The level of a locked section; with a fault, the level of the caller.
NotRaised == irql
RaisedIrql == "DISPATCH"

\* KiLockDispatcherDataBase: raise to DISPATCH_LEVEL, remember the old level,
\* take the lock.  cont is where the thread continues at PASSIVE_LEVEL after
\* the section.
KiLockDispatcherDataBase(t, section, cont) ==
    /\ ddb = None
    /\ ddb' = t
    /\ irql' = RaisedIrql
    /\ waitIrql' = [waitIrql EXCEPT ![t] = irql]
    /\ Goto(t, section)
    /\ ret' = [ret EXCEPT ![t] = cont]
    /\ UNCHANGED dpcQueued

\* KiUnLockDispatcherDataBase: release and lower.  Lowering below
\* DISPATCH_LEVEL drains the DPC list first.  Schedule entered from the
\* scheduler DPC stays at DISPATCH_LEVEL and goes on to the exit list.
KiUnLockDispatcherDataBase(t) ==
    /\ At(t, {"Unlock"})
    /\ ddb' = None
    /\ Goto(t, IF waitIrql[t] = "DISPATCH" THEN "Reaping" ELSE "Drain")
    /\ waitIrql' = [waitIrql EXCEPT ![t] = "PASSIVE"]
    /\ UNCHANGED <<schedVars, irql, dpcQueued, ret, arg, objectVars, bug>>

\* KiProcessDpcQueue inside KeLowerIrql: remove the scheduler DPC and run
\* Schedule at DISPATCH_LEVEL, until the list is empty.
KiProcessDpcQueue(t) ==
    /\ At(t, {"Drain"})
    /\ IF dpcQueued
       THEN /\ dpcQueued' = FALSE
            /\ ddb' = t
            /\ waitIrql' = [waitIrql EXCEPT ![t] = irql]
            /\ Goto(t, "Scheduling")
       ELSE /\ Goto(t, "Lower")
            /\ UNCHANGED <<dpcQueued, ddb, waitIrql>>
    /\ UNCHANGED <<schedVars, irql, ret, arg, objectVars, bug>>

\* The end of KeLowerIrql.  A DPC queued after the list was found empty stays.
\* The locals of a routine are gone when it returns.
KeLowerIrql(t) ==
    /\ At(t, {"Lower"})
    /\ irql' = "PASSIVE"
    /\ Goto(t, ret[t])
    /\ arg' = IF ret[t] = "run" THEN [arg EXCEPT ![t] = None] ELSE arg
    /\ ret' = [ret EXCEPT ![t] = "run"]
    /\ UNCHANGED <<schedVars, dpcQueued, ddb, waitIrql, objectVars, bug>>

\* A quantum of 0 or less queues the DPC; with a fault, only one that reaches 0.
ReachesZero(left) == left = 0 /\ quantum[current] > 0
QuantumExpired(left) == left = 0

\* KeLowerIrql drains the DPC list when it lowers below DISPATCH_LEVEL; with a
\* fault, at the end of every interrupt.
AlwaysDrains == TRUE
ReturnDrains == irql = "PASSIVE"

\* TimerISRoutine, KiThreadTimerISR and the return from the interrupt, which
\* drains the DPC list when the interrupted code ran below DISPATCH_LEVEL.
KiThreadTimerISR ==
    LET left == IF quantum[current] > 0 THEN quantum[current] - 1 ELSE 0 IN
    /\ quantum' = [quantum EXCEPT ![current] = left]
    /\ dpcQueued' = (dpcQueued \/ QuantumExpired(left))
    /\ IF ReturnDrains
       THEN /\ irql' = "DISPATCH"
            /\ Goto(current, "Drain")
            /\ ret' = [ret EXCEPT ![current] = pc[current]]
       ELSE UNCHANGED <<irql, pc, ret>>
    /\ UNCHANGED <<current, state, ready, exitList, reaped, ddb, arg, waitIrql, objectVars, bug>>

-----------------------------------------------------------------------------
(* Switching threads. *)

\* KiSwapThread: next becomes the running thread.  It continues where it was
\* switched out, or in KiStartThread: both release the lock this thread took.
KiSwapThread(next) == current' = next

\* The locked part of Schedule.
Schedule(t) ==
    /\ At(t, {"Scheduling"})
    /\ \/ /\ state[t] = "terminated"
          /\ LET next == KiSelectNextThread(PROCESS_PRIORITY_IDLE) IN
             /\ ready' = RemoveSelected(PROCESS_PRIORITY_IDLE)
             /\ exitList' = Append(exitList, t)
             /\ state' = [state EXCEPT ![next] = "running"]
             /\ KiSwapThread(next)
          /\ Goto(t, "gone")
          /\ UNCHANGED quantum
       \/ /\ state[t] # "terminated"
          /\ KiSelectNextThread(Priority[t]) # None
          /\ LET next == KiSelectNextThread(Priority[t]) IN
             /\ ready' = [RemoveSelected(Priority[t]) EXCEPT ![Priority[t]] = Append(@, t)]
             /\ state' = [state EXCEPT ![t] = "ready", ![next] = "running"]
             /\ quantum' = [quantum EXCEPT ![t] = FullQuantum]
             /\ KiSwapThread(next)
          /\ Goto(t, "Unlock")
          /\ UNCHANGED exitList
       \/ /\ state[t] # "terminated"
          /\ KiSelectNextThread(Priority[t]) = None
          /\ Goto(t, "Unlock")
          /\ UNCHANGED <<current, state, quantum, ready, exitList>>
    /\ UNCHANGED <<reaped, cpuVars, ret, arg, waitIrql, objectVars, bug>>

\* Schedule called at PASSIVE_LEVEL: by an exiting thread, or by the loop of
\* KeDelayExecutionThread.  Its tail reaps at PASSIVE_LEVEL.
CallSchedule(t) ==
    /\ At(t, {"Schedule"})
    /\ KiLockDispatcherDataBase(t, "Scheduling", "Reap")
    /\ UNCHANGED <<schedVars, arg, objectVars, bug>>

\* The tail of Schedule: raise to DISPATCH_LEVEL for ExitThreadLock ...
AcquireExitThreadLock(t) ==
    /\ At(t, {"Reap"})
    /\ irql' = "DISPATCH"
    /\ ret' = [ret EXCEPT ![t] = "run"]
    /\ Goto(t, "Reaping")
    /\ UNCHANGED <<schedVars, dpcQueued, ddb, arg, waitIrql, objectVars, bug>>

\* LIST_REMOVE_HEAD of the exit list; with a fault, LIST_FIRST.
WholeExitList == exitList
RestOfExitList == Tail(exitList)

\* ... and PsExitThread for each exited thread, which only dereferences it
\* because it is TERMINATED already.
ReapExitedThreads(t) ==
    /\ At(t, {"Reaping"})
    /\ IF exitList # <<>>
       THEN /\ reaped' = reaped \cup {Head(exitList)}
            /\ exitList' = RestOfExitList
            /\ UNCHANGED pc
       ELSE /\ Goto(t, "Drain")
            /\ UNCHANGED <<exitList, reaped>>
    /\ UNCHANGED <<current, state, quantum, ready, cpuVars, ret, arg, waitIrql, objectVars, bug>>

-----------------------------------------------------------------------------
(* Waiting and releasing. *)

\* KiBlockThread marks the thread.
MarkedWaiting(t) == [state EXCEPT ![t] = "waiting"]

\* LIST_INSERT_TAIL on the wait list; with a fault, LIST_INSERT_HEAD.
EnqueuedFirst(o, t) == <<t>> \o waiters[o]
EnqueuedLast(o, t) == Append(waiters[o], t)

\* KiDHeaderAcquire: block behind the other waiters, or take one from the
\* signal state, whatever the type of the object.
KiDHeaderAcquire(t) ==
    /\ At(t, {"Wait"})
    /\ \/ /\ signal[arg[t]] = 0
          /\ waiters' = [waiters EXCEPT ![arg[t]] = EnqueuedLast(arg[t], t)]
          /\ LET next == KiSelectNextThread(PROCESS_PRIORITY_IDLE) IN
             /\ ready' = RemoveSelected(PROCESS_PRIORITY_IDLE)
             /\ state' = [MarkedWaiting(t) EXCEPT ![next] = "running"]
             /\ KiSwapThread(next)
          /\ UNCHANGED <<signal, owner, holds>>
       \/ /\ signal[arg[t]] # 0
          /\ signal' = [signal EXCEPT ![arg[t]] = @ - 1]
          /\ owner' = IF arg[t] \in Mutants THEN [owner EXCEPT ![arg[t]] = t] ELSE owner
          /\ holds' = IF arg[t] \in Guarding THEN [holds EXCEPT ![t] = @ \cup {arg[t]}] ELSE holds
          /\ UNCHANGED <<current, state, ready, waiters>>
    /\ Goto(t, "Unlock")
    /\ UNCHANGED <<quantum, exitList, reaped, cpuVars, ret, arg, waitIrql, htype, bug>>

\* LIST_REMOVE_HEAD of the wait list; with a fault, the block stays linked.
KeptWaiters(o) == waiters[o]
OtherWaiters(o) == Tail(waiters[o])

\* The signal state is left alone when a waiter gets the object; with a fault,
\* it is incremented all the same.
SignaledToo(o) == signal[o] + 1
HandedOver(o) == signal[o]

\* KiDHeaderRelease: hand over to the first waiter, or add to the signal state.
\* zero is TRUE in KeSetEvent, which then exchanges the signal state with 0.
KiDHeaderRelease(o, zero) ==
    IF waiters[o] # <<>>
    THEN /\ KiReadyThread(Head(waiters[o]))
         /\ waiters' = [waiters EXCEPT ![o] = OtherWaiters(o)]
         /\ signal' = [signal EXCEPT ![o] = IF zero THEN 0 ELSE HandedOver(o)]
    ELSE /\ signal' = [signal EXCEPT ![o] = IF zero THEN 0 ELSE @ + 1]
         /\ UNCHANGED <<state, quantum, ready, waiters>>

\* The permit of a guarding semaphore passes from the releasing thread to the
\* waiter that was taken off the list, if there is one ("we can take it as this
\* Thread has acquired the lock").
PassPermit(t, s) ==
    [u \in Threads |->
        IF u \in Elems(waiters[s]) \ Elems(waiters'[s]) THEN holds[u] \cup {s}
        ELSE IF u = t THEN holds[u] \ {s} ELSE holds[u]]

\* The locked parts of KeReleaseSemaphore, KeReleaseMutant and KeSetEvent.
ReleaseSemaphore(t) ==
    /\ At(t, {"ReleaseSemaphore"})
    /\ KiDHeaderRelease(arg[t], FALSE)
    /\ holds' = IF arg[t] \in Guarding THEN PassPermit(t, arg[t]) ELSE holds
    /\ Goto(t, "Unlock")
    /\ UNCHANGED <<current, exitList, reaped, cpuVars, ret, arg, waitIrql, htype, owner, bug>>

ReleaseMutant(t) ==
    /\ At(t, {"ReleaseMutant"})
    /\ KiDHeaderRelease(arg[t], FALSE)
    /\ Goto(t, "Unlock")
    /\ UNCHANGED <<current, exitList, reaped, cpuVars, ret, arg, waitIrql, htype, owner, holds, bug>>

SetEvent(t) ==
    /\ At(t, {"SetEvent"})
    /\ KiDHeaderRelease(arg[t], TRUE)
    /\ Goto(t, "Unlock")
    /\ UNCHANGED <<current, exitList, reaped, cpuVars, ret, arg, waitIrql, htype, owner, holds, bug>>

\* One turn of the loop of KiDHeaderReleaseAll, or its end.  A thread's header
\* is left at 1; KeSetEvent exchanges a notification event's with 0.
KiDHeaderReleaseAll(t) ==
    /\ At(t, {"ReleaseAll"})
    /\ IF waiters[arg[t]] # <<>>
       THEN /\ KiReadyThread(Head(waiters[arg[t]]))
            /\ waiters' = [waiters EXCEPT ![arg[t]] = OtherWaiters(arg[t])]
            /\ UNCHANGED <<signal, pc>>
       ELSE /\ signal' = [signal EXCEPT ![arg[t]] = IF arg[t] \in Events THEN 0 ELSE 1]
            /\ Goto(t, "Unlock")
            /\ UNCHANGED <<state, quantum, ready, waiters>>
    /\ UNCHANGED <<current, exitList, reaped, cpuVars, ret, arg, waitIrql, htype, owner, holds, bug>>

\* The locked part of PspCreateThread, with the header PspAllocateThread left.
CreateThread(t) ==
    /\ At(t, {"CreateThread"})
    /\ KiReadyThread(arg[t])
    /\ pc' = [pc EXCEPT ![t] = "Unlock", ![arg[t]] = "Unlock"]
    /\ \E h \in HeaderArgs :
          /\ htype' = [htype EXCEPT ![arg[t]] = h[1]]
          /\ signal' = [signal EXCEPT ![arg[t]] = h[2]]
    /\ UNCHANGED <<current, exitList, reaped, cpuVars, ret, arg, waitIrql, waiters, owner, holds, bug>>

-----------------------------------------------------------------------------
(* Calls a thread makes from its own code.  The idle thread makes none.     *)

\* A thread in its own code; with a fault, the idle thread calls the kernel too.
IdleCallsToo(t) == At(t, {"run"}) /\ irql = "PASSIVE"
Calls(t) == t # Idle /\ At(t, {"run"}) /\ irql = "PASSIVE"

\* KeWaitForSingleObject.  A thread waits for a worker that was created, and
\* not again for a guarding semaphore it holds.
KeWaitForSingleObject(t, o) ==
    /\ Calls(t)
    /\ o \in Workers => state[o] # "initialized" /\ o # t
    /\ o \notin holds[t]
    /\ o \in Mutants => owner[o] # t
    /\ arg' = [arg EXCEPT ![t] = o]
    /\ KiLockDispatcherDataBase(t, "Wait", "run")
    /\ UNCHANGED <<schedVars, objectVars, bug>>

\* KeReleaseSemaphore: the limit is checked before the lock is taken.
KeReleaseSemaphore(t, s) ==
    /\ Calls(t)
    /\ s \in Guarding => s \in holds[t]
    /\ arg' = [arg EXCEPT ![t] = s]
    /\ Goto(t, IF signal[s] < Limit[s] THEN "KeReleaseSemaphore" ELSE "LimitAssert")
    /\ UNCHANGED <<schedVars, cpuVars, ret, waitIrql, objectVars, bug>>

LockForReleaseSemaphore(t) ==
    /\ At(t, {"KeReleaseSemaphore"})
    /\ KiLockDispatcherDataBase(t, "ReleaseSemaphore", "run")
    /\ UNCHANGED <<schedVars, arg, objectVars, bug>>

\* What KeReleaseMutant stores in OwnerThread; with a fault, nothing new.
KeptOwner(t) == t
NewOwner(t) == None

\* KeReleaseMutant: the owner is cleared before the lock is taken.
KeReleaseMutant(t, m) ==
    /\ Calls(t)
    /\ owner[m] = t
    /\ owner' = [owner EXCEPT ![m] = NewOwner(t)]
    /\ arg' = [arg EXCEPT ![t] = m]
    /\ Goto(t, "KeReleaseMutant")
    /\ UNCHANGED <<schedVars, cpuVars, ret, waitIrql, waiters, signal, htype, holds, bug>>

LockForReleaseMutant(t) ==
    /\ At(t, {"KeReleaseMutant"})
    /\ KiLockDispatcherDataBase(t, "ReleaseMutant", "run")
    /\ UNCHANGED <<schedVars, arg, objectVars, bug>>

KeSetEvent(t, e) ==
    /\ Calls(t)
    /\ arg' = [arg EXCEPT ![t] = e]
    /\ KiLockDispatcherDataBase(t, IF e \in NotificationEvents THEN "ReleaseAll" ELSE "SetEvent", "run")
    /\ UNCHANGED <<schedVars, objectVars, bug>>

\* KeClearEvent and KeResetEvent store 0 without the lock.
KeResetEvent(t, e) ==
    /\ Calls(t)
    /\ signal' = [signal EXCEPT ![e] = 0]
    /\ UNCHANGED <<schedVars, cpuVars, threadVars, waiters, htype, owner, holds, bug>>

PspCreateThread(t, u) ==
    /\ Calls(t)
    /\ state[u] = "initialized"
    /\ arg' = [arg EXCEPT ![t] = u]
    /\ KiLockDispatcherDataBase(t, "CreateThread", "run")
    /\ UNCHANGED <<schedVars, objectVars, bug>>

\* PsExitThread of the calling thread: TERMINATED first, then the lock.
PsExitThread(t) ==
    /\ Calls(t)
    /\ t \in Workers
    /\ state[t] = "running"
    /\ state' = [state EXCEPT ![t] = "terminated"]
    /\ Goto(t, "PsExitThread")
    /\ UNCHANGED <<current, quantum, ready, exitList, reaped, cpuVars, ret, arg, waitIrql, objectVars, bug>>

LockForExit(t) ==
    /\ At(t, {"PsExitThread"})
    /\ arg' = [arg EXCEPT ![t] = t]
    /\ KiLockDispatcherDataBase(t, "ReleaseAll", "Schedule")
    /\ UNCHANGED <<schedVars, objectVars, bug>>

KeDelayExecutionThread(t) ==
    /\ Calls(t)
    /\ Goto(t, "Schedule")
    /\ UNCHANGED <<schedVars, cpuVars, ret, arg, waitIrql, objectVars, bug>>

-----------------------------------------------------------------------------
\* What the current thread does next inside the kernel.
KernelStep(t) ==
    \/ KiUnLockDispatcherDataBase(t) \/ KiProcessDpcQueue(t) \/ KeLowerIrql(t)
    \/ Schedule(t) \/ CallSchedule(t) \/ AcquireExitThreadLock(t) \/ ReapExitedThreads(t)
    \/ KiDHeaderAcquire(t) \/ ReleaseSemaphore(t) \/ ReleaseMutant(t) \/ SetEvent(t)
    \/ KiDHeaderReleaseAll(t) \/ CreateThread(t)
    \/ LockForReleaseSemaphore(t) \/ LockForReleaseMutant(t) \/ LockForExit(t)

\* What its own code may ask for.
ThreadCall(t) ==
    \/ \E o \in Objects : KeWaitForSingleObject(t, o)
    \/ \E s \in Semaphores : KeReleaseSemaphore(t, s)
    \/ \E m \in Mutants : KeReleaseMutant(t, m)
    \/ \E e \in Events : KeSetEvent(t, e) \/ KeResetEvent(t, e)
    \/ \E u \in Workers : PspCreateThread(t, u)
    \/ PsExitThread(t)
    \/ KeDelayExecutionThread(t)

Next ==
    /\ bug = "none"
    /\ \/ KernelStep(current)
       \/ ThreadCall(current)
       \/ KiThreadTimerISR
       \/ BugCheck

Spec == Init /\ [][Next]_vars

\* The processor keeps executing kernel code, and the timer keeps ticking.
Fairness ==
    /\ WF_vars(bug = "none" /\ KernelStep(current))
    /\ WF_vars(bug = "none" /\ KiThreadTimerISR)

FairSpec == Spec /\ Fairness
-----------------------------------------------------------------------------
(* Properties. *)

\* Every variable has the type of the field or local it stands for.
TypeOK ==
    /\ current \in Threads
    /\ state \in [Threads -> States]
    /\ quantum \in [Threads -> 0 .. QuantumReset]
    /\ ready \in [Priorities -> Seq(Threads)]
    /\ exitList \in Seq(Threads)
    /\ reaped \subseteq Threads
    /\ irql \in Irqls
    /\ dpcQueued \in BOOLEAN
    /\ ddb \in Threads \cup {None}
    /\ pc \in [Threads -> PCs]
    /\ ret \in [Threads -> PassivePCs]
    /\ arg \in [Threads -> Objects \cup {None}]
    /\ waitIrql \in [Threads -> Irqls]
    /\ waiters \in [Objects -> Seq(Threads)]
    /\ signal \in [Objects -> Int]
    /\ htype \in [Workers -> {"ThreadObject", "other"}]
    /\ owner \in [Mutants -> Threads \cup {None}]
    /\ holds \in [Threads -> SUBSET Guarding]
    /\ bug \in {"none", "internal", "mutant", "header", "signal", "limit"}

NoDuplicates(s) == \A i, j \in 1 .. Len(s) : s[i] = s[j] => i = j

\* The threads that are in the ready lists are exactly the READY ones, each in
\* one list and once: KiReadyThread, KiSelectNextThread and KiSwapThread never
\* lose or double a thread, whoever calls them.
ReadyListsExact ==
    /\ \A t \in Threads : state[t] = "ready" <=> \E p \in Priorities : t \in Elems(ready[p])
    /\ \A p, q \in Priorities : p # q => Elems(ready[p]) \cap Elems(ready[q]) = {}
    /\ \A p \in Priorities : NoDuplicates(ready[p])

\* The threads in the wait lists are exactly the WAITING ones, each in the list
\* of one object and once, so that one release wakes one thread and every
\* blocked thread can be found by a release.
WaitListsExact ==
    /\ \A t \in Threads : state[t] = "waiting" <=> \E o \in Objects : t \in Elems(waiters[o])
    /\ \A o, r \in Objects : o # r => Elems(waiters[o]) \cap Elems(waiters[r]) = {}
    /\ \A o \in Objects : NoDuplicates(waiters[o])

\* A thread whose object the reaper dereferences (its kernel stack may be freed)
\* is off the processor and in no list: ExitThreadList holds each terminated
\* thread once, never the current one, never one that was reaped.
ReapedIsOffCpu ==
    /\ Elems(exitList) \cap reaped = {}
    /\ NoDuplicates(exitList)
    /\ \A t \in Elems(exitList) \cup reaped :
          t # current /\ state[t] = "terminated" /\ pc[t] = "gone"

\* The RUNNING thread is the current one, and a current thread that is not
\* RUNNING has terminated itself and not yet been switched away from.
OneRunning ==
    /\ \A t \in Threads : state[t] = "running" => t = current
    /\ state[current] \in {"running", "terminated"}

\* The dispatcher-database lock is held exactly while the current thread is
\* inside a locked section; the current thread took it itself, except at the end
\* of the section, where it may have just been switched to; the processor
\* is at PASSIVE_LEVEL exactly when the current thread is at a passive place;
\* every other thread is where KiSwapThread or its creation left it.
LockHandOver ==
    /\ ddb # None <=> pc[current] \in LockedPCs
    /\ pc[current] \in LockedPCs \ {"Unlock"} => ddb = current
    /\ irql = "PASSIVE" <=> pc[current] \in PassivePCs
    /\ \A t \in Threads \ {current} : pc[t] \in {"Unlock", "new", "gone"}

\* The idle thread is always there to be switched to, which is what the
\* ASSERT(NextThread != NULL) of KiBlockThread and Schedule relies on.
IdleDispatchable == state[Idle] \in {"ready", "running"}

\* No consistency check of the dispatcher ever fails: the bugchecks a run can
\* meet are the ones its callers provoke.
NoInternalBugCheck == bug # "internal"

\* A signalled object has no waiters ("If the signal state is not 0 The list
\* should be empty"): no thread sleeps on something it could have had.
NoWaiterOnSignaled == \A o \in Objects : waiters[o] # <<>> => signal[o] = 0

\* The permits of a guarding semaphore are neither lost nor minted by blocking,
\* hand-over and preemption.
PermitsConserved ==
    \A s \in Guarding : signal[s] + Cardinality({t \in Threads : s \in holds[t]}) = Count[s]

\* A guarding semaphore is acquired in the order of arrival ("We need to do this
\* to follow the FIFO order for the locks"): by a thread that finds no waiter, or
\* by the first waiter; and a thread that has to wait waits behind the others.
NoBarging ==
    [][\A s \in Guarding :
          /\ \A t \in Threads :
                s \in holds'[t] \ holds[t] => waiters[s] = <<>> \/ t = Head(waiters[s])
          /\ \/ waiters'[s] \in {waiters[s], Append(waiters[s], current)}
             \/ waiters[s] # <<>> /\ waiters'[s] = Tail(waiters[s])]_vars

\* A switch goes to the first thread of the highest list that has one, and a
\* thread that could go on running gives way only to a list of at least its own
\* priority.
HighestFirst ==
    [][current' # current =>
          \E p \in Priorities :
             /\ ready[p] # <<>> /\ current' = Head(ready[p])
             /\ \A q \in Priorities : ready[q] # <<>> => q <= p
             /\ state'[current] = "ready" => p >= Priority[current]]_vars

\* A thread that is ready at the normal priority is switched to eventually,
\* whatever the other threads do: nothing but the tick takes the processor from
\* a thread that never calls the kernel.
ReadyEventuallyRuns ==
    \A t \in Threads \ {Idle} : state[t] = "ready" ~> state[t] = "running"

\* A mutant's signal state, which changes under the lock, and its owner, which
\* KeReleaseMutant clears before the lock, never disagree for longer than one
\* release: a taken mutant has an owner or a thread that is releasing it.
Releasing(t, m) ==
    arg[t] = m /\ ("KeReleaseMutant" \in {pc[t], ret[t]} \/ pc[t] = "ReleaseMutant")
MutantConsistent ==
    \A m \in Mutants :
        signal[m] = 0 <=> owner[m] # None \/ \E t \in Threads : Releasing(t, m)

-----------------------------------------------------------------------------
(* What the safety properties rest on: where a thread can be, given its      *)
(* state, and what its locals then hold.                                     *)

\* The thread is at one of the places W, or was there when a tick came.
Busy(t, W) == pc[t] \in W \/ ret[t] \in W

\* The object of an operation is of the kind the operation is for.
ArgFits(t) ==
    /\ Busy(t, {"KeReleaseSemaphore", "ReleaseSemaphore"}) => arg[t] \in Semaphores
    /\ Busy(t, {"KeReleaseMutant", "ReleaseMutant"}) => arg[t] \in Mutants
    /\ pc[t] = "SetEvent" => arg[t] \in SynchronizationEvents
    /\ pc[t] = "ReleaseAll" => arg[t] \in NotificationEvents \cup ({t} \cap Workers)
    /\ pc[t] = "CreateThread" => arg[t] \in Workers /\ state[arg[t]] = "initialized"
    /\ pc[t] = "Wait" => arg[t] \in Objects /\ (arg[t] \in Workers => state[arg[t]] # "initialized")

\* An exiting thread is on its way from PsExitThread to Schedule and never
\* returns to the tail of Schedule or to its own code.
Exiting(t) ==
    \/ pc[t] \in {"PsExitThread", "Schedule", "Scheduling"}
    \/ /\ pc[t] \in {"ReleaseAll", "Unlock", "Drain", "Lower"}
       /\ ret[t] \in {"PsExitThread", "Schedule"}
       /\ pc[t] \in {"ReleaseAll", "Unlock"} => waitIrql[t] = "PASSIVE"

\* A thread that is not on the processor was switched out in KiSwapThread, has
\* not started, or will not run again.
SwitchedOut(t) ==
    /\ state[t] \in {"ready", "waiting"} => pc[t] = "Unlock"
    /\ state[t] = "initialized" => pc[t] = "new"
    /\ state[t] = "terminated" => pc[t] = "gone"

\* A terminated thread gets from PsExitThread to Schedule and nowhere else,
\* whatever tick or scheduler DPC comes between; the idle thread only ever
\* idles or is rescheduled; an object in use is of the kind its user takes it
\* for; and nobody waits for a thread that does not exist yet.
ControlConsistent ==
    /\ \A t \in Threads :
          /\ pc[t] \in PassivePCs => ret[t] = "run"
          /\ ArgFits(t)
          /\ Busy(t, {"PsExitThread"}) => t \in Workers
          /\ t # current => SwitchedOut(t)
    /\ pc[current] \notin {"new", "gone"}
    /\ state[current] = "terminated" => current \in Workers /\ Exiting(current)
    /\ pc[Idle] \in {"run", "Unlock", "Drain", "Lower", "Scheduling", "Reaping"}
    /\ ret[Idle] = "run"
    /\ \A u \in Workers : state[u] = "initialized" => waiters[u] = <<>>

\* The dispatcher is consistent between any two steps: one thread is RUNNING and
\* holds the dispatcher lock exactly in locked sections, the ready and wait lists
\* hold the READY and WAITING threads, nobody waits for what is signalled, some
\* thread can always be switched to, and no check of the dispatcher's own data
\* fails.  Each part needs the others to survive a step.
IInv ==
    /\ TypeOK
    /\ ReadyListsExact
    /\ WaitListsExact
    /\ NoWaiterOnSignaled
    /\ ReapedIsOffCpu
    /\ OneRunning
    /\ LockHandOver
    /\ IdleDispatchable
    /\ ControlConsistent
    /\ NoInternalBugCheck

-----------------------------------------------------------------------------
(* A statement of a comment that the code does not meet. *)

\* thread.c: "Mark the Thread as terminated and release anyone waiting for its
\* terminatrion": nobody is still waiting for a thread when it leaves the
\* processor for good.
ExitWakesWaiters ==
    [][\A t \in Workers : pc[t] # "gone" /\ pc'[t] = "gone" => waiters[t] = <<>>]_vars
=============================================================================
