----------------------------- MODULE PsProcess -----------------------------
(***************************************************************************)
(* The life of processes and their threads (kern/ps/process.c, thread.c):  *)
(* fork, exit, and the clean-up of an exited thread by whichever thread    *)
(* next comes out of Schedule, with what it drags along: the process of    *)
(* the thread, and the ancestors that only waited for that process.        *)
(*                                                                         *)
(* One processor.  At PASSIVE_LEVEL a thread can lose the processor        *)
(* between any two steps; at DISPATCH_LEVEL it cannot.  A user process has *)
(* one thread: no system call creates another.  Memory of a freed process  *)
(* or thread is used again for the next one.                               *)
(***************************************************************************)
EXTENDS Integers, FiniteSets, Sequences

CONSTANTS
    Processes,     \* memory for EPROCESS objects
    Threads,       \* memory for ETHREAD objects
    System,        \* PsInitialSystemProcess
    Boot, Idle,    \* its first thread, which no counter counts, and its idle thread
    EX_MAX_HANDLE, \* slots of PidTable
    NSystemPages,  \* system PTEs for kernel stacks, handle tables, page directories and bitmaps
    StackPages,    \* THREAD_STACK_SIZE
    None

ASSUME PsAssumption ==
    /\ System \in Processes
    /\ {Boot, Idle} \subseteq Threads /\ Boot # Idle
    /\ IsFiniteSet(Processes) /\ IsFiniteSet(Threads)
    /\ {EX_MAX_HANDLE, NSystemPages, StackPages} \subseteq Nat \ {0}
    /\ None \notin Processes \cup Threads

VARIABLES
    state,      \* pcb.State of a process; "none" while its memory is free
    refs,       \* RefCount of its object
    rundown,    \* RundownProtect
    active,     \* ActiveThreads
    flags,      \* its cleanup flags
    parent,     \* Parent
    pid,        \* UniqueProcessId
    space,      \* the processes with an address space
    list,       \* ThreadListHead: the threads in it
    count,      \* and its NumberOfElements
    PidTable,   \* the process in each slot, or None
    activeList, \* PsActiveProcessHead
    pages,      \* free system PTEs
    tstate,     \* State of a thread; "none" while its memory is free
    owner,      \* ThreadsProcess
    pc,         \* what the thread does next when it has the processor
    cameBy,     \* how it left the processor: "start" (never had it), "Schedule" or "wait"
    child,      \* its local NewProcess
    cpu,        \* the current thread
    ready,      \* the list of the ready threads
    lock,       \* the spin lock that keeps it at DISPATCH_LEVEL, or "none"
    exitList,   \* ExitThreadList
    drop,       \* the process whose rundown protection is being dropped, or None
    unwind,     \* the processes inside PspFreeProcess, innermost last
    dead,       \* history: the processes freed in the close that is going on
    stale,      \* history: how freed process memory has been used
    leaked,     \* history: system PTEs of freed processes, which nobody frees
    userStack,  \* the bits of the user stack in the bitmap of testprog.exe, which a fork shares
    closed,     \* history: a thread of testprog.exe or its descendants has been closed
    debug,      \* the kernel is built with DEBUG, as assert.h:23 says, and evaluates its ASSERTs
    bug         \* the ASSERT or KeBugCheck that stopped the machine, or "none"

processVars == <<state, refs, rundown, active, flags, parent, pid, space, list, count>>
tableVars == <<PidTable, activeList, pages>>
threadVars == <<tstate, owner, pc, cameBy, child>>
cpuVars == <<cpu, ready, lock, exitList>>
closeVars == <<drop, unwind, dead, leaked, userStack, closed, debug>>
vars == <<processVars, tableVars, threadVars, cpuVars, closeVars, stale, bug>>

Slots == 0 .. EX_MAX_HANDLE - 1
Flags == {"ALLOCATED", "INSERTED", "FIRST_THREAD_CREATED"}

\* PsInitPhase0, PsCreateSystemProcess, SyspCreateFirstSystemThread and
\* PsSystemProcessStart up to the creation of the first user process.
Init ==
    /\ state = [p \in Processes |-> IF p = System THEN "ACTIVE" ELSE "none"]
    /\ refs = [p \in Processes |-> IF p = System THEN 1 ELSE 0]
    /\ rundown = [p \in Processes |-> IF p = System THEN 1 ELSE 0]
    /\ active = [p \in Processes |-> IF p = System THEN 1 ELSE 0]
    /\ flags = [p \in Processes |-> {}]
    /\ parent = [p \in Processes |-> None]
    /\ pid = [p \in Processes |-> 0]
    /\ space = {System}
    /\ list = [p \in Processes |-> IF p = System THEN {Boot, Idle} ELSE {}]
    /\ count = [p \in Processes |-> IF p = System THEN 2 ELSE 0]
    /\ PidTable = [i \in Slots |-> IF i = 0 THEN System ELSE None]
    /\ activeList = {System}
    /\ pages = NSystemPages
    /\ tstate = [t \in Threads |->
          IF t = Boot THEN "RUNNING" ELSE IF t = Idle THEN "READY" ELSE "none"]
    /\ owner = [t \in Threads |-> IF t \in {Boot, Idle} THEN System ELSE None]
    /\ pc = [t \in Threads |-> IF t = Boot THEN "PsCreateProcess" ELSE "run"]
    /\ cameBy = [t \in Threads |-> "start"]
    /\ child = [t \in Threads |-> None]
    /\ cpu = Boot
    /\ ready = <<Idle>>
    /\ lock = "none"
    /\ exitList = <<>>
    /\ drop = None
    /\ unwind = <<>>
    /\ dead = {}
    /\ stale = {}
    /\ leaked = 0
    /\ userStack = FALSE
    /\ closed = FALSE
    /\ debug \in BOOLEAN
    /\ bug = "none"

-----------------------------------------------------------------------------
(* The processor.                                                           *)

\* The current thread is in its own code, at a place, with nothing to reap.
At(t, place) == bug = "none" /\ cpu = t /\ lock = "none" /\ pc[t] = place

Goto(t, place) == pc' = [pc EXCEPT ![t] = place]

\* A step behind an assertion.
Checked(condition, assertion, step) ==
    IF condition THEN step /\ bug' = bug
    ELSE /\ bug' = assertion
         /\ UNCHANGED <<processVars, tableVars, threadVars, cpuVars, closeVars>>

\* The memory of process p is used in some way.
Uses(p, how) == stale' = IF state[p] = "none" THEN stale \cup {how} ELSE stale

\* The first ready thread gets the processor.  A thread that comes out of the
\* swap in Schedule runs its tail and takes ExitThreadLock; one that comes out of
\* a wait, or starts in KiStartThread, does not.
KiSwapThread(t, how, left) ==
    /\ ready # <<>>
    /\ tstate' = [tstate EXCEPT ![t] = left, ![Head(ready)] = "RUNNING"]
    /\ ready' = IF left = "READY" THEN Append(Tail(ready), t) ELSE Tail(ready)
    /\ cameBy' = [cameBy EXCEPT ![t] = how]
    /\ cpu' = Head(ready)
    /\ lock' = IF cameBy[Head(ready)] = "Schedule" THEN "ExitThreadLock" ELSE "none"

\* The timer ends the quantum of the current thread: Schedule, from the DPC.
Schedule(t) ==
    /\ bug = "none" /\ cpu = t /\ lock = "none"
    /\ KiSwapThread(t, "Schedule", "READY")
    /\ UNCHANGED <<processVars, tableVars, owner, pc, child, exitList, closeVars, stale, bug>>

\* KeWaitForSingleObject on the disk, inside PspReadBinary.
KiBlockThread(t) ==
    /\ At(t, "PspReadBinary")
    /\ KiSwapThread(t, "wait", "WAITING")
    /\ Goto(t, "BinaryRead")
    /\ UNCHANGED <<processVars, tableVars, owner, child, exitList, closeVars, stale, bug>>

\* The DPC of the disk makes the thread ready.
KiReadyThread(t) ==
    /\ bug = "none" /\ tstate[t] = "WAITING"
    /\ tstate' = [tstate EXCEPT ![t] = "READY"]
    /\ ready' = Append(ready, t)
    /\ UNCHANGED <<processVars, tableVars, owner, pc, cameBy, child, cpu, lock, exitList, closeVars,
                   stale, bug>>

-----------------------------------------------------------------------------
(* PsCreateProcess.                                                         *)

\* KosInit starts a program, or the user program of a thread calls fork.
PsCreateProcess(t) ==
    /\ \/ At(t, "PsCreateProcess") /\ Goto(t, "PspReadBinary")
       \/ At(t, "run") /\ owner[t] # System /\ Goto(t, "ObCreateObject")
    /\ UNCHANGED <<processVars, tableVars, tstate, owner, cameBy, child, cpuVars, closeVars,
                   stale, bug>>

\* The disk has answered, or need not be asked.  A file that cannot be read
\* ends in the KeBugCheck of PsCreateProcess.
PspReadBinary(t) ==
    /\ At(t, "PspReadBinary") \/ At(t, "BinaryRead")
    /\ UNCHANGED stale
    /\ \E read \in BOOLEAN : Checked(read, "no binary",
          /\ Goto(t, "ObCreateObject")
          /\ UNCHANGED <<processVars, tableVars, tstate, owner, cameBy, child, cpuVars, closeVars>>)

\* The memory that the pool hands out: one free block is as good as another.
FreeProcess == CHOOSE p \in Processes : state[p] = "none"
FreeThread == CHOOSE n \in Threads : tstate[n] = "none"

\* Mutant: the length of the list is not reset.
OldLength(p) == list' = [list EXCEPT ![p] = {}] /\ UNCHANGED count

LIST_INIT(p) == list' = [list EXCEPT ![p] = {}] /\ count' = [count EXCEPT ![p] = 0]

\* A zeroed EPROCESS with one reference.
ObCreateObject(t) ==
    /\ At(t, "ObCreateObject")
    /\ \E q \in Processes : state[q] = "none"
    /\ \E p \in {FreeProcess} :
          /\ state' = [state EXCEPT ![p] = "CREATION"]
          /\ refs' = [refs EXCEPT ![p] = 1]
          /\ rundown' = [rundown EXCEPT ![p] = 0]
          /\ active' = [active EXCEPT ![p] = 0]
          /\ flags' = [flags EXCEPT ![p] = {}]
          /\ parent' = [parent EXCEPT ![p] = None]
          /\ pid' = [pid EXCEPT ![p] = 0]
          /\ LIST_INIT(p)
          /\ child' = [child EXCEPT ![t] = p]
    /\ Goto(t, "ObInsertHandle")
    /\ UNCHANGED <<space, tableVars, tstate, owner, cameBy, cpuVars, closeVars, stale, bug>>

FreeSlot(i) == PidTable[i] = None /\ \A j \in 0 .. i - 1 : PidTable[j] # None

\* MmAllocateSystemPtes of n pages: it needs the PTEs, and the frames to map there.
MmAllocateSystemPtes(n, frames) == frames /\ pages >= n

\* A pid, which holds no reference, and the handle table.
ObInsertHandle(t) ==
    /\ At(t, "ObInsertHandle")
    /\ UNCHANGED stale
    /\ \E frames \in BOOLEAN :
       Checked(MmAllocateSystemPtes(1, frames) /\ \E i \in Slots : PidTable[i] = None,
               IF \E i \in Slots : PidTable[i] = None THEN "no handle table" ELSE "no pid",
          /\ \E i \in Slots :
                /\ FreeSlot(i)
                /\ PidTable' = [PidTable EXCEPT ![i] = child[t]]
                /\ pid' = [pid EXCEPT ![child[t]] = i]
          /\ pages' = pages - 1
          /\ Goto(t, "PsIncProcessRundownProtect")
          /\ UNCHANGED <<state, refs, rundown, active, flags, parent, space, list, count,
                         activeList, tstate, owner, cameBy, child, cpuVars, closeVars>>)

PsIncProcessRundownProtect(p) == rundown' = [rundown EXCEPT ![p] = @ + 1]

\* Mutant: a fork does not protect the parent.
NoProtection(t) ==
    IF owner[t] = System THEN PsIncProcessRundownProtect(owner[t]) ELSE UNCHANGED rundown

ProtectParent(t) == PsIncProcessRundownProtect(owner[t])

\* The rest of PspAllocateProcess: the parent, and the address space with its
\* page directory, which a fork fills with page tables.
PspAllocateProcess(t) ==
    /\ At(t, "PsIncProcessRundownProtect")
    /\ Uses(owner[t], "rundown")
    /\ \E frames \in BOOLEAN : Checked(MmAllocateSystemPtes(1, frames), "no address space",
          /\ ProtectParent(t)
          /\ parent' = [parent EXCEPT ![child[t]] = owner[t]]
          /\ space' = space \cup {child[t]}
          /\ pages' = pages - 1
          /\ Goto(t, "MmCloneUserPtes")
          /\ UNCHANGED <<state, refs, active, flags, pid, list, count, PidTable, activeList,
                         tstate, owner, cameBy, child, cpuVars, closeVars>>)

\* MmCloneUserPtes, or MmInitializeUserPtes for a program: the page with the
\* bitmap of the user PTEs.  A fork copies the header in it, whose pointer still
\* leads to the bits of the parent.
MmCloneUserPtes(t) ==
    /\ At(t, "MmCloneUserPtes")
    /\ UNCHANGED stale
    /\ \E frames \in BOOLEAN : Checked(MmAllocateSystemPtes(1, frames), "no bitmap",
          /\ pages' = pages - 1
          /\ Goto(t, "PspInsertProcess")
          /\ UNCHANGED <<processVars, PidTable, activeList, tstate, owner, cameBy, child, cpuVars,
                         closeVars>>)

\* The active list, under its lock, and the three cleanup flags.
PspInsertProcess(t) ==
    /\ At(t, "PspInsertProcess")
    /\ state' = [state EXCEPT ![child[t]] = "ACTIVE"]
    /\ activeList' = activeList \cup {child[t]}
    /\ flags' = [flags EXCEPT ![child[t]] = Flags]
    /\ Goto(t, "PspCreateThread")
    /\ UNCHANGED <<refs, rundown, active, parent, pid, space, list, count, PidTable, pages,
                   tstate, owner, cameBy, child, cpuVars, closeVars, stale, bug>>

\* Mutant: PspCreateThread runs without the process lock until its counters.
NoLock == "none"

\* What PspCreateThread holds.
CreateLock == "ProcessLock"

\* A new thread object in the process, with pages for its kernel stack.  The
\* thread of a program gets user PTEs for its user stack; that of a fork has the
\* addresses of its creator.
PspAllocateThread(t, n) ==
    /\ owner' = [owner EXCEPT ![n] = child[t]]
    /\ cameBy' = [cameBy EXCEPT ![n] = "start"]
    /\ pages' = pages - StackPages
    /\ userStack' = (userStack \/ owner[t] = System)

\* The thread list of the process.
PspInsertThread(p, n) ==
    /\ list' = [list EXCEPT ![p] = @ \cup {n}]
    /\ count' = [count EXCEPT ![p] = @ + 1]

\* PspCreateThread up to KiReadyThread, under ProcessLock.  Without pages for the
\* stack the new object is dereferenced, and PsCloseThread stops the machine: the
\* thread is not TERMINATED.  Without frames for the user stack there is a KeBugCheck.
PspCreateThread(t) ==
    /\ At(t, "PspCreateThread")
    /\ \E n \in Threads : tstate[n] = "none"
    /\ UNCHANGED stale
    /\ \E frames \in BOOLEAN :
       Checked(/\ MmAllocateSystemPtes(StackPages, frames)
               /\ list[child[t]] = {} => count[child[t]] = 0,
               IF MmAllocateSystemPtes(StackPages, frames) THEN "LIST_INSERT_HEAD" ELSE "no stack",
          /\ \E n \in {FreeThread} :
                /\ PspAllocateThread(t, n)
                /\ PspInsertThread(child[t], n)
                /\ tstate' = [tstate EXCEPT ![n] = "READY"]
                /\ ready' = Append(ready, n)
                /\ pc' = [pc EXCEPT ![n] = "run", ![t] = "CountThread"]
          /\ lock' = CreateLock
          /\ UNCHANGED <<state, refs, rundown, active, flags, parent, pid, space, PidTable,
                         activeList, child, cpu, exitList, drop, unwind, dead, leaked, closed, debug>>)

\* The counters, and the end of the lock.
CountThread(t) ==
    /\ bug = "none" /\ cpu = t /\ pc[t] = "CountThread" /\ lock = CreateLock
    /\ active' = [active EXCEPT ![child[t]] = @ + 1]
    /\ PsIncProcessRundownProtect(child[t])
    /\ Uses(child[t], "rundown")
    /\ lock' = "none"
    /\ Goto(t, "UniqueProcessId")
    /\ UNCHANGED <<state, refs, flags, parent, pid, space, list, count, tableVars, tstate, owner,
                   cameBy, child, cpu, ready, exitList, closeVars, bug>>

\* PsCreateProcess reads the pid of the new process, to which it holds no
\* reference, and returns.
UniqueProcessId(t) ==
    /\ At(t, "UniqueProcessId")
    /\ Uses(child[t], "pid")
    /\ child' = [child EXCEPT ![t] = None]
    /\ Goto(t, "run")
    /\ UNCHANGED <<processVars, tableVars, tstate, owner, cameBy, cpuVars, closeVars, bug>>

-----------------------------------------------------------------------------
(* Exit.                                                                    *)

\* The call, up to the signal of the process header.
PspExitProcess(t) ==
    /\ At(t, "run") /\ owner[t] # System
    /\ Uses(owner[t], "exit")
    /\ LET p == owner[t] IN
       Checked(state[p] = "ACTIVE" /\ flags[p] = Flags, "PspExitProcess",
          /\ state' = [state EXCEPT ![p] = "TERMINATED"]
          /\ Goto(t, "ObReferenceObject")
          /\ UNCHANGED <<refs, rundown, active, flags, parent, pid, space, list, count, tableVars,
                         tstate, owner, cameBy, child, cpuVars, closeVars>>)

ObReferenceObject(t) ==
    /\ At(t, "ObReferenceObject")
    /\ refs' = [refs EXCEPT ![owner[t]] = @ + 1]
    /\ Uses(owner[t], "exit")
    /\ Goto(t, "EmptyThreadList")
    /\ UNCHANGED <<state, rundown, active, flags, parent, pid, space, list, count, tableVars,
                   tstate, owner, cameBy, child, cpuVars, closeVars, bug>>

\* The loop over the thread list, under ProcessLock.  For a thread other than
\* the current one it would exit the thread of an uninitialised pointer.
EmptyThreadList(t) ==
    /\ At(t, "EmptyThreadList")
    /\ Uses(owner[t], "exit")
    /\ LET p == owner[t] IN
       Checked(list[p] = {t}, "uninitialised ExitedThread",
          /\ list' = [list EXCEPT ![p] = {}]
          /\ count' = [count EXCEPT ![p] = @ - 1]
          /\ flags' = [flags EXCEPT ![p] = @ \ {"FIRST_THREAD_CREATED"}]
          /\ Goto(t, "PspRemoveProcess")
          /\ UNCHANGED <<state, refs, rundown, active, parent, pid, space, tableVars,
                         tstate, owner, cameBy, child, cpuVars, closeVars>>)

PspRemoveProcess(t) ==
    /\ At(t, "PspRemoveProcess")
    /\ LET p == owner[t] IN
          /\ activeList' = activeList \ {p}
          /\ flags' = [flags EXCEPT ![p] = @ \ {"INSERTED"}]
          /\ Uses(p, "exit")
    /\ Goto(t, "ObDereferenceObject")
    /\ UNCHANGED <<state, refs, rundown, active, parent, pid, space, list, count, PidTable, pages,
                   tstate, owner, cameBy, child, cpuVars, closeVars, bug>>

\* Mutant: the reference of the exit path is kept.
KeepReference(p) == UNCHANGED refs

Dereference(p) == refs' = [refs EXCEPT ![p] = @ - 1]

\* The reference of the exit path is dropped.  Were it the last one, the close
\* procedure would find the current thread in the process.
ObDereferenceObject(t) ==
    /\ At(t, "ObDereferenceObject")
    /\ Uses(owner[t], "exit")
    /\ Checked(refs[owner[t]] > 1, "PspCloseProcess in its own thread",
          /\ Dereference(owner[t])
          /\ Goto(t, "PsExitThread")
          /\ UNCHANGED <<state, rundown, active, flags, parent, pid, space, list, count, tableVars,
                         tstate, owner, cameBy, child, cpuVars, closeVars>>)

\* PsExitThread of the current thread, and Schedule: it leaves for good.
PsExitThread(t) ==
    /\ At(t, "PsExitThread")
    /\ KiSwapThread(t, "Schedule", "TERMINATED")
    /\ exitList' = Append(exitList, t)
    /\ Goto(t, "gone")
    /\ UNCHANGED <<processVars, tableVars, owner, child, closeVars, stale, bug>>

-----------------------------------------------------------------------------
(* The tail of Schedule, under ExitThreadLock.                              *)

\* The current thread t reaps.
Reaps(t) == bug = "none" /\ cpu = t /\ lock = "ExitThreadLock"

\* No exited thread is left: the lock is released.
EndOfTail(t) ==
    /\ Reaps(t) /\ exitList = <<>> /\ drop = None /\ unwind = <<>> /\ dead = {}
    /\ lock' = "none"
    /\ UNCHANGED <<processVars, tableVars, threadVars, cpu, ready, exitList, closeVars, stale, bug>>

\* Mutant: the pages of the kernel stack are kept.
KeptStack == pages

\* MmFreeSystemPtes of the kernel stack.
FreedStack == pages + StackPages

\* What PsCloseThread asserts and bugchecks on.
MayClose(t, x) ==
    /\ x # t
    /\ tstate[x] = "TERMINATED"
    /\ active[owner[x]] > 0
    /\ owner[x] # owner[t]

\* What MmFreeUserPtes asserts: the bits of the user stack are set.
BmBitmapTest == debug => userStack

\* PsExitThread of an exited thread: its last reference goes, and PsCloseThread
\* takes it out of the list of its process (again), frees its stacks, the user
\* stack with its bits in the bitmap, and begins to drop its protection of the
\* process.
PsCloseThread(t) ==
    /\ Reaps(t) /\ exitList # <<>> /\ drop = None /\ unwind = <<>> /\ dead = {}
    /\ Uses(owner[Head(exitList)], "close")
    /\ LET x == Head(exitList)
           p == owner[x]
       IN  Checked(MayClose(t, x) /\ BmBitmapTest,
                  IF MayClose(t, x) THEN "user stack" ELSE "PsCloseThread",
              /\ exitList' = Tail(exitList)
              /\ list' = [list EXCEPT ![p] = @ \ {x}]
              /\ count' = [count EXCEPT ![p] = @ - 1]
              /\ pages' = FreedStack
              /\ active' = [active EXCEPT ![p] = @ - 1]
              /\ tstate' = [tstate EXCEPT ![x] = "none"]
              /\ owner' = [owner EXCEPT ![x] = None]
              /\ pc' = [pc EXCEPT ![x] = "run"]
              /\ cameBy' = [cameBy EXCEPT ![x] = "start"]
              /\ child' = [child EXCEPT ![x] = None]
              /\ userStack' = FALSE
              /\ closed' = TRUE
              /\ drop' = p
              /\ UNCHANGED <<state, refs, rundown, flags, parent, pid, space, PidTable, activeList,
                             cpu, ready, lock, unwind, dead, leaked, debug>>)

\* PspCloseProcess asserts that it does not run in a thread of the process.
PspCloseProcess(t, p) == owner[t] # p /\ "ALLOCATED" \in flags[p]

\* PsDecProcessRundownProtect.  The last protection takes the last reference
\* with it, which enters PspCloseProcess and PspFreeProcess: the parent is next.
PsDecProcessRundownProtect(t) ==
    /\ Reaps(t) /\ drop # None
    /\ Uses(drop, "rundown")
    /\ LET p == drop
           last == rundown[p] = 1
           closes == last /\ refs[p] = 1
       IN  Checked(/\ rundown[p] > 0
                   /\ last => active[p] = 0 /\ refs[p] > 0
                   /\ closes => PspCloseProcess(t, p),
                   "PsDecProcessRundownProtect",
              /\ rundown' = [rundown EXCEPT ![p] = @ - 1]
              /\ refs' = [refs EXCEPT ![p] = IF last THEN @ - 1 ELSE @]
              /\ drop' = IF closes THEN parent[p] ELSE None
              /\ unwind' = IF closes THEN Append(unwind, p) ELSE unwind
              /\ dead' = IF ~closes /\ unwind = <<>> THEN {None} ELSE dead
              /\ UNCHANGED <<state, active, flags, parent, pid, space, list, count, tableVars,
                             threadVars, cpuVars, leaked, userStack, closed, debug>>)

ObRemoveHandle(p) == PidTable' = [PidTable EXCEPT ![pid[p]] = None]

\* The rest of PspFreeProcess, innermost call first, and ObRemoveObject.  The page
\* directory is freed, the handle table and the page of the bitmap are not.
PspFreeProcess(t) ==
    /\ Reaps(t) /\ drop = None /\ unwind # <<>>
    /\ UNCHANGED stale
    /\ LET p == unwind[Len(unwind)] IN
       Checked(PidTable[pid[p]] = p, "ObRemoveHandle",
          /\ ObRemoveHandle(p)
          /\ space' = space \ {p}
          /\ state' = [state EXCEPT ![p] = "none"]
          /\ unwind' = SubSeq(unwind, 1, Len(unwind) - 1)
          /\ dead' = dead \cup {p}
          /\ pages' = pages + 1
          /\ leaked' = leaked + 2
          /\ UNCHANGED <<refs, rundown, active, flags, parent, pid, list, count, activeList,
                         threadVars, cpuVars, drop, userStack, closed, debug>>)

\* PsCloseThread releases ProcessLock of the process, which may be gone.
ReleaseProcessLock(t) ==
    /\ Reaps(t) /\ drop = None /\ unwind = <<>> /\ dead # {}
    /\ dead' = {}
    /\ stale' = IF dead = {None} THEN stale ELSE stale \cup {"lock"}
    /\ UNCHANGED <<processVars, tableVars, threadVars, cpuVars, drop, unwind, leaked, userStack,
                   closed, debug, bug>>

-----------------------------------------------------------------------------
\* The next step of the call that the thread is in.
CallStep(t) ==
    \/ PspReadBinary(t) \/ ObCreateObject(t) \/ ObInsertHandle(t)
    \/ PspAllocateProcess(t) \/ MmCloneUserPtes(t) \/ PspInsertProcess(t)
    \/ PspCreateThread(t) \/ CountThread(t)
    \/ UniqueProcessId(t) \/ ObReferenceObject(t) \/ EmptyThreadList(t) \/ PspRemoveProcess(t)
    \/ ObDereferenceObject(t) \/ PsExitThread(t)

\* The next step of the tail of Schedule.
TailStep(t) ==
    \/ EndOfTail(t) \/ PsCloseThread(t) \/ PsDecProcessRundownProtect(t) \/ PspFreeProcess(t)
    \/ ReleaseProcessLock(t)

Next ==
    \E t \in Threads :
       \/ CallStep(t) \/ TailStep(t) \/ PsCreateProcess(t) \/ PspExitProcess(t)
       \/ Schedule(t) \/ KiBlockThread(t) \/ KiReadyThread(t)

\* The tail of Schedule runs to its end and the timer ends every quantum.
Ticks == \E t \in Threads : TailStep(t) \/ Schedule(t)

\* The processor goes on, which lets every ready thread have it again, for a
\* quantum in which the call of the thread gets on.
Fairness == WF_vars(Ticks) /\ \A t \in Threads : SF_vars(CallStep(t))

Spec == Init /\ [][Next]_vars /\ Fairness

-----------------------------------------------------------------------------
(* Properties.                                                              *)

Places == {"run", "PsCreateProcess", "PspReadBinary", "BinaryRead", "ObCreateObject",
    "ObInsertHandle", "PsIncProcessRundownProtect", "MmCloneUserPtes", "PspInsertProcess", "PspCreateThread",
    "CountThread", "UniqueProcessId", "ObReferenceObject", "EmptyThreadList",
    "PspRemoveProcess", "ObDereferenceObject", "PsExitThread", "gone"}

\* The variables have their types; no counter goes below zero, except the length
\* of a thread list, from which PsCloseThread removes a thread for the second time.
TypeOK ==
    /\ state \in [Processes -> {"none", "CREATION", "ACTIVE", "TERMINATED"}]
    /\ refs \in [Processes -> Nat]
    /\ rundown \in [Processes -> Nat]
    /\ active \in [Processes -> Nat]
    /\ flags \in [Processes -> SUBSET Flags]
    /\ parent \in [Processes -> Processes \cup {None}]
    /\ pid \in [Processes -> Slots]
    /\ space \subseteq Processes
    /\ list \in [Processes -> SUBSET Threads]
    /\ count \in [Processes -> Int] /\ \A p \in Processes : count[p] >= -1
    /\ PidTable \in [Slots -> Processes \cup {None}]
    /\ activeList \subseteq Processes
    /\ pages \in 0 .. NSystemPages
    /\ tstate \in [Threads -> {"none", "READY", "RUNNING", "WAITING", "TERMINATED"}]
    /\ owner \in [Threads -> Processes \cup {None}]
    /\ pc \in [Threads -> Places]
    /\ cameBy \in [Threads -> {"start", "Schedule", "wait"}]
    /\ child \in [Threads -> Processes \cup {None}]
    /\ cpu \in Threads
    /\ ready \in Seq(Threads)
    /\ lock \in {"none", "ProcessLock", "ExitThreadLock"}
    /\ exitList \in Seq(Threads)
    /\ drop \in Processes \cup {None}
    /\ unwind \in Seq(Processes)
    /\ dead \subseteq Processes \cup {None}
    /\ stale \subseteq {"pid", "lock", "rundown", "exit", "close"}
    /\ leaked \in Nat
    /\ {userStack, closed, debug} \subseteq BOOLEAN

Alive(p) == state[p] # "none"

\* The threads of a process that its counters count.
Counted(p) == {t \in Threads \ {Boot} : owner[t] = p}

\* The threads that are created and not yet counted.
Uncounted(p) == {t \in Threads : child[t] = p /\ pc[t] = "CountThread"}

\* The children that have protected a process and not yet dropped it again.
Children(p) == {c \in Processes : Alive(c) /\ parent[c] = p
                                  /\ \A i \in 1 .. Len(unwind) : unwind[i] = c => drop = p /\ i = Len(unwind)}

\* RundownProtect of a process is the number of its threads that are not closed
\* and of its children that are not freed, while forks, exits and a cascade of
\* frees through its descendants are in any of their steps.
RundownExact ==
    \A p \in Processes : Alive(p) =>
       rundown[p] + Cardinality(Uncounted(p))
          = Cardinality(Counted(p)) + Cardinality(Children(p)) + (IF drop = p /\ unwind = <<>> THEN 1 ELSE 0)

\* The counters of processes are right between any two steps of forks, exits and closes.
CountsExact == TypeOK /\ RundownExact

\* A thread has its process with its address space, and a process its parent,
\* until their own close is over: the exit of a parent before its children and
\* of a child before its fork has returned included.
NoDangling ==
    /\ \A t \in Threads : owner[t] # None => Alive(owner[t]) /\ owner[t] \in space
    /\ \A p \in Processes : Alive(p) /\ parent[p] # None =>
          Alive(parent[p]) \/ \E i \in 1 .. Len(unwind) : unwind[i] = p

\* The slots of PidTable are the pids of the processes that exist, one for each:
\* no pid is lost and none names a process that is gone.
PidsExact ==
    /\ \A i \in Slots : PidTable[i] # None => Alive(PidTable[i]) /\ pid[PidTable[i]] = i
    /\ \A p \in Processes : Alive(p) =>
          \/ PidTable[pid[p]] = p
          \/ \E t \in Threads : child[t] = p /\ pc[t] = "ObInsertHandle"

\* The processes that are beyond some steps of PspAllocateProcess.
Beyond(steps) == {p \in Processes \ {System} : Alive(p)
                     /\ \A t \in Threads : child[t] = p => pc[t] \notin steps}

\* Every system PTE is free, in the stack of a thread that is not closed, in the
\* handle table, page directory or bitmap page of a process, or one of the two
\* that a freed process leaves behind.
PagesAccounted ==
    NSystemPages = pages + leaked
        + StackPages * Cardinality({t \in Threads \ {Boot, Idle} : tstate[t] # "none"})
        + Cardinality(Beyond({"ObInsertHandle"})) + Cardinality(space \ {System})
        + Cardinality(Beyond({"ObInsertHandle", "PsIncProcessRundownProtect", "MmCloneUserPtes"}))

\* What a process took from the kernel's tables is in use or given back, but for the handle table and
\* the bitmap page, which stay for ever: two PTEs for every process that has been freed.
ResourcesAccounted == PidsExact /\ PagesAccounted

\* The machine stops only for want of a binary, a pid, pages or frames, or, if it evaluates its ASSERTs, at
\* the one on the bits of a user stack, after the first close in a program and its forks has cleared
\* them.  Every other assertion of the exit and close paths (the counters at the last close, the
\* context of the close, the flags, the slot of the pid, the thread list) holds.
OnlyKnownStops ==
    bug \in {"none", "no binary", "no pid", "no handle table", "no address space", "no bitmap",
             "no stack"} \cup IF debug /\ closed THEN {"user stack"} ELSE {}

\* Process memory is used after it was freed in two places at most: the creator
\* reads the pid of a child that is gone, and the reaper releases the lock in it.
KnownStaleUses == stale \subseteq {"pid", "lock"}

\* No process is freed under its users, in whatever order parent, child and reaper come, but for the
\* two reads above.
UsersKeepAlive == NoDangling /\ KnownStaleUses

\* A process that has exited and has no child left does not stay: again and
\* again none is left, because some thread comes out of Schedule and closes the
\* exited threads.
ExitedIsFreed ==
    []<>(bug # "none" \/ ~\E p \in Processes : state[p] = "TERMINATED" /\ Children(p) = {})
=============================================================================
