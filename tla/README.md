# A TLA+ model of the Kaush-OS kernel

Kaush-OS is a small x86 kernel written in C, with an executive in the style of
Windows NT: a dispatcher with IRQLs, DPCs and waitable objects (`kern/ke`), an
object manager (`kern/ob`), processes and threads (`kern/ps`), a memory manager
(`kern/mm`), an I/O manager, a disk driver and a FAT file system. This directory
holds TLA+ modules that model it, TLC configurations that check them on small
instances, and proofs that TLAPS checks.

## The system

| component | state | operations | hard behaviour |
|---|---|---|---|
| scheduler (`ke/scheduler.c`) | a ready list per priority, `ExitThreadList`, state, quantum and priority of each thread | `KiReadyThread`, `KiSelectNextThread`, `KiSwapThread`, `KiBlockThread`, `Schedule`, `KiThreadTimerISR`, `KiStartThread` | a lock is taken by one thread and released by another; preemption between any two instructions at PASSIVE_LEVEL; the exit of the running thread |
| dispatcher objects (`ke/wait.c`) | `SignalState` and wait list of semaphores, mutants, events, threads; owner of a mutant | `KeWaitForSingleObject`, `KeReleaseSemaphore`, `KeReleaseMutant`, `KeSetEvent`, `KeResetEvent`, `KeClearEvent`, `KeReleaseNotificationDHeader` | checks before the lock, hand-over to the first waiter, FIFO order |
| locks and IRQL (`ke/locks.c`, `ke/irql.c`) | owner of each spin lock, the processor's IRQL | `KeAcquireSpinLock`, `KeReleaseSpinLock`, the DPC-level variants, `KeRaiseIrql`, `KeLowerIrql` | lowering the IRQL runs DPCs, and a DPC switches threads |
| DPCs (`ke/dpc.c`) | a DPC list per processor | `KeInsertQueueDpc`, `KeRemoveQueueDpc`, `KiProcessDpcQueue` | a DPC queued while the list is drained |
| interrupts, timer (`ke/interrupt.c`, `ke/int.S`, `ke/timer.c`) | interrupt objects, tick count | `KiInterruptDispatch`, `TimerISRoutine`, `KeDelayExecutionThread` | a tick at any moment |
| threads, processes (`ps/*.c`) | thread and process objects, thread list, active and rundown counts | `PspCreateThread`, `PsExitThread`, `PsCloseThread`, `PspCreateProcess`, `PspExitProcess`, `PspCloseProcess`, `KExitProcess` | who frees what when the last thread, handle or reference goes |
| object manager (`ob/*.c`) | reference counts, directories, names, handle tables | `ObCreateObject`, `ObOpenObject*`, `ObReferenceObject`, `ObDereferenceObject`, `ObClose`, `ObInsertHandle` | decrement and re-read of a count, lookup and insert under separate locks, compare-and-swap on slots |
| pool (`mm/pool.c`) | a list of blocks with sizes and states | `MmAllocatePoolWithTag`, `MmFreePoolWithTag` | unsigned split arithmetic, coalescing, a state stored before the lock |
| virtual memory (`mm/mm.c`) | free page list, page frame reference counts, page tables, PTE bitmaps | `MmAllocatePFN`, `MiInsertPage`, `MiRemovePage`, `MmVirtualAlloc`, `MmVirtualFree`, `MmCloneAddressSpace`, `MmPfHandler` | copy on write, stale TLB entries, a free list without a lock |
| bitmaps, lists (`lib/bitmap.c`, `inc/list.h`) | bits; doubly linked lists | find and set runs; insert and remove | boundaries |
| IDE driver (`drivers/ide.c`) | per channel a lock (mutant), a completion semaphore, `expecting_interrupt`; one DPC for all channels | identify, read and write sectors, interrupt, DPC | an interrupt that belongs to another channel, an early or missing completion, a disk that is late or fails |
| file system (`fs/ff.c`, `fs/kosfs.c`) | the volume: a one-sector window, a free-cluster count and hint; per open file a position, a chain and a one-sector buffer; the disk | `f_open`, `f_read`, `f_write`, `f_lseek`, `f_sync`, `f_close`, `f_truncate`, `f_unlink`, `f_mkdir`, `f_rename`, `f_stat`, `f_getfree` | three caches of one sector each, chains linked and cut by different calls, the power failing between two sector writes |

The components call each other directly. The parts that interact while running
are tied together by the dispatcher: a thread that waits is switched out under
the dispatcher-database lock, and the timer interrupt, through the scheduler
DPC and the lowering of the IRQL, switches threads anywhere else.

## Modules

`KeDispatcher` is the dispatcher: scheduler, wait lists, dispatcher lock, IRQL,
scheduler DPC, timer tick, thread creation and exit. `MCKeDispatcher` gives it
small instances, `KeDispatcherProofs` has its theorems, those about who holds
permits and mutants included.

`MmPool` is a kernel pool: the list of blocks that allocation divides and
freeing merges. `MCMmPool` and `MmPoolProofs` are its instances and theorems.

`ObObject` is the object manager: reference counts, handle tables, and the names
of a directory. `MCObObject` gives it small instances, `ObObjectProofs` has its
theorems.

`FatFs` is the file system down to the sectors it writes; `FileStore` is what it
promises, and `FatFs` is checked to implement it. `MCFatFs` has the instance.

`MmVm` is virtual memory: frames, page tables, the TLB, clone and copy on write.
It extends `Bitmap`, the operations of `lib/bitmap.c`, which the PTE pools use.
`MCMmVm` has the instances. `BitmapProofs` has the theorem about bitmaps,
`MmMemoryProofs` the lemmas about frames and page tables, and `MmVmProofs` the
theorems about virtual memory.

`PsProcess` is the life of processes and threads: fork, exit, the reaper and the
cascade of frees; `MCPsProcess` has the instance, `PsProcessProofs` the
theorems.

`Ide` is the disk driver with an external model of the disks; `MCIde` has the
instance, `IdeProofs` the theorems.

The modules meet at calls, and each module takes of its neighbour what the code
relies on: the locks of the pool, of directories and of object types are spin
locks held for one step; `PsProcess` uses threads with the states, the ready
list and the exit list of `KeDispatcher`, and reference counts that behave as
`ObObject` shows; `Ide` uses the mutants, semaphores and DPCs of `KeDispatcher`
with their assertions; `FatFs` uses a disk that reads what was last written,
which is `ReadsLatest` of `Ide`.

### KeDispatcher

One processor (`MAX_ALLOWED_NUM_PROCESSORS` is 1). Each thread has a place `pc`:

* `run`, its own code, from which it makes the calls in `ThreadCall`;
* the passive places between an unlocked check and the lock
  (`KeReleaseSemaphore`, `KeReleaseMutant`, `PsExitThread`, `Schedule`, `Reap`);
* the bodies of locked sections (`Wait`, `ReleaseSemaphore`, `ReleaseMutant`,
  `SetEvent`, `ReleaseAll`, `CreateThread`, `Scheduling`), and `Unlock`, the end
  of each: the call of `KiUnLockDispatcherDataBase`;
* `Reaping`, the loop over `ExitThreadList` under `ExitThreadLock`;
* `Drain` and `Lower`, the two parts of `KeLowerIrql`.

`ret` is the place a thread returns to when the IRQL is back at PASSIVE_LEVEL,
`arg` the object the operation is about, `waitIrql` the `OldIrql` of the section.

A thread that is switched out sits at `Unlock`: whoever is switched to, in
`Schedule`, in `KiBlockThread` or newly in `KiStartThread`, next releases the
lock that the previous thread took. That hand-over is the heart of the code.

`KiThreadTimerISR` is the timer interrupt with its return. At PASSIVE_LEVEL the
return drains the DPC list, so the interrupted thread goes to `Drain` and may
be switched out; at DISPATCH_LEVEL the tick only counts and queues. It can
happen between any two steps.

An `ASSERT` or `KeBugCheck` stops the machine. `Fault` says which one the
current thread is about to meet; `BugCheck` records it in `bug` and nothing
happens after it. A fault is `internal` when it is a consistency check of the
dispatcher's own data, and has a name when a caller can provoke it.

Data that no property tells apart is left out: registers and stacks, tick
counts, names. `quantum` stops at 0, because the code only compares it with 0.
The type and the signal state a new thread's header starts with are the
constant `HeaderArgs`: `PspAllocateThread` passes one argument of three to
`KeInitDispatcherHeader`, so they are whatever the stack held. `holds` is a
history variable for the properties.

A guarding semaphore is one that only a thread that acquired it releases, as in
`ProcessThreadLocksTests`; the others may be released by anyone, as the disk
driver does with its completion semaphore.

### MmPool

One pool (`PagedPool` and `NonPagedPool` have the same code and a list each).
`blocks` is the list that `POOLHEADER.link` threads through the pool, in list
order: address, `size` and whether `POOL_STATUS_ALLOCATED` is set. The tag is
not kept: a caller frees with the tag it allocated with (`own`), with another
one (`other`), or with none (`zero`, `ExFreePool`), and `TagMatches` is what the
comparison of tags then gives.

`MmAllocatePoolWithTag` holds `PoolLock` from the search to the end and is one
step. `MmFreePoolWithTag` verifies the header and marks the block free *before*
it takes the lock, so it is two steps, `MmFreePoolWithTag` and `MergeBlocks`,
with `freeing` holding the block in between. Sizes are unsigned: the differences
that decide whether a block is divided, and how large the rest is, are taken
modulo `Word`.

When a new header is written over part of another block, or a thread merges a
block that is no longer in the list, `machine` becomes `corrupt` and nothing
more happens: what the code would do then depends on the contents of memory.
`live` and `freed` are history: what callers hold and what they gave back.

### ObObject

A step is what a thread does between two points at which another thread can see
or change what it uses: an interlocked operation, a section under a spin lock,
or stores to memory that nobody else knows yet. `pc` is the point a thread is
at; `object`, `name`, `target`, `child` and `slot` are its locals.

`ObDereferenceObject` runs to the interlocked decrement of `ObCloseObject`;
`CheckCount` is the second read of the count, and `ObRemoveObject` frees.
`ObCreateObject` with a name is four steps: the first lookup with the
allocation, the second lookup, the insertion in the directory, and the
initialisation of the header, at which the object can already be found.
`ObCreateSymbolicLink` wraps them between a lookup of the target and a reference
to it. `ObInsertObject` starts the search for a slot, of which `ObInsertHandle` is
one compare and exchange. `ObAllocateHandleTable` gives a new process its table
and `InheritHandle` copies one slot of the system process's.

`Magic` is the first word of an object and freeing clears its first byte, so
`ObIsValidObject` fails on a freed object; memory is not used again. `bug` names
the `ASSERT` or `KeBugCheck` that stopped the machine: `reference` and `count`
for the checks of the counts, `type` for `ObClose`, which passes no object type
where one is asserted, `tag` for freeing a new object under another tag than it
was allocated with, `removed` for a lookup that finds an object that was freed,
`unnamed`, `target` and `twice` for the rest. `holds` is history: the references
that each thread's code owns. Callers release only what they own, and pass
handles that their process was given.

### FatFs and FileStore

`vol` is the `FATFS` object and the disk under it: the window with its dirty
flag and sector, the free count, the hint, and a function from sectors to
contents. A sector holds table entries, directory entries or bytes, as records;
long names, times and attributes are left out. `fil` has the `FIL` objects.

A call is planned when it starts, or once per turn of the loops of `f_read`,
`f_write` and `f_lseek`. A plan is a sequence of items: see a sector
(`move_window`), change a table entry or a directory entry in the window, write
a sector past the window, write the window back, write FSInfo, count a cluster.
Items are what `ff.c` does between two sector writes, in its order, and `Step`
executes one, so `PowerOff` can come between any two writes. `follow_path`,
`dir_find`, `dir_register`, `create_chain`, `remove_chain` and `sync` compute
pieces of plans. After `PowerOff` the disk is mounted again and read with new
eyes (`View`); that state is compared with what `FileStore` allows, and nothing
follows it.

`FileStore` knows no sectors: a path names nothing, a directory or a sequence of
bytes, a handle is a path and a position. A write or a seek may stop short when
the disk is full. `changing` is the set of paths that the call in progress may
change: what `f_open`, `f_write`, `f_lseek`, `f_truncate`, `f_unlink` and
`f_mkdir` were given, both names of an `f_rename`, and nothing for `f_read`,
`f_sync`, `f_close`, `f_stat` and `f_getfree`, which write back buffers and
FSInfo at most. A call sets it when it starts and clears it when it returns. A
crash leaves alone, to the last byte, every path that was synced and is not in
`changing` or below a path in it, so a crash between two calls, or in one that
only looks or writes back, harms nothing that was synced; nor does it make a path
appear, unless the call was filling the same directory. The refinement mapping takes
`content` from `View`: what a reader of the current window, table and file
objects would find. That mapping is where the caches come together, and why the
refinement is worth checking: a sector that is written to the wrong place or
order shows as a file that changed without a call.

Three rules that callers keep are guards: calls do not overlap (`_FS_REENTRANT`
is 0 and `kosfs.c` has no lock), a file is open for writing once (`_FS_SHARE` is
0, so `chk_lock` does not exist), and a writer syncs before it truncates.

### MmVm and Bitmap

`mm` holds the frames (free list, `RefCount`, contents) and the tables (page
directory, page-table entries with their writable and copy-on-write bits, system
PTEs). `sysBits` and `poolBits` are bitmaps, `bitmapOf` the page a process's
`UserPtePool` points to, `cur` what CR3 holds, `tlb` what the processor may have
cached since CR3 or `invlpg` last dropped it. `priv` is history: what each
process last put in each page. Addresses are pages of three regions: the window
of temporary mappings, the program, and the user PTE pool.

Code at DISPATCH_LEVEL is one step. `CreateProcess` and `CloneProcess` are
followed by the steps of `PspAllocateProcess` in their order;
`MmAllocateUserPtes` takes the bits under `UserPteSpinLock` and is followed by a
step for each turn of the loop of `MmVirtualAlloc`, which has no lock; and
`MmPfHandler` is four steps (`MmPfHandler`, `PfMapTemp`, `PfMapNew`, `PfCopy`)
with a switch possible between any two. Accesses of programs go through the TLB
or the tables; `KernelWrite` is a write by the kernel to a user page, which
ignores the read-only bit because CR0.WP is never set. A write that goes past
the read-only bit, by the kernel or through a translation cached before the
clone, marks its frame in `taint`, and `Isolation` speaks of the other frames.

`Bitmap` has elements of `ELEM_BITS` bits as the code does, so that runs cross
elements; `BitmapsAgree` compares every operation with sets of numbers.

### PsProcess

`state`, `refs`, `rundown`, `active`, `flags`, `parent`, `pid`, `list` and
`count` are the fields of the `EPROCESS`, `PidTable` and `activeList` the global
tables, `tstate`, `owner`, `ready`, `exitList`, `lock` and `cpu` what the
scheduler keeps. Memory of a freed process is used for the next one, and
`Uses` records in `stale` when a thread reads a process that is no longer the
one it meant.

`PsCreateProcess` starts the path `PspReadBinary`, `ObCreateObject`,
`ObInsertHandle`, `PspAllocateProcess`, `PspInsertProcess`, `PspCreateThread`,
`CountThread`, `UniqueProcessId`; `PspExitProcess` the path `ObReferenceObject`,
`EmptyThreadList`, `PspRemoveProcess`, `ObDereferenceObject`, `PsExitThread`.
Sections under `ProcessLock` and `ExitThreadLock` are at DISPATCH_LEVEL and are
not left. The tail of `Schedule` closes exited threads: `PsCloseThread`,
`PsDecProcessRundownProtect` and `PspFreeProcess`, whose recursion from a
process to its parent is the sequence `unwind`.

`pages` are the free system PTEs. A process takes three, for its handle table
(`ObInsertHandle`, `process.c:416`), its page directory
(`PspAllocateProcess`, `process.c:453`) and the page of its user bitmap
(`MmCloneUserPtes`, `process.c:538`), each with its own shortage; a thread takes
`StackPages`. `PspFreeProcess` gives the page directory back, and `leaked` counts
the other two.

All user processes descend from one program, and its first thread is the only one
that allocates a user stack (`thread.c:333`). A fork copies the address of the
stack (`thread.c:314`) and the pointer to the bits (`mm.c:887`), so one bit,
`userStack`, stands for the run of bits of that stack in the bitmap they share.
`PsCloseThread` frees it, in `MmFreeUserPtes`, which asserts that the bits are set
(`mm.c:983`). ASSERTs are evaluated if the kernel is compiled with `DEBUG`, as
`assert.h:23` does; `debug` is chosen in `Init` and never changes, so both kinds
of kernel are in the model. In the other kind the second close clears clear bits
and nothing is seen. The other assertions of the module stop the machine in either
build, so that their holding does not rest on `debug`. `closed` is history.

### Ide

Per channel `lock` (the mutant), `sem` (the completion semaphore), `expecting`
and, external, `device`, `content` and `irq`. A request takes the places of
`disk_read` and `disk_write` in order: `lock_acquire`, `select_sector`,
`issue_pio_command`, `sema_down`, `wait_while_busy`, `input_sector` or
`output_sector`, `lock_release`. `interrupt_handler` queues the one DPC, and
`IdeDpcRoutine` releases the semaphore of every channel that ever issued a
command, as `expecting_interrupt` is never cleared. The disks do what the driver
expects of them, and besides may fail a command or answer after the driver
stopped polling; `faults` names what happened. A contended channel mutant stops
the machine, as the code does.

## Runs

| run | instance | shows |
|---|---|---|
| `sem` | idle, first system thread, two workers, a guarding semaphore of count 1 | the inductive invariant of the proofs: lists, lock, states, no internal bugcheck; FIFO order, priorities, permits |
| `callers` | one worker whose header starts with anything, a free semaphore, a mutant, both kinds of event | whatever callers do, and whatever the uninitialised header holds, the dispatcher's own checks do not fail; mutants consistent |
| `live` | two workers, fairness | every ready thread of normal priority runs |
| `exitwakes` | one worker | what a comment says and the code does not do (below) |
| `pool_units` | one caller at a time, requests of 100 and 200 bytes with overhead, 1300 bytes, frees with the right, another or no tag | tiling, ownership, no leak, merging |
| `pool_overlap` | one caller, requests that differ by less than a header | what a comment says and the code does not do (below) |
| `ob` | two threads of the system process, two objects, a permanent and an ordinary name, a handle slot, a process to create | counts are exact, nothing referenced is freed, handles stay |
| `fat` | FAT16 and FAT32, three clusters, five paths, two file objects, any five calls, power failure anywhere | chains, counts and dot-dot entries exact; `FatFs` implements `FileStore`, what a crash may harm included |
| `vm` | a program and a clone, 14 frames, two-bit elements | frames counted exactly, copy on write invisible, PTEs and bits agree, bitmaps are sets |
| `vm_fork` | the same | what a comment says and the code does not do (below) |
| `ps` | memory for four processes and three threads besides the system's, four pids, twelve system PTEs | counts exact, users keep processes alive, pids and PTEs accounted for, no stop but a shortage or the assertion on a shared user stack, exited processes freed |
| `ide` | two threads, any set of disks in three places on two channels, two sectors, a fault | reads return the last write, writes are acknowledged, completions in turn, every request ends |

Several of the checked invariants are conjunctions of named parts that belong
together: `IInv`, `CountsExact`, `VolumeConsistent`, `FramesExact`,
`PtesTracked`, `UsersKeepAlive`, `ResourcesAccounted` and `CompletionsInTurn`.

### Bounds

Dispatcher. Three threads besides the idle thread is the smallest number at
which a releaser, a waiter and a third thread that could barge in are all there;
a quantum of 1 makes every tick that is not delayed a preemption, and the first
system thread starts with 0. The first system thread and the workers have the
same priority, as in the code, where every process gets the normal priority; the
idle thread starts in the normal list, as in the code. `MaxSignal` is the code's
100, and 2 in `callers`, where a header may start at it. Workers are not declared
symmetric, because a temporal property is checked and TLC's symmetry reduction is
not sound for it.

Pool. The runs use the code's header (28), padding (56) and minimum rest (512).
`Word` is 65536 instead of 2^32: what matters is that it exceeds every size in
the pool, so that a difference below zero is larger than any request. 1300 bytes
are enough for a block to be above the minimum after three divisions, and for
free, allocated and merged blocks on either side of a freed one. `MCUnits` keeps
every block a multiple of 100 bytes, `MCNear` has two requests (156 and 152 bytes
with overhead) that differ by less than a header. Histories are unbounded: the
lists of a pool of bounded size are finite in number. Several threads and callers
that free twice are left to the theorem `TilingAlways`.

Object manager. One handle slot, so that two insertions compete for it and the
loser runs off the table's end; two objects, so that one is the other's link, or
both are created under one name; and two threads, as every race of the code is
one of two. `MaxRefs` bounds the references callers take: the count of a
permanent object is never decremented, and would grow for ever.

File system. Sectors of two bytes, clusters of two sectors and writes of three
bytes make every alignment of a write with sectors and clusters occur within one
or two writes; three clusters are enough for a directory, a file and a file or
directory that grows until the disk is full; two entries to a sector and three
names under one directory make a directory grow. Four table entries to a sector
put the table in two sectors, so that the window moves between them. Offsets 0
and 5 are inside and behind a file; 5 is in the second cluster. Five calls
(`MaxCalls`) are enough to make a directory, a file in it, write, sync and be
interrupted in the next. The two file objects are interchangeable; the refinement
property is a safety property and the symmetry permutes both specifications.

Virtual memory. Two address spaces are parent and child; a frame has at most the
references that the two and a fault handler give it. `NFrames` is enough for both
with their page tables, and runs out in some behaviours. `MaxCalls` 5 lets a
clone be followed by a fault in each and the end of one. With two pool pages a
page is freed and allocated again.

Processes. Three threads and four processes besides the system's give a parent,
a child and a grandchild that exit in any order, and memory that is used again
while someone still has the old pointer; four pids run out, and twelve system PTEs
do at every place where one is taken, because a freed process keeps two.

Disks. Three places: two disks that share a channel and one on the other.
`Limit` is 2 where the code has 100: the permits that nobody takes reach it
sooner. One kind of fault happens in a behaviour.

Deadlock is checked in `sem` and `live`: some step, at least a tick, is always
possible. It is not checked where the machine may stop with a bugcheck (`callers`,
`pool_units`, `ob`, `vm`, `ps`, `ide`) or where the number of calls is bounded
(`fat`, `vm`, `ide`).

### Fairness

* `live`: weak fairness of the kernel code of the current thread (the processor
  keeps executing) and of the timer interrupt (the 8254 keeps ticking). Nothing
  is assumed of the threads' own code: they may loop for ever.
* `ps`: weak fairness of the timer and of the tail of `Schedule`; strong fairness
  of the next step of each thread's call. A thread that is preempted comes back
  (that is `ReadyEventuallyRuns` of `live`), each time for a quantum in which it
  executes. Nothing makes a program fork or exit.
* `ide`: disks finish, interrupts are taken, the DPC runs, and a thread that can
  go on does. Nothing makes a thread ask for a sector.

### Disagreements between comments and code

* `exitwakes`: `PsExitThread` marks the thread TERMINATED before it releases the
  threads that wait for it (`thread.c:71`); a tick in between loses the release.
* `pool_overlap`: a block smaller than `MINIMUMFREEPOOLSIZE` is always divided,
  because the difference wraps (`pool.c:183`); if the rest has no room for a
  header, the next block's header is overwritten.
* `vm_fork`: `MmCloneUserPtes` copies the bitmap page of the parent with the
  pointer to the parent's bits (`mm.c:887`), so pages that are "per process"
  (`mm.c:918`) are set and cleared in one bitmap by both. The same sharing makes
  the second of two related processes to be closed free a user stack whose bits
  are clear, and the `ASSERT` of `MmFreeUserPtes` stops the kernel (`thread.c:189`,
  `mm.c:983`): the stop `user stack` of `PsProcess`, which `OnlyKnownStops` allows
  after a close and in a kernel with ASSERTs only.

The models contain more that no run states.

Dispatcher: `KeSetEvent` resets the event it has set (`wait.c:489`);
`KeReleaseSemaphore` checks the limit outside the lock, so it can be exceeded
(`wait.c:419`); a wait resets the header of a terminated thread, because the
condition that should exempt notification objects tests constants
(`wait.c:119`); the thread that runs after an exit does not always clean up
(`scheduler.c:438`); a mutant cannot be waited for while it is taken
(`wait.c:536`, the fault `mutant`).

Pool: a block is marked free before the lock is taken (`pool.c:233`), and merged
even if it has been allocated again in between; freeing a free block with no tag
passes the verification (`pool.c:219`).

Object manager: `ObCloseObject` reads the count again after decrementing it
(`ob.c:132`), so two threads that drop the last two references both go on to
free; no handle can be closed (`ob.c:197`, the bug `type`); a name can be
inserted twice (`obname.c:147`); a link's target is looked up long before it is
referenced (`obsym.c:115`); the entry of a removed object stays in its directory
(`ob.c:95`); a slot that was empty in an inherited table is neither free nor an
object in the new one (`obhandle.c:124`).

Virtual memory: no `invlpg` after a clone made pages read-only (`mm.c:1459`).
A clone leaves pages in the child's window (`mm.c:1232`).

Processes: `PsCreateProcess` reads the pid of a child that may be gone
(`process.c:638`); `PsCloseThread` releases a lock inside a process that may be
freed (`thread.c:216`); these two are the whole of `KnownStaleUses`. The handle
table of a process is never freed (`process.c:249`), nor is the page of its user
bitmap (`process.c:538`), and a thread is taken off
its list twice, which leaves -1 in `NumberOfElements` (`thread.c:157`).

Disk: with disks on both channels, permits that belong to the other channel let
a write return before its sector is written (`ide.c:200`), and at the limit the
machine stops (`ide.c:207`); a write that fails after its data was taken returns
`RES_OK` (`ide.c:401`). `WriteAcknowledged` and `CompletionsInTurn` are stated
for the cases in which they hold.

File system: `f_truncate` of a file with a dirty buffer, overlapping calls and
two writers of one file are excluded by the guards above; so is moving a
directory below itself, which `f_rename` does not prevent (`ff.c:3542`).

## Proofs

`KeDispatcherProofs` proves, for any sets of threads and objects, any priorities
and any quantum:

* `DispatcherInvariant`: the inductive invariant `IInv` holds;
* `TypeCorrect`, `NoInternalBugChecks`, `LockHandedOver`, `ListsExact` and
  `ReaperSafe`, which follow from it;
* `SwitchesToHighest` and `FirstComeFirstServed`, action properties whose proofs
  use `IInv` in the state before the step.

`IInv` is defined in `KeDispatcher`, where the run `sem` checks it too.

The assumptions are `ThreadAssumption` and `ObjectAssumption` of `KeDispatcher`;
TLC evaluates both in every run.

None of the invariants is inductive by itself. That no check fails needs the
lists to be exact; that the lists stay exact needs the thread being readied to
be in the state the code expects; that needs to know where a thread in each
state can be and what its locals hold, and that nothing but the idle thread
idles. `ControlConsistent` says so, and `IInv` is the conjunction of all of
them. The proof treats a ready list and a wait list alike: `Exact(lists, D, M)`
says that a family of lists holds the set `M`, and `InsertExact` and
`RemoveExact` say what appending a new thread and removing a head do to it. Each
action then has a lemma; `ControlOnly`, `WakeStep` and `SwapStep` collect what
the actions that touch no list, wake threads, and switch threads have in common.

About who owns what the dispatcher hands out it proves, under the same
assumptions:

* `MutantsConsistent`: a mutant is taken exactly as long as it has an owner or a
  thread that is releasing it. `KeReleaseMutant` clears the owner before it takes
  the lock, so the invariant `MutantInv` also says that a mutant being released
  has no owner and one releaser, and that nobody waits for a mutant (the code
  stops the machine instead);
* `PermitsAreConserved`: a guarding semaphore's signal state and the number of its
  holders add up to the count it was created with. `PermitInv` adds what the callers are about to do: one that is
  about to wait holds no permit, one that is about to release holds one, and
  whoever is in the wait list holds none. A step changes the set of holders by
  one thread at most, so the cardinality needs no induction.

Only model-checked of the dispatcher: `ReadyEventuallyRuns` (liveness).

`MmPoolProofs` proves, for any pool size, header, padding, minimum and requests
that satisfy `PoolAssumption`:

* `TilingAlways` and `PoolTypes`: for any number of threads, and callers that free
  twice, the blocks tile the pool and every block ends inside it until a header is
  overwritten. A size that wrapped would end its block beyond `Word`, so no size
  that is stored has. (The difference that only *decides* about dividing does wrap:
  `pool_overlap`);
* `MemoryIsOwned` and `MemoryIsUntouched`: if callers take turns (one thread at
  a time is inside the pool, `Serial`) and free what they hold once, a caller's
  memory is an allocated block of the size it needs, and no step moves or
  resizes it. The mark before the lock (`pool.c:233`) is why the first
  assumption is needed.

`Tiled` speaks of neighbours. That a block lies before every later one and ends
inside the pool follows by induction over the list, which is out of the
prover's reach, so the invariant `Laid` carries `Ordered` and `Bounded` along;
they make addresses unique, which is why marking or merging one block leaves
the others alone. `SplitLaid` and `JoinLaid` say that dividing and merging keep
`Laid`; `SplitAt` and `JoinedAt` describe the new list by its elements, so that
the proofs about callers need not look into `InsertAt` and `RemoveAt` again.
`MemoryIsOwned` also needs that an allocated block belongs to a caller and that
a block being freed is free and in the list (`OwnedInv`).

Two more theorems are about free memory:

* `NothingLeaks`, with no assumption on the callers: a block that is marked
  allocated belongs to a caller that has not freed it, even when frees overlap
  or are repeated;
* `FreeMemoryIsCoalesced`: if callers take turns, two neighbours are free only
  while one of them is being freed, repeated frees included. The invariant
  `CutInv` names the pair: outside `MmFreePoolWithTag` there is none, inside it
  is at the marked block, which merging with both sides removes.

`ObObjectProofs` proves, for any threads, processes, objects and names, any
table size and any bound on the references a caller takes:

* `ReferencesAreCounted`: at every point where another thread can run, RefCount
  is the number of references that threads, handles and links have, and the
  `ASSERT`s on counts hold;
* `NothingReferencedIsRemoved`: the second read of the count, after the
  interlocked decrement, never lets an object go that somebody refers to;
* `HandlesAreStable`: an action property, a handle names one object for ever.

The assumption, `ObAssumption`, says that the constants that are no objects are
distinct from the objects. A count is exact only together with what each thread
still owes it, so `CountInv` has four parts: `ObjectFits` (the count of an object
in each phase of its life), `ThreadFits` (what a thread at each point has to
itself: an object that only its creator knows, the reference behind a handle
being inserted), `TableFits` (the part of a new handle table that the loops have
not reached is empty, and one thread fills it) and `Untouched` (so is the table
of a process nobody has begun to create). The lemmas about the three sets behind
`References` say how each changes by one element.

`PsProcessProofs` proves, for any finite numbers of processes and threads, any
size of `PidTable` and any number of system PTEs (`PsAssumption`):

* `CountersAreExact`: RundownProtect and ActiveThreads of every process are what
  its threads and children make them, at every step of forks, exits and the
  cascade of frees, which drops a process and then its parent;
* `UsersAreKeptAlive`: no process is freed under its threads or its children,
  and freed process memory is used in the two known places only;
* `ResourcesAreAccounted`: `PidTable` holds the pids of the processes that exist
  and nothing else, and every system PTE is free, in a kernel stack, in the
  handle table, page directory or bitmap page of a process, or one of the two that
  a freed process leaves behind;
* `AssertionsHold`: only a shortage of memory or pids stops the machine, or, if
  ASSERTs are evaluated and a thread of the program or a fork has been closed
  before, the one on the bits of the user stack. The other assertions and
  bugchecks of the exit and close paths hold.

The inductive invariant has five parts. `ControlInv`: one thread runs,
the lists hold the threads that are in the state for them, and where a thread can
be in each state. `LifeInv`: what a process under construction, a running one,
one that waits for its children, and one on the stack of frees looks like, with
the equations of the counters; the thread being created is counted late
(`Uncounted`) and the parent being dropped is counted still (`Dropping`), and no
smaller set of these facts is inductive, because each step of the cascade turns
one into the next. `ResourceInv`: pids, and what can have stopped the machine.
These three are `PsInv`. `PagesInv` is the equation of the PTEs; it is a sum of
four cardinalities, of the stacks and of the processes that are beyond each step
of `PspAllocateProcess` (`Beyond`), and needs to know that a process has its
address space exactly when it is beyond the second of them. `PagesKept` covers
the steps that take nothing, and a lemma for each of the others moves one element
in or out of one set, or of all three. `StackInv`: until a close in the family,
the bits of its stack are set if any of its processes has got as far as using
them. That the numbers are finite is
what memory makes of them; a thread that cannot be had is memory that has run
out (the guard of `PspCreateThread`), as for `ObCreateObject`.

`IdeProofs` proves, for any threads, channels, disks and sectors, any limit of
the semaphores and any number of faults (`IdeAssumption`):

* `ReadsReturnTheLatest`: a read returns the latest data of its sector, with both
  channels in use and permits nobody was waiting for;
* `CompletionsAreAhead`: a thread in `sema_down` has its completion ahead;
* `CompletionsAlternate` and `WritesAreAcknowledged`: with one channel in use,
  commands and completions alternate, and a write returns when it is on the disk.

Each property is the last of a chain of invariants: `ControlInv` (a working
thread has its channel to itself and its registers select its disk), `DiskInv`
(what the disk is doing is what that thread asked for), `DataInv` (the sector, or
the command in the disk, carries the latest data) and `TurnInv` (with one
channel, the token that completes a command is in one place: disk, interrupt,
DPC or semaphore). `DiskInv` holds until a poll runs out of patience and `DataInv`
until data is lost, which is what the properties say too.

`BitmapProofs` proves, for elements of any size and bitmaps of any number of bits
(`ElemAssumption`), `BitmapsAreSets`: each operation does to the array of elements
what it is meant to do to the set of its 1 bits, the spare bits of the last
element stay 0, and `BmBitmapScan` finds the first run. Everything rests on one
fact of arithmetic, that a bit is at one place of one element (`Divide`,
`DivideBack`, `Unique`); that there is a first run if there is one at all is the
well-foundedness of the natural numbers.

`MmVmProofs` proves, for any finite number of processes, any numbers of frames,
window pages, pool pages and system PTEs, any contents, and no bound on what
processes do but the constants `MaxCalls` and `MaxTaint`, which may be any natural
numbers (`SizesAssumption`):

* `FramesCounted`: `RefCount` is the number of references, and the free list is
  exactly the frames without one;
* `WritableAlone`: a user page that may be written has the only reference to its
  frame, so the fast path of `MmPfHandler`, which looks at the count alone, gives
  no shared frame away;
* `CopyOnWriteIsolates`: a process finds in its pages what it put there, unless
  the frame was written past its read-only bit;
* `PtesFollowBits`, `WindowIsTables` and `BitmapsAlwaysAgree`: bits and system PTEs
  agree, nothing is unmapped under a process that was given it, what a clone
  leaves in a window are page tables, and every bitmap behaves as a set.

All follow from `VmInvariant`, the inductive invariant `VmInv`, which TLC has also
checked on the instance of the run `vm`. Its first half, `Sound`, is about memory:
counts, the free list, the entries, and that free frames are clean. `Sound(m, X, h)`
has two parameters, because the routines of `mm.c` are not correct step by step:
between `MmAllocatePFN` and `MiInsertPage` a frame is neither free nor mapped
(`X`), and a count is raised before the entry that explains it is written, or
lowered after (`h`, the extra references). The references of fault handlers are
extra references that last for several steps (`HandlerRefs`). `MmMemoryProofs`
shows what each elementary change does to `Sound`, and composes from them
`MiRemovePage`, `MiInsertPage`, a turn of the clone loop and the deletion of an
address space. `Mappings` is a sum of three cardinalities of sets of pairs; a
change of one entry moves one element, and a change of a whole process moves a row
(`RowChange`), so no induction is needed.

The second half is about processes: `PagesFit` (the pages a process can use are
mapped and have its data, except the page a fault handler is working on),
`StepFits` (where the steps of a fault, a clone or an allocation are, and what
they rely on), `WindowFits`, `ChildrenFit` (two clones have two children) and
`TlbFits`. The latter is why stale translations are harmless to the counts: they
may let a process write where the tables do not, never the other way round, and
lead to the right frame. Each step has a lemma. Most of it says that the other
processes, of which there may be any number and each in the middle of something,
are bystanders (`BystanderFits`, `IdleFits`): their entries are not touched, and
the frames behind them are not written, because a frame that is written without
being tainted has one reference (`SingleAlone`, `NewAlone`). What the
clone does is the longest of these arguments: `CloneRegionSound` says that a
turn of the loop, its own window page included, shares exactly the pages of its
region and leaves the parent's frames where they were.

Only model-checked:

* liveness (`ReadyEventuallyRuns`, `ExitedIsFreed`, `RequestsEnd`): liveness under
  fairness is out of the prover's reach;
* `FatFs` and its refinement of `FileStore`: it follows chains with a recursive
  operator, and what the length of a chain is needs induction over data.

What a model takes as atomic or leaves out is not covered by its theorems either.

## Plan

Done: `KeDispatcher`, `MmPool`, `ObObject` for one directory, `PsProcess`, `Ide`
and `MmVm` with `Bitmap`, with proofs of their safety properties; `FatFs` with
`FileStore`.

Left, in this order:

1. An abstract semaphore (a count and a queue of requests) and the proof that
   the guarding semaphores of `KeDispatcher` implement it.
2. Several DPCs with importance, insertion while draining and removal;
   `KeDelayExecutionThread`'s tick arithmetic, where a positive interval becomes
   a tick count near 2^32 (`timer.c:58`).
3. Paths through several directories, mount points and device lookup in
   `ObObject`, with the I/O manager's file and device objects on top.
4. `FatFs` without recursive operators, chains as functions, so that what its
   plans do to a volume can be stated as lemmas and proved.

## Not modelled

Boot code, descriptor tables, the PIC, port I/O, the VGA console, formatting and
string routines, the bytes the ELF loader copies and the user-mode stubs:
sequential code or hardware access with no state of its own that a model could
check. The self-tests that run at start-up. Several processors: the kernel
bugchecks on the second. `KiStandbyThread` bugchecks unconditionally.

Of the file system: long file names, FAT12's packing of entries, directory
objects (`f_readdir`), attributes, times, partitioning in `f_mkfs` (its
result is the initial disk). `ide.c` never returns an error to it, so
`FR_DISK_ERR` does not occur.

Of virtual memory: the construction of the kernel's own mappings at boot, and a
switch inside the two routines that pop and push the free list, whose lock
macros are empty (`mm.c:182`).

Of processes: what the error paths of `PspAllocateProcess` undo before the
`KeBugCheck` that each of them ends in.

Of the I/O manager: packets are built, passed to the one driver and freed within
a call.
