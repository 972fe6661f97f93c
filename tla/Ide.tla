-------------------------------- MODULE Ide --------------------------------
(***************************************************************************)
(* The IDE driver (kern/drivers/ide.c): the channels with their lock,      *)
(* completion semaphore and expecting_interrupt, the one DPC that all      *)
(* channels share, and the threads that read and write sectors.  The disks *)
(* behind the channels, with the PIC, are external: they take a command,   *)
(* are busy, ask for data and interrupt as the driver expects of them, and *)
(* may fail a command or be slower than the driver is willing to poll.     *)
(***************************************************************************)
EXTENDS Integers, FiniteSets

CONSTANTS
    Threads,     \* threads that use the disks
    Boot,        \* the one that calls disk_init
    Channels,    \* the channels, which disk_init takes in order
    Disks,       \* <<channel, dev_no>> of every place for a disk
    Sectors,     \* sectors of a disk: 0 .. n
    Data,        \* contents of a sector
    Limit,       \* of a completion semaphore (100 in sema_init)
    MaxSectors,  \* bound: sectors that are asked for
    MaxFaults,   \* bound: kinds of faults in one behaviour
    None

ASSUME IdeAssumption ==
    /\ Boot \in Threads
    /\ Channels \subseteq Nat /\ IsFiniteSet(Channels) /\ 0 \in Channels
    /\ Disks \subseteq Channels \X {0, 1}
    /\ Sectors \subseteq Nat /\ \E n \in Sectors : Sectors = 0 .. n
    /\ Data \subseteq Nat /\ 0 \in Data
    /\ Limit \in Nat \ {0} /\ MaxSectors \in Nat /\ MaxFaults \in Nat
    /\ None \notin Threads

VARIABLES
    is_ata,    \* the disks with is_ata
    present,   \* the disks that are plugged in
    lock,      \* OwnerThread of the mutant of each channel, or None
    expecting, \* expecting_interrupt
    sem,       \* SignalState of completion_wait
    dpc,       \* IdeDpcObject is in the DPC list
    device,    \* external: what the disks of each channel do, with the registers
    content,   \* external: the sectors of each disk
    irq,       \* external: the interrupt of the channel waits for the processor
    latest,    \* history: what was last written to each sector
    faults,    \* history: the commands that disks failed, with "late" for an answer
               \* after wait_while_busy gave up and "idle timeout" for wait_until_idle
    pc,        \* where each thread is
    job,       \* its call: operation, disk, sector, sectors left, data
    asked,     \* history: sectors asked for so far
    bug        \* the KeBugCheck or ASSERT that stopped the machine, or "none"

channelVars == <<lock, expecting, sem, dpc>>
deviceVars == <<device, content, irq>>
threadVars == <<pc, job>>
vars == <<is_ata, present, channelVars, deviceVars, latest, faults, threadVars, asked, bug>>

\* The selected disk and sector, the command, and BSY ("busy"), DRQ ("drq") or
\* neither ("idle").
Free == [status |-> "idle", command |-> "none", disk |-> None, sector |-> 0,
         data |-> 0]

\* The data is read; the disk stays selected.
Drained(v) == [Free EXCEPT !.disk = v.disk]

NoJob == [op |-> "none", disk |-> None, sector |-> 0, left |-> 0, data |-> 0]

\* The channel of a disk.
Channel(d) == d[1]

\* Mutant: completion_wait starts with a permit.
OnePermit == 1

\* sema_init of completion_wait.
InitialCount == 0

\* The machine is up to disk_init; any of the disks may be there.
Init ==
    /\ is_ata = {}
    /\ present \in SUBSET Disks
    /\ lock = [c \in Channels |-> None]
    /\ expecting = [c \in Channels |-> FALSE]
    /\ sem = [c \in Channels |-> InitialCount]
    /\ dpc = FALSE
    /\ device = [c \in Channels |-> Free]
    /\ content = [d \in Disks |-> [s \in Sectors |-> 0]]
    /\ irq = [c \in Channels |-> FALSE]
    /\ latest = content
    /\ faults = {}
    /\ pc = [t \in Threads |-> IF t = Boot THEN "disk_init" ELSE "off"]
    /\ job = [t \in Threads |-> NoJob]
    /\ asked = 0
    /\ bug = "none"

-----------------------------------------------------------------------------
(* The interrupt, and its DPC.                                              *)

\* A DPC that is queued already is left alone.
KeInsertQueueDpc == dpc' = TRUE

interrupt_handler(c) ==
    /\ bug = "none" /\ irq[c]
    /\ irq' = [irq EXCEPT ![c] = FALSE]
    /\ KeInsertQueueDpc
    /\ UNCHANGED <<is_ata, present, lock, expecting, sem, device, content, latest, faults,
                   threadVars, asked, bug>>

\* Mutant: the DPC forgets the last channel.
FirstOnly == {c \in Channels : c = 0 /\ expecting[c]}

\* The channels whose completion_wait the DPC releases: whoever has ever issued
\* a command, whichever channel the interrupt came from.
Released == {c \in Channels : expecting[c]}

\* What KeReleaseSemaphore asserts.
BelowLimit == \A c \in Released : sem[c] < Limit

\* Every channel that expects an interrupt gets a permit.
IdeDpcRoutine ==
    /\ bug = "none" /\ dpc
    /\ dpc' = FALSE
    /\ IF BelowLimit
       THEN /\ sem' = [c \in Channels |-> IF c \in Released THEN sem[c] + 1 ELSE sem[c]]
            /\ bug' = bug
       ELSE bug' = "semaphore limit" /\ UNCHANGED sem
    /\ UNCHANGED <<is_ata, present, lock, expecting, deviceVars, latest, faults, threadVars, asked>>

-----------------------------------------------------------------------------
(* The disks.                                                               *)

\* A disk does not do as it is told.
Fault(kind) == faults' = faults \cup {kind} /\ Cardinality(faults') <= MaxFaults

\* A disk is done with the medium: it has the data, or has written it.  It may
\* fail instead.  A write asks for its data first, without an interrupt.
DeviceDone(c) ==
    LET v == device[c] IN
    /\ bug = "none" /\ v.status = "busy"
    /\ \E ok \in BOOLEAN :
          /\ IF ok THEN UNCHANGED faults ELSE Fault(v.command)
          /\ device' = [device EXCEPT ![c] =
                IF ok /\ v.command # "data" THEN [v EXCEPT !.status = "drq"] ELSE Drained(v)]
          /\ irq' = [irq EXCEPT ![c] = v.command # "write" \/ ~ok]
          /\ content' = IF ok /\ v.command = "data"
                        THEN [content EXCEPT ![v.disk][v.sector] = v.data] ELSE content
    /\ UNCHANGED <<is_ata, present, channelVars, latest, threadVars, asked, bug>>

-----------------------------------------------------------------------------
(* The threads.                                                             *)

At(t, place) == bug = "none" /\ pc[t] = place

Goto(t, place) == pc' = [pc EXCEPT ![t] = place]

\* The machine stops.
Stops(why) ==
    /\ bug' = why
    /\ UNCHANGED <<is_ata, present, channelVars, deviceVars, latest, faults, threadVars, asked>>

\* The channel of the disk that the thread works on.
Mine(t) == Channel(job[t].disk)

\* The disk that disk_init identifies next, after the ones before d.
Later(d) == {e \in is_ata : e[1] > d[1] \/ (e[1] = d[1] /\ e[2] > d[2])}
First(S) == CHOOSE e \in S : \A f \in S : e[1] < f[1] \/ (e[1] = f[1] /\ e[2] <= f[2])

\* disk_init goes on to the disks of S, or returns and the machine is up.
Identify(t, S) ==
    IF S = {} THEN /\ pc' = [u \in Threads |-> "run"]
                   /\ job' = [job EXCEPT ![t] = NoJob]
    ELSE /\ Goto(t, "select_sector")
         /\ job' = [job EXCEPT ![t] = [NoJob EXCEPT !.op = "identify", !.disk = First(S)]]

\* reset_channel and check_device_type: the disks that are there answer as ATA
\* disks; identify_ata_device is called for one after the other.
disk_init(t) ==
    /\ At(t, "disk_init")
    /\ is_ata' = present
    /\ Identify(t, present)
    /\ UNCHANGED <<present, channelVars, deviceVars, latest, faults, asked, bug>>

\* disk_read or disk_write of some sectors of a drive; disk_get asserts that the
\* disk is there.
Request(t) ==
    /\ At(t, "run")
    /\ \E op \in {"read", "write"}, d \in Disks, s \in Sectors, n \in 1 .. Cardinality(Sectors),
          x \in Data :
          /\ s + n - 1 \in Sectors
          /\ (op = "read") <=> (x = 0)
          /\ asked + n <= MaxSectors
          /\ IF d \in is_ata
             THEN /\ job' = [job EXCEPT ![t] =
                         [op |-> op, disk |-> d, sector |-> s, left |-> n, data |-> x]]
                  /\ Goto(t, "lock_acquire")
                  /\ asked' = asked + n
                  /\ UNCHANGED <<is_ata, present, channelVars, deviceVars, latest, faults, bug>>
             ELSE Stops("no disk")

\* A mutant that another thread owns stops the machine.
lock_acquire(t) ==
    /\ At(t, "lock_acquire")
    /\ IF lock[Mine(t)] = None
       THEN /\ lock' = [lock EXCEPT ![Mine(t)] = t]
            /\ latest' = IF job[t].op = "write"
                         THEN [latest EXCEPT ![job[t].disk][job[t].sector] = job[t].data] ELSE latest
            /\ Goto(t, "select_sector")
            /\ UNCHANGED <<is_ata, present, expecting, sem, dpc, deviceVars, faults, job, asked, bug>>
       ELSE Stops("contended lock")

\* Mutant: the old disk stays selected.
StaysSelected(t, v) == [v EXCEPT !.sector = job[t].sector, !.disk = IF @ = None THEN job[t].disk ELSE @]

\* What the registers select.
Selected(t, v) == [v EXCEPT !.sector = job[t].sector, !.disk = job[t].disk]

\* The channel is neither busy nor at a transfer.
Idle(c) == device[c].status = "idle"

\* select_device_wait, which waits until the channel is idle but gives up on one
\* that is too slow, and the address registers.  A busy channel ignores them.
select_sector(t) ==
    /\ At(t, "select_sector")
    /\ \/ /\ Idle(Mine(t))
          /\ device' = [device EXCEPT ![Mine(t)] = Selected(t, @)]
          /\ UNCHANGED faults
       \/ /\ ~Idle(Mine(t))
          /\ Fault("idle timeout")
          /\ UNCHANGED device
    /\ Goto(t, "issue_pio_command")
    /\ UNCHANGED <<is_ata, present, channelVars, content, irq, latest, job, asked, bug>>

\* Mutant: a write waits for the interrupt before its data.
InterruptFirst(t) == "sema_down"

\* A read waits for its interrupt, a write for the disk to ask for the data.
AfterCommand(t) == IF job[t].op = "write" THEN "wait_while_busy" ELSE "sema_down"

\* The command register; a busy channel ignores it.
issue_pio_command(t) ==
    /\ At(t, "issue_pio_command")
    /\ expecting' = [expecting EXCEPT ![Mine(t)] = TRUE]
    /\ device' = [device EXCEPT ![Mine(t)] =
          IF @.status = "idle" THEN [@ EXCEPT !.status = "busy", !.command = job[t].op] ELSE @]
    /\ Goto(t, AfterCommand(t))
    /\ UNCHANGED <<is_ata, present, lock, sem, dpc, content, irq, latest, faults, job,
                   asked, bug>>

sema_down(t) ==
    /\ At(t, "sema_down") /\ sem[Mine(t)] > 0
    /\ sem' = [sem EXCEPT ![Mine(t)] = @ - 1]
    /\ Goto(t, IF job[t].op = "write" THEN "lock_release" ELSE "wait_while_busy")
    /\ UNCHANGED <<is_ata, present, lock, expecting, dpc, deviceVars, latest, faults, job, asked, bug>>

\* wait_while_busy returned false: a disk that does not identify itself is none,
\* and a failed read or write stops the machine.
Failed(t) ==
    IF job[t].op = "identify"
    THEN /\ is_ata' = is_ata \ {job[t].disk}
         /\ Identify(t, Later(job[t].disk))
         /\ UNCHANGED <<present, channelVars, device, content, irq, latest, asked, bug>>
    ELSE /\ bug' = "disk failed"
         /\ UNCHANGED <<is_ata, present, channelVars, device, content, irq, latest, threadVars,
                        asked>>

\* BSY clears and DRQ is set, or is not; or the disk is busy for too long.
wait_while_busy(t) ==
    /\ At(t, "wait_while_busy")
    /\ \/ /\ device[Mine(t)].status = "drq"
          /\ Goto(t, "transfer")
          /\ UNCHANGED <<is_ata, present, channelVars, deviceVars, latest, faults, job, asked, bug>>
       \/ /\ device[Mine(t)].status = "idle"
          /\ Failed(t) /\ UNCHANGED faults
       \/ /\ device[Mine(t)].status = "busy"
          /\ Failed(t) /\ Fault("late")

\* input_sector and output_sector.
input_sector(t) ==
    /\ At(t, "transfer") /\ job[t].op # "write"
    /\ device' = [device EXCEPT ![Mine(t)] = Drained(@)]
    /\ IF job[t].op = "identify" THEN Identify(t, Later(job[t].disk))
       ELSE /\ job' = [job EXCEPT ![t].data =
                  content[device[Mine(t)].disk][device[Mine(t)].sector]]
            /\ Goto(t, "lock_release")
    /\ UNCHANGED <<is_ata, present, channelVars, content, irq, latest, faults, asked, bug>>

output_sector(t) ==
    /\ At(t, "transfer") /\ job[t].op = "write"
    /\ device' = [device EXCEPT ![Mine(t)] =
          [@ EXCEPT !.status = "busy", !.command = "data", !.data = job[t].data]]
    /\ Goto(t, "sema_down")
    /\ UNCHANGED <<is_ata, present, channelVars, content, irq, latest, faults, job, asked,
                   bug>>

\* The loop of disk_read and disk_write goes on to the next sector.
lock_release(t) ==
    /\ At(t, "lock_release")
    /\ lock' = [lock EXCEPT ![Mine(t)] = None]
    /\ IF job[t].left > 1
       THEN /\ job' = [job EXCEPT ![t].sector = @ + 1, ![t].left = @ - 1]
            /\ Goto(t, "lock_acquire")
       ELSE /\ job' = [job EXCEPT ![t] = NoJob]
            /\ Goto(t, "run")
    /\ UNCHANGED <<is_ata, present, expecting, sem, dpc, deviceVars, latest, faults, asked, bug>>

-----------------------------------------------------------------------------
Step(t) ==
    \/ disk_init(t) \/ lock_acquire(t) \/ select_sector(t) \/ issue_pio_command(t) \/ sema_down(t)
    \/ wait_while_busy(t) \/ input_sector(t) \/ output_sector(t) \/ lock_release(t)

Hardware == \E c \in Channels : interrupt_handler(c) \/ DeviceDone(c)

Next == (\E t \in Threads : Step(t) \/ Request(t)) \/ Hardware \/ IdeDpcRoutine

\* The disks finish, interrupts are taken, the DPC runs when the IRQL drops, and
\* threads that can go on do.
Fairness ==
    /\ \A c \in Channels : WF_vars(interrupt_handler(c)) /\ WF_vars(DeviceDone(c))
    /\ WF_vars(IdeDpcRoutine)
    /\ \A t \in Threads : WF_vars(Step(t))

Spec == Init /\ [][Next]_vars /\ Fairness

-----------------------------------------------------------------------------
(* Properties.                                                              *)

Places == {"off", "disk_init", "run", "lock_acquire", "select_sector", "issue_pio_command",
    "sema_down", "wait_while_busy", "transfer", "lock_release"}

Jobs == [op : {"none", "identify", "read", "write"}, disk : Disks \cup {None}, sector : Sectors,
         left : Nat, data : Data]

Registers == [status : {"idle", "busy", "drq"}, data : Data, sector : Sectors,
              disk : Disks \cup {None},
              command : {"none", "identify", "read", "write", "data"}]

\* The variables have their types.
TypeOK ==
    /\ is_ata \subseteq present /\ present \subseteq Disks
    /\ lock \in [Channels -> Threads \cup {None}]
    /\ expecting \in [Channels -> BOOLEAN]
    /\ sem \in [Channels -> 0 .. Limit]
    /\ dpc \in BOOLEAN
    /\ device \in [Channels -> Registers]
    /\ content \in [Disks -> [Sectors -> Data]]
    /\ irq \in [Channels -> BOOLEAN]
    /\ latest \in [Disks -> [Sectors -> Data]]
    /\ faults \subseteq {"identify", "read", "write", "data", "late", "idle timeout"}
    /\ pc \in [Threads -> Places]
    /\ job \in [Threads -> Jobs]
    /\ asked \in 0 .. MaxSectors
    /\ bug \in {"none", "no disk", "contended lock", "disk failed", "semaphore limit"}

\* Only one channel has disks.
OneChannel == Cardinality({Channel(d) : d \in present}) <= 1

\* No write has been lost: wait_until_idle did not give up on a busy disk, and no
\* disk failed a write after it had taken the data, which the driver does not see.
NothingLost == faults \cap {"data", "idle timeout"} = {}

\* A read returns what was last written to the sector, although a semaphore that
\* was released for the other channel lets it pass sema_down before its own
\* command is done: wait_while_busy holds it up.
ReadsLatest ==
    \A t \in Threads : pc[t] = "lock_release" /\ job[t].op = "read" /\ NothingLost =>
       job[t].data = latest[job[t].disk][job[t].sector]

\* "Returns after the disk has acknowledged receiving the data": with one channel
\* in use, a write returns when the sector has its data.
WriteAcknowledged ==
    \A t \in Threads : pc[t] = "lock_release" /\ job[t].op = "write" /\ OneChannel /\ NothingLost =>
       content[job[t].disk][job[t].sector] = job[t].data

\* The thread waits for a completion, or for the DRQ of its write before that.
Waits(t, c) ==
    /\ pc[t] = "sema_down" \/ (pc[t] = "wait_while_busy" /\ job[t].op = "write")
    /\ Mine(t) = c

\* With one channel in use the completion semaphore is the completion of the one
\* command on its way: a permit is for a thread that waits for it, so none is
\* left over for the next command, whatever the disk failed before.
PermitForCommand ==
    OneChannel =>
       \A c \in Channels : sem[c] > 0 =>
          /\ sem[c] = 1
          /\ bug # "none" \/ \E t \in Threads : Waits(t, c)

\* A thread that waits for the completion of its command has it ahead: the disk
\* is busy, or its interrupt, the DPC or the permit is there.
CompletionAhead ==
    bug = "none" /\ "idle timeout" \notin faults => \A t \in Threads : pc[t] = "sema_down" =>
       LET c == Mine(t) IN
       device[c].status = "busy" \/ irq[c] \/ (dpc /\ expecting[c]) \/ sem[c] > 0

\* With one channel in use, wait_until_idle never has to give up: a command finds
\* the one before it finished.
CommandsInTurn == OneChannel => "idle timeout" \notin faults

\* A completion semaphore gets to its limit only if two channels are in use.
LimitNeedsTwo == bug = "semaphore limit" => ~OneChannel

\* With one channel in use completions and commands alternate: no permit is left over for the next
\* command, no command finds the disk busy, and the semaphore does not fill up.
CompletionsInTurn == TypeOK /\ PermitForCommand /\ CommandsInTurn /\ LimitNeedsTwo

\* Every call of a thread returns, unless the machine stops or a command was lost.
RequestsEnd ==
    \A t \in Threads : pc[t] = "lock_acquire"
       ~> (pc[t] = "run" \/ bug # "none" \/ "idle timeout" \in faults)
=============================================================================
