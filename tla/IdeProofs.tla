------------------------------ MODULE IdeProofs ------------------------------
(***************************************************************************)
(* Safety of the IDE driver for every set of threads, channels, disks and  *)
(* sectors, every limit of the completion semaphores and every number of   *)
(* faults: types, that a read returns the latest data, that a thread that  *)
(* waits has its completion ahead, and that with one channel in use        *)
(* commands and completions alternate.                                     *)
(***************************************************************************)
EXTENDS Ide, FiniteSetTheorems, TLAPS

-----------------------------------------------------------------------------
(* What a thread knows where it is.                                         *)

\* Between lock_acquire and lock_release, or in identify_ata_device.
WorkPlaces == {"select_sector", "issue_pio_command", "sema_down", "wait_while_busy", "transfer",
               "lock_release"}
Works(t) == pc[t] \in WorkPlaces

\* Inside disk_init, when no other thread has started.
Boots(t) == pc[t] = "disk_init" \/ (Works(t) /\ job[t].op = "identify")

\* The registers select a disk of the channel.
Selects(c) == device[c].disk \in present /\ Channel(device[c].disk) = c

\* The call of a thread is for a disk that is there and for sectors it has; the
\* thread has the channel to itself, and what it left there.
JobFits(t) ==
    /\ Works(t) \/ pc[t] = "lock_acquire" => job[t].disk \in present /\ job[t].op # "none"
    /\ pc[t] \in {"lock_acquire", "lock_release"} => job[t].op \in {"read", "write"}
    /\ (Works(t) \/ pc[t] = "lock_acquire") /\ job[t].op # "identify" =>
          job[t].left > 0 /\ job[t].sector + job[t].left - 1 \in Sectors
    /\ Boots(t) => \A u \in Threads \ {t} : pc[u] = "off"
    /\ Works(t) /\ job[t].op # "identify" => lock[Mine(t)] = t
    /\ pc[t] \in {"sema_down", "wait_while_busy", "transfer"} => expecting[Mine(t)]
    /\ pc[t] \in {"issue_pio_command", "sema_down", "wait_while_busy", "transfer"} =>
          Selects(Mine(t))
    /\ pc[t] = "transfer" => device[Mine(t)].status = "drq"

\* Nothing happens on a channel without disks.
ChannelFits(c) ==
    /\ device[c].status # "idle" => Selects(c) /\ device[c].command # "none"
    /\ expecting[c] \/ irq[c] \/ sem[c] > 0 => \E d \in present : Channel(d) = c

ControlInv ==
    /\ TypeOK
    /\ \A t \in Threads : JobFits(t)
    /\ \A c \in Channels : ChannelFits(c)


-----------------------------------------------------------------------------
(* Disks and channels.                                                      *)

LEMMA ChannelOfDisk ==
    ASSUME NEW d \in Disks
    PROVE  Channel(d) \in Channels /\ Channel(d) \in Nat /\ d[2] \in {0, 1}
BY IdeAssumption DEF Channel

\* < on the channels' numbers, and that it has no infinite descent.
NatLess == {ss \in Nat \X Nat : ss[1] < ss[2]}

LEMMA NatLessWellFounded == IsWellFoundedOn(NatLess, Nat)
BY NatLessThanWellFounded DEF OpToRel, NatLess

\* disk_init goes to one of the disks that are left.
LEMMA FirstIsOne ==
    ASSUME NEW S, S \subseteq Disks, S # {}
    PROVE  First(S) \in S
<1>1. PICK T : T = {Channel(d) : d \in S}
  OBVIOUS
<1>2. T \subseteq Nat /\ T # {}
  BY <1>1, ChannelOfDisk
<1>3. PICK c \in T : \A b \in T : ~(<<b, c>> \in NatLess)
  BY <1>2, NatLessWellFounded, WFMin
<1>4. \A b \in T : c <= b
  <2>1. SUFFICES ASSUME NEW b \in T PROVE c <= b
    OBVIOUS
  <2>2. b \in Nat /\ c \in Nat
    BY <1>2, <1>3
  <2>3. b < c => <<b, c>> \in NatLess
    BY <2>2 DEF NatLess
  <2>4. ~(b < c)
    BY <1>3, <2>3
  <2>. QED
    BY <2>2, <2>4
<1>5. PICK e \in S : Channel(e) = c /\ \A f \in S : Channel(f) = c => e[2] <= f[2]
  <2>1. PICK d \in S : Channel(d) = c
    BY <1>1, <1>3
  <2>2. CASE \E f \in S : Channel(f) = c /\ f[2] = 0
    BY <2>2, ChannelOfDisk
  <2>3. CASE ~\E f \in S : Channel(f) = c /\ f[2] = 0
    <3>1. \A f \in S : Channel(f) = c => f[2] = 1
      BY <2>3, ChannelOfDisk
    <3>. QED
      BY <2>1, <3>1
  <2>. QED
    BY <2>2, <2>3
<1>6. \A f \in S : e[1] < f[1] \/ (e[1] = f[1] /\ e[2] <= f[2])
  <2>1. ASSUME NEW f \in S PROVE e[1] < f[1] \/ (e[1] = f[1] /\ e[2] <= f[2])
    <3>1. c <= Channel(f) /\ Channel(f) \in Nat /\ c \in Nat
      BY <1>1, <1>2, <1>4, ChannelOfDisk
    <3>2. e[1] = c /\ f[1] = Channel(f)
      BY <1>5 DEF Channel
    <3>. QED
      BY <3>1, <3>2, <1>5
  <2>. QED
    BY <2>1
<1>. QED
  BY <1>6 DEF First

\* Two threads never work on the same channel.
LEMMA Exclusive ==
    ASSUME ControlInv, NEW t \in Threads, NEW u \in Threads, t # u, Works(t), Works(u)
    PROVE  /\ Mine(t) # Mine(u) /\ ~Boots(t) /\ ~Boots(u)
           /\ job[t].op # "identify" /\ job[u].op # "identify"
<1>1. JobFits(t) /\ JobFits(u)
  BY DEF ControlInv
<1>2. ~Boots(t) /\ ~Boots(u)
  BY <1>1 DEF JobFits, Works, WorkPlaces
<1>3. lock[Mine(t)] = t /\ lock[Mine(u)] = u
  BY <1>1, <1>2 DEF JobFits, Boots
<1>. QED
  BY <1>2, <1>3 DEF Boots

\* The disk of a call is there.
LEMMA MineIsChannel ==
    ASSUME ControlInv, NEW t \in Threads, Works(t) \/ pc[t] = "lock_acquire"
    PROVE  /\ job[t].disk \in present /\ job[t].disk \in Disks
           /\ Mine(t) \in Channels /\ job[t] \in Jobs
           /\ device[Mine(t)] \in Registers
<1>1. job[t].disk \in present /\ job[t].disk \in Disks
  BY DEF ControlInv, JobFits, TypeOK
<1>. QED
  BY <1>1, ChannelOfDisk DEF ControlInv, TypeOK, Mine

\* The permits of a completion semaphore are counted.
LEMMA PermitsAreNat ==
    ASSUME ControlInv, NEW c \in Channels
    PROVE  sem[c] \in Nat /\ sem[c] <= Limit /\ Limit \in Nat
<1>1. sem[c] \in 0 .. Limit /\ Limit \in Nat
  BY IdeAssumption DEF ControlInv, TypeOK
<1>. QED
  BY <1>1

\* A thread that a step leaves alone, with its channel, still fits.
LEMMA OthersFit ==
    ASSUME ControlInv, NEW u \in Threads, pc'[u] = pc[u], job'[u] = job[u], present' = present,
           Works(u) => /\ lock'[Mine(u)] = lock[Mine(u)]
                       /\ expecting'[Mine(u)] = expecting[Mine(u)]
                       /\ device'[Mine(u)] = device[Mine(u)],
           Boots(u) => \A w \in Threads \ {u} : pc'[w] = "off"
    PROVE  JobFits(u)'
<1>1. JobFits(u)
  BY DEF ControlInv
<1>2. Mine(u)' = Mine(u) /\ Works(u)' = Works(u) /\ Boots(u)' = Boots(u)
  BY DEF Mine, Works, Boots, Channel
<1>3. pc[u] \in {"issue_pio_command", "sema_down", "wait_while_busy", "transfer"} => Works(u)
  BY DEF Works, WorkPlaces
<1>4. pc[u] \in {"issue_pio_command", "sema_down", "wait_while_busy", "transfer"} => Selects(Mine(u))'
  BY <1>1, <1>2, <1>3 DEF JobFits, Selects, Channel
<1>. QED
  BY <1>1, <1>2, <1>3, <1>4 DEF JobFits

\* A channel that a step leaves alone still fits.
LEMMA ChannelSame ==
    ASSUME NEW c \in Channels, ChannelFits(c), present' = present,
           device'[c] = device[c], expecting'[c] = expecting[c], irq'[c] = irq[c],
           sem'[c] = sem[c]
    PROVE  ChannelFits(c)'
BY DEF ChannelFits, Selects, Channel

LEMMA ConstantsFit ==
    /\ NoJob \in Jobs /\ Free \in Registers
    /\ 0 \in Sectors /\ 0 \in Data /\ 0 \in 0 .. Limit /\ 0 \in 0 .. MaxSectors
    /\ \A i \in Sectors : \A j \in Nat : j <= i => j \in Sectors
<1>1. PICK n \in Sectors : Sectors = 0 .. n
  BY IdeAssumption
<1>2. n \in Nat /\ 0 \in Sectors
  BY <1>1, IdeAssumption
<1>3. 0 \in Data /\ 0 \in 0 .. Limit /\ 0 \in 0 .. MaxSectors
  BY IdeAssumption
<1>4. NoJob \in Jobs /\ Free \in Registers
  BY <1>2, <1>3 DEF NoJob, Jobs, Free, Registers
<1>5. \A i \in Sectors : \A j \in Nat : j <= i => j \in Sectors
  BY <1>1, <1>2
<1>. QED
  BY <1>2, <1>3, <1>4, <1>5

\* What disk_init makes of the threads fits, whichever disks are left.
LEMMA IdentifyFits ==
    ASSUME ControlInv, NEW t \in Threads, Boots(t), present' = present,
           NEW S, S \subseteq present, Identify(t, S)
    PROVE  /\ pc' \in [Threads -> Places] /\ job' \in [Threads -> Jobs]
           /\ \A u \in Threads : JobFits(u)'
<1>0. pc \in [Threads -> Places] /\ job \in [Threads -> Jobs] /\ present \subseteq Disks
  BY DEF ControlInv, TypeOK
<1>1. CASE S = {}
  <2>1. pc' = [u \in Threads |-> "run"] /\ job' = [job EXCEPT ![t] = NoJob]
    BY <1>1 DEF Identify
  <2>2. pc' \in [Threads -> Places] /\ job' \in [Threads -> Jobs]
    BY <2>1, <1>0, ConstantsFit DEF Places
  <2>3. ASSUME NEW u \in Threads PROVE JobFits(u)'
    <3>1. pc'[u] = "run"
      BY <2>1
    <3>2. ~Works(u)' /\ ~Boots(u)'
      BY <3>1 DEF Works, WorkPlaces, Boots
    <3>. QED
      BY <3>1, <3>2 DEF JobFits
  <2>. QED
    BY <2>2, <2>3
<1>2. CASE S # {}
  <2> DEFINE j == [NoJob EXCEPT !.op = "identify", !.disk = First(S)]
  <2>1. pc' = [pc EXCEPT ![t] = "select_sector"] /\ job' = [job EXCEPT ![t] = j]
    BY <1>2 DEF Identify, Goto
  <2>2. First(S) \in present /\ First(S) \in Disks
    BY <1>2, <1>0, FirstIsOne
  <2>3. j \in Jobs /\ j.op = "identify" /\ j.disk \in present
    BY <2>2, ConstantsFit DEF NoJob, Jobs
  <2>4. pc' \in [Threads -> Places] /\ job' \in [Threads -> Jobs]
    BY <2>1, <2>3, <1>0 DEF Places
  <2>5. \A u \in Threads \ {t} : pc[u] = "off" /\ pc'[u] = "off"
    BY <2>1, <1>0 DEF ControlInv, JobFits
  <2>6. pc'[t] = "select_sector" /\ job'[t] = j
    BY <2>1, <1>0
  <2>7. ASSUME NEW u \in Threads \ {t} PROVE JobFits(u)'
    <3>1. ~Works(u)' /\ ~Boots(u)' /\ pc'[u] = "off"
      BY <2>5 DEF Works, WorkPlaces, Boots
    <3>. QED
      BY <3>1 DEF JobFits
  <2>8. JobFits(t)'
    BY <2>3, <2>5, <2>6 DEF JobFits
  <2>. QED
    BY <2>4, <2>7, <2>8
<1>. QED
  BY <1>1, <1>2


\* Outside disk_init nobody is inside it.
LEMMA NobodyBoots ==
    ASSUME ControlInv, NEW t \in Threads, NEW u \in Threads, t # u, pc[t] # "off"
    PROVE  ~Boots(u)
BY DEF ControlInv, JobFits

LEMMA ControlInit == Init => ControlInv
<1> SUFFICES ASSUME Init PROVE ControlInv
  OBVIOUS
<1>1. TypeOK
  <2>1. /\ device \in [Channels -> Registers] /\ job \in [Threads -> Jobs]
        /\ content \in [Disks -> [Sectors -> Data]] /\ latest \in [Disks -> [Sectors -> Data]]
    BY ConstantsFit DEF Init
  <2>2. pc \in [Threads -> Places]
    BY DEF Init, Places
  <2>3. /\ lock \in [Channels -> Threads \cup {None}] /\ sem \in [Channels -> 0 .. Limit]
        /\ expecting \in [Channels -> BOOLEAN] /\ irq \in [Channels -> BOOLEAN]
        /\ asked \in 0 .. MaxSectors
    BY ConstantsFit DEF Init, InitialCount
  <2>. QED
    BY <2>1, <2>2, <2>3 DEF Init, TypeOK
<1>2. ASSUME NEW t \in Threads PROVE JobFits(t)
  <2>1. pc[t] \in {"disk_init", "off"} /\ \A u \in Threads : pc[u] # "off" => u = Boot
    BY DEF Init
  <2>2. ~Works(t)
    BY <2>1 DEF Works, WorkPlaces
  <2>3. Boots(t) => t = Boot
    BY <2>1, <2>2 DEF Boots
  <2>. QED
    BY <2>1, <2>2, <2>3 DEF JobFits
<1>3. ASSUME NEW c \in Channels PROVE ChannelFits(c)
  BY DEF Init, ChannelFits, Free, InitialCount
<1>. QED
  BY <1>1, <1>2, <1>3 DEF ControlInv

LEMMA ControlInterrupt ==
    ASSUME ControlInv, NEW c \in Channels, interrupt_handler(c)
    PROVE  ControlInv'
<1>1. TypeOK'
  BY DEF ControlInv, TypeOK, interrupt_handler, KeInsertQueueDpc, threadVars
<1>2. ASSUME NEW u \in Threads PROVE JobFits(u)'
  BY OthersFit DEF interrupt_handler, threadVars, ControlInv, JobFits
<1>3. ASSUME NEW k \in Channels PROVE ChannelFits(k)'
  BY DEF interrupt_handler, ControlInv, TypeOK, ChannelFits, Selects, Channel
<1>. QED
  BY <1>1, <1>2, <1>3 DEF ControlInv

LEMMA ControlDpc ==
    ASSUME ControlInv, IdeDpcRoutine
    PROVE  ControlInv'
<1>1. ASSUME NEW k \in Channels
      PROVE  sem'[k] \in 0 .. Limit /\ (sem'[k] > 0 => expecting[k] \/ sem[k] > 0)
  <2>1. sem[k] \in 0 .. Limit /\ Limit \in Nat
    BY IdeAssumption DEF ControlInv, TypeOK
  <2>2. CASE BelowLimit
    <3>1. sem'[k] = IF expecting[k] THEN sem[k] + 1 ELSE sem[k]
      BY <2>2 DEF IdeDpcRoutine, Released
    <3>2. expecting[k] => sem[k] < Limit
      BY <2>2 DEF BelowLimit, Released
    <3>. QED
      BY <2>1, <3>1, <3>2
  <2>3. CASE ~BelowLimit
    BY <2>1, <2>3 DEF IdeDpcRoutine
  <2>. QED
    BY <2>2, <2>3
<1>2. sem' \in [Channels -> 0 .. Limit]
  <2>1. sem' = [k \in Channels |-> sem'[k]]
    BY DEF IdeDpcRoutine, ControlInv, TypeOK
  <2>. QED
    BY <1>1, <2>1
<1>3. TypeOK'
  BY <1>2 DEF ControlInv, TypeOK, IdeDpcRoutine, threadVars, deviceVars
<1>4. ASSUME NEW u \in Threads PROVE JobFits(u)'
  BY OthersFit DEF IdeDpcRoutine, threadVars, deviceVars, ControlInv, JobFits
<1>5. ASSUME NEW k \in Channels PROVE ChannelFits(k)'
  BY <1>1 DEF IdeDpcRoutine, deviceVars, ControlInv, ChannelFits, Selects, Channel
<1>. QED
  BY <1>3, <1>4, <1>5 DEF ControlInv

LEMMA ControlDevice ==
    ASSUME ControlInv, NEW c \in Channels, DeviceDone(c)
    PROVE  ControlInv'
<1> DEFINE v == device[c]
<1>1. /\ v \in Registers /\ v.status = "busy" /\ v.command # "none"
      /\ v.disk \in present /\ v.disk \in Disks /\ Channel(v.disk) = c
  BY DEF DeviceDone, ControlInv, TypeOK, ChannelFits, Selects
<1>2. PICK ok \in BOOLEAN :
          /\ IF ok THEN UNCHANGED faults ELSE Fault(v.command)
          /\ device' = [device EXCEPT ![c] =
                IF ok /\ v.command # "data" THEN [v EXCEPT !.status = "drq"] ELSE Drained(v)]
          /\ irq' = [irq EXCEPT ![c] = v.command # "write" \/ ~ok]
          /\ content' = IF ok /\ v.command = "data"
                        THEN [content EXCEPT ![v.disk][v.sector] = v.data] ELSE content
  BY DEF DeviceDone
<1>3. device' \in [Channels -> Registers] /\ device'[c] \in Registers
  <2>1. Drained(v) \in Registers /\ [v EXCEPT !.status = "drq"] \in Registers
    BY <1>1, ConstantsFit DEF Drained, Free, Registers
  <2>. QED
    BY <1>2, <2>1 DEF ControlInv, TypeOK
<1>4. device'[c].disk = v.disk /\ device'[c].status # "busy" /\ \A k \in Channels \ {c} : device'[k] = device[k]
  <2>1. Drained(v).disk = v.disk /\ Drained(v).status = "idle"
    BY DEF Drained, Free
  <2>2. [v EXCEPT !.status = "drq"].disk = v.disk /\ [v EXCEPT !.status = "drq"].status = "drq"
    BY <1>1 DEF Registers
  <2>. QED
    BY <1>2, <2>1, <2>2 DEF ControlInv, TypeOK
<1>5. content' \in [Disks -> [Sectors -> Data]]
  <2>1. v.data \in Data /\ v.sector \in Sectors
    BY <1>1 DEF Registers
  <2>. QED
    BY <1>1, <1>2, <2>1 DEF ControlInv, TypeOK
<1>6. faults' \subseteq {"identify", "read", "write", "data", "late", "idle timeout"}
  BY <1>1, <1>2 DEF ControlInv, TypeOK, Fault, Registers
<1>7. TypeOK'
  BY <1>2, <1>3, <1>5, <1>6 DEF ControlInv, TypeOK, DeviceDone, channelVars, threadVars
<1>8. present' = present /\ lock' = lock /\ expecting' = expecting /\ sem' = sem /\ pc' = pc /\ job' = job
  BY DEF DeviceDone, channelVars, threadVars
<1>9. ASSUME NEW u \in Threads PROVE JobFits(u)'
  <2>1. JobFits(u)
    BY DEF ControlInv
  <2>2. Mine(u)' = Mine(u) /\ Works(u)' = Works(u) /\ Boots(u)' = Boots(u)
    BY <1>8 DEF Mine, Works, Boots, Channel
  <2>3. pc[u] = "transfer" => Mine(u) # c
    BY <1>1, <2>1 DEF JobFits
  <2>4. pc[u] \in {"issue_pio_command", "sema_down", "wait_while_busy", "transfer"} =>
           Mine(u) \in Channels
    BY MineIsChannel DEF Works, WorkPlaces
  <2>5. Selects(c)'
    BY <1>1, <1>4, <1>8 DEF Selects, Channel
  <2>6. pc[u] \in {"issue_pio_command", "sema_down", "wait_while_busy", "transfer"} => Selects(Mine(u))'
    <3>1. CASE Mine(u) = c
      BY <2>2, <2>5, <3>1 DEF Selects, Channel
    <3>2. CASE Mine(u) # c
      BY <2>1, <2>2, <2>4, <3>2, <1>4, <1>8 DEF JobFits, Selects, Channel
    <3>. QED
      BY <3>1, <3>2
  <2>7. pc[u] = "transfer" => device'[Mine(u)].status = "drq"
    BY <2>1, <2>3, <2>4, <1>4 DEF JobFits
  <2>. QED
    BY <1>8, <2>1, <2>2, <2>6, <2>7 DEF JobFits
<1>10. ASSUME NEW k \in Channels PROVE ChannelFits(k)'
  <2>1. CASE k # c
    BY <2>1, <1>2, <1>4, <1>8, ChannelSame DEF ControlInv, TypeOK
  <2>2. CASE k = c
    <3>1. Selects(c)'
      BY <1>1, <1>4, <1>8 DEF Selects, Channel
    <3>2. device'[c].status # "idle" => device'[c].command # "none"
      BY <1>1, <1>2 DEF ControlInv, TypeOK, Drained, Free, Registers
    <3>3. \E d \in present' : Channel(d) = c
      BY <1>1, <1>8
    <3>. QED
      BY <2>2, <3>1, <3>2, <3>3 DEF ChannelFits, Channel
  <2>. QED
    BY <2>1, <2>2
<1>. QED
  BY <1>7, <1>9, <1>10 DEF ControlInv


\* A thread that works disturbs no other: they work on other channels.
LEMMA OtherThreads ==
    ASSUME ControlInv, NEW t \in Threads, NEW u \in Threads, t # u, Works(t),
           pc'[u] = pc[u], job'[u] = job[u], present' = present,
           \A c \in Channels \ {Mine(t)} :
              lock'[c] = lock[c] /\ expecting'[c] = expecting[c] /\ device'[c] = device[c]
    PROVE  JobFits(u)'
<1>1. ~Boots(u)
  BY NobodyBoots DEF Works, WorkPlaces
<1>2. Works(u) => Mine(u) \in Channels \ {Mine(t)}
  BY Exclusive, MineIsChannel
<1>. QED
  BY <1>1, <1>2, OthersFit

\* A step that changes neither threads nor channels.
LEMMA ControlStops ==
    ASSUME ControlInv, NEW why \in {"no disk", "contended lock"}, Stops(why)
    PROVE  ControlInv'
<1>1. TypeOK'
  BY DEF ControlInv, TypeOK, Stops, channelVars, deviceVars, threadVars
<1>2. ASSUME NEW u \in Threads PROVE JobFits(u)'
  BY OthersFit DEF Stops, channelVars, deviceVars, threadVars, ControlInv, JobFits
<1>3. ASSUME NEW k \in Channels PROVE ChannelFits(k)'
  BY ChannelSame DEF Stops, channelVars, deviceVars, ControlInv
<1>. QED
  BY <1>1, <1>2, <1>3 DEF ControlInv

LEMMA ControlDiskInit ==
    ASSUME ControlInv, NEW t \in Threads, disk_init(t)
    PROVE  ControlInv'
<1>1. Boots(t) /\ present' = present /\ Identify(t, present)
  BY DEF disk_init, At, Boots
<1>2. /\ pc' \in [Threads -> Places] /\ job' \in [Threads -> Jobs]
      /\ \A u \in Threads : JobFits(u)'
  BY <1>1, IdentifyFits
<1>3. TypeOK'
  BY <1>2 DEF ControlInv, TypeOK, disk_init, channelVars, deviceVars
<1>4. ASSUME NEW k \in Channels PROVE ChannelFits(k)'
  BY ChannelSame DEF disk_init, channelVars, deviceVars, ControlInv
<1>. QED
  BY <1>2, <1>3, <1>4 DEF ControlInv

LEMMA ControlRequest ==
    ASSUME ControlInv, NEW t \in Threads, Request(t)
    PROVE  ControlInv'
<1>1. PICK op \in {"read", "write"}, d \in Disks, s \in Sectors, n \in 1 .. Cardinality(Sectors),
           x \in Data :
          /\ s + n - 1 \in Sectors
          /\ asked + n <= MaxSectors
          /\ IF d \in is_ata
             THEN /\ job' = [job EXCEPT ![t] =
                         [op |-> op, disk |-> d, sector |-> s, left |-> n, data |-> x]]
                  /\ Goto(t, "lock_acquire")
                  /\ asked' = asked + n
                  /\ UNCHANGED <<is_ata, present, channelVars, deviceVars, latest, faults, bug>>
             ELSE Stops("no disk")
  BY DEF Request
<1>2. CASE d \notin is_ata
  BY <1>1, <1>2, ControlStops
<1>3. CASE d \in is_ata
  <2> DEFINE j == [op |-> op, disk |-> d, sector |-> s, left |-> n, data |-> x]
  <2>1. /\ job' = [job EXCEPT ![t] = j] /\ pc' = [pc EXCEPT ![t] = "lock_acquire"]
        /\ asked' = asked + n
        /\ UNCHANGED <<is_ata, present, channelVars, deviceVars, latest, faults, bug>>
    BY <1>1, <1>3 DEF Goto
  <2>2. n \in Nat /\ n > 0
    OBVIOUS
  <2>3. j \in Jobs
    BY <2>2 DEF Jobs
  <2>4. asked' \in 0 .. MaxSectors
    <3>1. asked \in 0 .. MaxSectors /\ MaxSectors \in Nat
      BY IdeAssumption DEF ControlInv, TypeOK
    <3>2. asked + n <= MaxSectors
      BY <1>1
    <3>. QED
      BY <2>1, <2>2, <3>1, <3>2
  <2>5. TypeOK'
    BY <2>1, <2>3, <2>4 DEF ControlInv, TypeOK, channelVars, deviceVars, Places
  <2>6. pc[t] = "run" /\ pc'[t] = "lock_acquire" /\ job'[t] = j
    BY <2>1 DEF Request, At, ControlInv, TypeOK
  <2>7. JobFits(t)'
    <3>1. ~Works(t)' /\ ~Boots(t)'
      BY <2>6 DEF Works, WorkPlaces, Boots
    <3>2. d \in present'
      BY <1>3, <2>1 DEF ControlInv, TypeOK
    <3>3. /\ job'[t].op = op /\ job'[t].disk = d /\ job'[t].left = n /\ job'[t].sector = s
      BY <2>6
    <3>4. job'[t].left > 0 /\ job'[t].sector + job'[t].left - 1 \in Sectors
      BY <1>1, <2>2, <3>3
    <3>. QED
      BY <2>6, <3>1, <3>2, <3>3, <3>4 DEF JobFits
  <2>8. ASSUME NEW u \in Threads \ {t} PROVE JobFits(u)'
    <3>1. ~Boots(u)
      BY <2>6, NobodyBoots
    <3>. QED
      BY <2>1, <3>1, OthersFit DEF channelVars, deviceVars, ControlInv, TypeOK
  <2>9. ASSUME NEW k \in Channels PROVE ChannelFits(k)'
    BY <2>1, ChannelSame DEF channelVars, deviceVars, ControlInv
  <2>. QED
    BY <2>5, <2>7, <2>8, <2>9 DEF ControlInv
<1>. QED
  BY <1>2, <1>3

LEMMA ControlAcquire ==
    ASSUME ControlInv, NEW t \in Threads, lock_acquire(t)
    PROVE  ControlInv'
<1>1. CASE lock[Mine(t)] # None
  BY <1>1, ControlStops DEF lock_acquire
<1>2. CASE lock[Mine(t)] = None
  <2>1. /\ lock' = [lock EXCEPT ![Mine(t)] = t]
        /\ latest' = IF job[t].op = "write"
                     THEN [latest EXCEPT ![job[t].disk][job[t].sector] = job[t].data] ELSE latest
        /\ pc' = [pc EXCEPT ![t] = "select_sector"]
        /\ UNCHANGED <<is_ata, present, expecting, sem, dpc, deviceVars, faults, job, asked, bug>>
    BY <1>2 DEF lock_acquire, Goto
  <2>2. pc[t] = "lock_acquire" /\ JobFits(t)
    BY DEF lock_acquire, At, ControlInv
  <2>3. job[t].disk \in Disks /\ Mine(t) \in Channels /\ job[t] \in Jobs
    BY <2>2, MineIsChannel
  <2>4. job[t].sector \in Sectors /\ job[t].data \in Data
    BY <2>3 DEF Jobs
  <2>5. TypeOK'
    <3>1. latest' \in [Disks -> [Sectors -> Data]]
      BY <2>1, <2>3, <2>4 DEF ControlInv, TypeOK
    <3>. QED
      BY <2>1, <2>3, <3>1 DEF ControlInv, TypeOK, deviceVars, Places
  <2>6. pc'[t] = "select_sector" /\ job'[t] = job[t] /\ lock'[Mine(t)] = t
    BY <2>1, <2>3 DEF ControlInv, TypeOK
  <2>7. JobFits(t)'
    <3>1. ~Boots(t)' /\ Mine(t)' = Mine(t)
      BY <2>2, <2>6 DEF JobFits, Boots, Works, WorkPlaces, Mine, Channel
    <3>. QED
      BY <2>1, <2>2, <2>6, <3>1 DEF JobFits
  <2>8. ASSUME NEW u \in Threads \ {t} PROVE JobFits(u)'
    <3>1. ~Boots(u)
      BY <2>2, NobodyBoots
    <3>2. Works(u) => lock[Mine(u)] = u
      BY <3>1 DEF ControlInv, JobFits, Boots
    <3>3. Works(u) => Mine(u) # Mine(t)
      BY <1>2, <3>2, IdeAssumption
    <3>4. Works(u) => lock'[Mine(u)] = lock[Mine(u)]
      BY <2>1, <3>3, MineIsChannel DEF ControlInv, TypeOK
    <3>. QED
      BY <2>1, <3>1, <3>4, OthersFit DEF deviceVars, ControlInv, TypeOK
  <2>9. ASSUME NEW k \in Channels PROVE ChannelFits(k)'
    BY <2>1, ChannelSame DEF deviceVars, ControlInv
  <2>. QED
    BY <2>5, <2>7, <2>8, <2>9 DEF ControlInv
<1>. QED
  BY <1>1, <1>2


LEMMA ControlSelect ==
    ASSUME ControlInv, NEW t \in Threads, select_sector(t)
    PROVE  ControlInv'
<1> PICK c : c = Mine(t)
  OBVIOUS
<1>1. pc[t] = "select_sector" /\ JobFits(t) /\ Works(t)
  BY DEF select_sector, At, ControlInv, Works, WorkPlaces
<1>2. job[t].disk \in present /\ c \in Channels /\ job[t] \in Jobs /\ device[c] \in Registers
  BY <1>1, MineIsChannel
<1>3. /\ pc' = [pc EXCEPT ![t] = "issue_pio_command"]
      /\ UNCHANGED <<is_ata, present, channelVars, content, irq, latest, job, asked, bug>>
  BY DEF select_sector, Goto
<1>4. /\ device'[c] \in Registers /\ device' \in [Channels -> Registers]
      /\ \A k \in Channels \ {c} : device'[k] = device[k]
      /\ device'[c].status = device[c].status /\ device'[c].command = device[c].command
      /\ device'[c].disk \in present /\ Channel(device'[c].disk) = c
      /\ faults' \subseteq faults \cup {"idle timeout"}
  <2>1. CASE /\ Idle(c) /\ device' = [device EXCEPT ![c] = Selected(t, @)]
             /\ UNCHANGED faults
    <3>1. device' = [device EXCEPT ![c] = Selected(t, device[c])]
      BY <2>1, <1>2 DEF ControlInv, TypeOK, Selected
    <3>2. /\ Selected(t, device[c]) \in Registers
          /\ Selected(t, device[c]).disk = job[t].disk
          /\ Selected(t, device[c]).status = device[c].status
          /\ Selected(t, device[c]).command = device[c].command
      BY <1>2 DEF Selected, Registers, Jobs
    <3>. QED
      BY <2>1, <3>1, <3>2, <1>2 DEF ControlInv, TypeOK, Mine
  <2>2. CASE ~Idle(c) /\ Fault("idle timeout") /\ UNCHANGED device
    <3>1. Selects(c)
      BY <2>2, <1>2 DEF ControlInv, ChannelFits, Idle
    <3>. QED
      BY <2>2, <3>1, <1>2 DEF Selects, ControlInv, TypeOK, Fault
  <2>. QED
    BY <2>1, <2>2 DEF select_sector
<1>5. TypeOK'
  BY <1>3, <1>4 DEF ControlInv, TypeOK, channelVars, Places
<1>6. pc'[t] = "issue_pio_command" /\ job'[t] = job[t] /\ present' = present
  BY <1>3 DEF ControlInv, TypeOK
<1>7. JobFits(t)'
  <2>1. Mine(t)' = c /\ Works(t)' /\ Boots(t)' = Boots(t)
    BY <1>1, <1>6 DEF Mine, Works, WorkPlaces, Boots, Channel
  <2>2. Selects(c)'
    BY <1>4, <1>6 DEF Selects, Channel
  <2>3. Boots(t) => \A u \in Threads \ {t} : pc'[u] = "off"
    <3>1. \A u \in Threads \ {t} : pc'[u] = pc[u]
      BY <1>3 DEF ControlInv, TypeOK
    <3>. QED
      BY <1>1, <3>1 DEF JobFits
  <2>. QED
    BY <1>1, <1>3, <1>6, <2>1, <2>2, <2>3 DEF JobFits, channelVars, Selects, Channel
<1>8. ASSUME NEW u \in Threads \ {t} PROVE JobFits(u)'
  BY <1>1, <1>3, <1>4, OtherThreads DEF channelVars, ControlInv, TypeOK
<1>9. ASSUME NEW k \in Channels PROVE ChannelFits(k)'
  <2>1. ChannelFits(k)
    BY DEF ControlInv
  <2>2. CASE k = c
    BY <2>1, <2>2, <1>3, <1>4, <1>6 DEF ChannelFits, Selects, Channel, channelVars
  <2>3. CASE k # c
    BY <2>1, <2>3, <1>3, <1>4, ChannelSame DEF channelVars
  <2>. QED
    BY <2>2, <2>3
<1>. QED
  BY <1>5, <1>7, <1>8, <1>9 DEF ControlInv

LEMMA ControlIssue ==
    ASSUME ControlInv, NEW t \in Threads, issue_pio_command(t)
    PROVE  ControlInv'
<1> PICK c : c = Mine(t)
  OBVIOUS
<1>1. pc[t] = "issue_pio_command" /\ JobFits(t) /\ Works(t) /\ Selects(c)
  BY DEF issue_pio_command, At, ControlInv, Works, WorkPlaces, JobFits
<1>2. /\ job[t].disk \in present /\ c \in Channels /\ job[t] \in Jobs /\ device[c] \in Registers
      /\ job[t].op # "none"
  BY <1>1, MineIsChannel DEF JobFits
<1>3. /\ pc' = [pc EXCEPT ![t] = AfterCommand(t)]
      /\ expecting' = [expecting EXCEPT ![c] = TRUE]
      /\ device' = [device EXCEPT ![c] = IF device[c].status = "idle"
             THEN [device[c] EXCEPT !.status = "busy", !.command = job[t].op] ELSE device[c]]
      /\ UNCHANGED <<is_ata, present, lock, sem, dpc, content, irq, latest, faults, job,
                   asked, bug>>
  BY <1>2 DEF issue_pio_command, Goto, ControlInv, TypeOK
<1>4. /\ device'[c] \in Registers /\ device' \in [Channels -> Registers]
      /\ \A k \in Channels \ {c} : device'[k] = device[k] /\ expecting'[k] = expecting[k]
      /\ device'[c].disk = device[c].disk /\ expecting'[c]
      /\ device'[c].command # "none"
  <2>1. [device[c] EXCEPT !.status = "busy", !.command = job[t].op] \in Registers
    BY <1>2 DEF Registers, Jobs
  <2>2. device[c].status # "idle" => device[c].command # "none"
    BY <1>2 DEF ControlInv, ChannelFits
  <2>. QED
    BY <1>2, <1>3, <2>1, <2>2 DEF ControlInv, TypeOK, Registers
<1>5. AfterCommand(t) \in {"wait_while_busy", "sema_down"}
  BY DEF AfterCommand
<1>6. TypeOK'
  BY <1>3, <1>4, <1>5 DEF ControlInv, TypeOK, Places
<1>7. pc'[t] \in {"wait_while_busy", "sema_down"} /\ job'[t] = job[t] /\ present' = present
  BY <1>3, <1>5 DEF ControlInv, TypeOK
<1>8. JobFits(t)'
  <2>1. Mine(t)' = c /\ Works(t)' /\ Boots(t)' = Boots(t)
    BY <1>1, <1>7 DEF Mine, Works, WorkPlaces, Boots, Channel
  <2>2. Selects(c)'
    BY <1>1, <1>4, <1>7 DEF Selects, Channel
  <2>3. Boots(t) => \A u \in Threads \ {t} : pc'[u] = "off"
    <3>1. \A u \in Threads \ {t} : pc'[u] = pc[u]
      BY <1>3 DEF ControlInv, TypeOK
    <3>. QED
      BY <1>1, <3>1 DEF JobFits
  <2>. QED
    BY <1>1, <1>3, <1>4, <1>7, <2>1, <2>2, <2>3 DEF JobFits, Selects, Channel
<1>9. ASSUME NEW u \in Threads \ {t} PROVE JobFits(u)'
  BY <1>1, <1>3, <1>4, OtherThreads DEF ControlInv, TypeOK
<1>10. ASSUME NEW k \in Channels PROVE ChannelFits(k)'
  <2>1. ChannelFits(k)
    BY DEF ControlInv
  <2>2. CASE k = c
    <3>1. Selects(c)'
      BY <1>1, <1>4, <1>7 DEF Selects, Channel
    <3>2. \E d \in present' : Channel(d) = c
      BY <1>2, <1>7 DEF Mine
    <3>. QED
      BY <2>2, <3>1, <3>2, <1>4 DEF ChannelFits, Channel
  <2>3. CASE k # c
    BY <2>1, <2>3, <1>3, <1>4, ChannelSame
  <2>. QED
    BY <2>2, <2>3
<1>. QED
  BY <1>6, <1>8, <1>9, <1>10 DEF ControlInv

LEMMA ControlDown ==
    ASSUME ControlInv, NEW t \in Threads, sema_down(t)
    PROVE  ControlInv'
<1> PICK c : c = Mine(t)
  OBVIOUS
<1> DEFINE next == IF job[t].op = "write" THEN "lock_release" ELSE "wait_while_busy"
<1>1. pc[t] = "sema_down" /\ JobFits(t) /\ Works(t) /\ Selects(c) /\ sem[c] > 0
  BY DEF sema_down, At, ControlInv, Works, WorkPlaces, JobFits
<1>2. c \in Channels /\ job[t] \in Jobs /\ job[t].op # "none"
  BY <1>1, MineIsChannel DEF JobFits
<1>3. /\ sem' = [sem EXCEPT ![c] = sem[c] - 1] /\ pc' = [pc EXCEPT ![t] = next]
      /\ UNCHANGED <<is_ata, present, lock, expecting, dpc, deviceVars, latest, faults, job, asked, bug>>
  BY <1>2 DEF sema_down, Goto, ControlInv, TypeOK
<1>4. next \in {"lock_release", "wait_while_busy"} /\ (next = "lock_release" <=> job[t].op = "write")
  OBVIOUS
<1>5. sem[c] \in 0 .. Limit /\ sem[c] - 1 \in 0 .. Limit
  <2>1. sem[c] \in 0 .. Limit /\ Limit \in Nat
    BY <1>2, IdeAssumption DEF ControlInv, TypeOK
  <2>. QED
    BY <1>1, <2>1
<1>6. TypeOK'
  BY <1>3, <1>4, <1>5 DEF ControlInv, TypeOK, Places, deviceVars
<1>7. pc'[t] = next /\ job'[t] = job[t] /\ present' = present
  BY <1>3 DEF ControlInv, TypeOK
<1>8. JobFits(t)'
  <2>1. Mine(t)' = c /\ Works(t)' /\ Boots(t)' = Boots(t)
    BY <1>1, <1>4, <1>7 DEF Mine, Works, WorkPlaces, Boots, Channel
  <2>2. Selects(c)'
    BY <1>1, <1>3, <1>7 DEF Selects, Channel, deviceVars
  <2>3. Boots(t) => \A u \in Threads \ {t} : pc'[u] = "off"
    <3>1. \A u \in Threads \ {t} : pc'[u] = pc[u]
      BY <1>3 DEF ControlInv, TypeOK
    <3>. QED
      BY <1>1, <3>1 DEF JobFits
  <2>. QED
    BY <1>1, <1>3, <1>4, <1>7, <2>1, <2>2, <2>3 DEF JobFits, Selects, Channel
<1>9. ASSUME NEW u \in Threads \ {t} PROVE JobFits(u)'
  BY <1>1, <1>3, OtherThreads DEF ControlInv, TypeOK, deviceVars
<1>10. ASSUME NEW k \in Channels PROVE ChannelFits(k)'
  <2>1. ChannelFits(k)
    BY DEF ControlInv
  <2>2. sem'[k] > 0 => sem[k] > 0
    BY <1>1, <1>3 DEF ControlInv, TypeOK
  <2>. QED
    BY <1>3, <2>1, <2>2 DEF ChannelFits, Selects, Channel, deviceVars
<1>. QED
  BY <1>6, <1>8, <1>9, <1>10 DEF ControlInv


\* wait_while_busy fails, after the disk is idle again or because it is too slow.
LEMMA ControlFailed ==
    ASSUME ControlInv, NEW t \in Threads, pc[t] = "wait_while_busy", Failed(t),
           faults' \subseteq faults \cup {"late"}
    PROVE  ControlInv'
<1>1. Works(t)
  BY DEF Works, WorkPlaces
<1>2. CASE job[t].op = "identify"
  <2>1. /\ is_ata' = is_ata \ {job[t].disk}
        /\ Identify(t, Later(job[t].disk))
        /\ UNCHANGED <<present, channelVars, device, content, irq, latest, asked, bug>>
    BY <1>2 DEF Failed
  <2>2. Boots(t) /\ Later(job[t].disk) \subseteq present
    BY <1>1, <1>2 DEF Boots, Later, ControlInv, TypeOK
  <2>3. /\ pc' \in [Threads -> Places] /\ job' \in [Threads -> Jobs]
        /\ \A u \in Threads : JobFits(u)'
    BY <2>1, <2>2, IdentifyFits
  <2>4. TypeOK'
    BY <2>1, <2>3 DEF ControlInv, TypeOK, channelVars
  <2>5. ASSUME NEW k \in Channels PROVE ChannelFits(k)'
    BY <2>1, ChannelSame DEF channelVars, ControlInv
  <2>. QED
    BY <2>3, <2>4, <2>5 DEF ControlInv
<1>3. CASE job[t].op # "identify"
  <2>1. /\ bug' = "disk failed"
        /\ UNCHANGED <<is_ata, present, channelVars, device, content, irq, latest, threadVars,
                        asked>>
    BY <1>3 DEF Failed
  <2>2. TypeOK'
    BY <2>1 DEF ControlInv, TypeOK, channelVars, threadVars
  <2>3. ASSUME NEW u \in Threads PROVE JobFits(u)'
    BY <2>1, OthersFit DEF channelVars, threadVars, ControlInv, JobFits
  <2>4. ASSUME NEW k \in Channels PROVE ChannelFits(k)'
    BY <2>1, ChannelSame DEF channelVars, ControlInv
  <2>. QED
    BY <2>2, <2>3, <2>4 DEF ControlInv
<1>. QED
  BY <1>2, <1>3

LEMMA ControlWait ==
    ASSUME ControlInv, NEW t \in Threads, wait_while_busy(t)
    PROVE  ControlInv'
<1> PICK c : c = Mine(t)
  OBVIOUS
<1>1. pc[t] = "wait_while_busy" /\ JobFits(t) /\ Works(t) /\ Selects(c)
  BY DEF wait_while_busy, At, ControlInv, Works, WorkPlaces, JobFits
<1>2. CASE (device[c].status = "idle" /\ UNCHANGED faults /\ Failed(t))
           \/ (Fault("late") /\ Failed(t))
  BY <1>1, <1>2, ControlFailed DEF Fault
<1>3. CASE /\ device[c].status = "drq"
           /\ Goto(t, "transfer")
           /\ UNCHANGED <<is_ata, present, channelVars, deviceVars, latest, faults, job, asked, bug>>
  <2>1. TypeOK'
    BY <1>3 DEF ControlInv, TypeOK, Places, channelVars, deviceVars, Goto
  <2>2. pc'[t] = "transfer" /\ \A u \in Threads \ {t} : pc'[u] = pc[u]
    BY <1>3 DEF ControlInv, TypeOK, Goto
  <2>3. JobFits(t)'
    <3>1. Mine(t)' = c /\ Works(t)' /\ Boots(t)' = Boots(t)
      BY <1>1, <1>3, <2>2 DEF Mine, Works, WorkPlaces, Boots, Channel
    <3>2. Selects(c)'
      BY <1>1, <1>3 DEF Selects, Channel, deviceVars
    <3>3. Boots(t) => \A u \in Threads \ {t} : pc'[u] = "off"
      BY <1>1, <2>2 DEF JobFits
    <3>. QED
      BY <1>1, <1>3, <2>2, <3>1, <3>2, <3>3 DEF JobFits, channelVars, deviceVars, Selects, Channel
  <2>4. ASSUME NEW u \in Threads \ {t} PROVE JobFits(u)'
    BY <1>1, <1>3, <2>2, OtherThreads DEF channelVars, deviceVars
  <2>5. ASSUME NEW k \in Channels PROVE ChannelFits(k)'
    BY <1>3, ChannelSame DEF channelVars, deviceVars, ControlInv
  <2>. QED
    BY <2>1, <2>3, <2>4, <2>5 DEF ControlInv
<1>. QED
  BY <1>2, <1>3 DEF wait_while_busy

LEMMA ControlInput ==
    ASSUME ControlInv, NEW t \in Threads, input_sector(t)
    PROVE  ControlInv'
<1> PICK c : c = Mine(t)
  OBVIOUS
<1>1. /\ pc[t] = "transfer" /\ job[t].op # "write" /\ JobFits(t) /\ Works(t)
      /\ Selects(c) /\ job[t].op # "none"
  BY DEF input_sector, At, ControlInv, Works, WorkPlaces, JobFits
<1>2. c \in Channels /\ job[t] \in Jobs /\ device[c] \in Registers /\ device[c].disk \in Disks
  BY <1>1, MineIsChannel DEF Selects, ControlInv, TypeOK
<1>3. /\ device' = [device EXCEPT ![c] = Drained(device[c])]
      /\ UNCHANGED <<is_ata, present, channelVars, content, irq, latest, faults, asked, bug>>
  BY <1>2 DEF input_sector, ControlInv, TypeOK
<1>4. /\ device' \in [Channels -> Registers] /\ device'[c].status = "idle"
      /\ \A k \in Channels \ {c} : device'[k] = device[k]
  <2>1. Drained(device[c]) \in Registers /\ Drained(device[c]).status = "idle"
    BY <1>2, ConstantsFit DEF Drained, Free, Registers
  <2>. QED
    BY <1>2, <1>3, <2>1 DEF ControlInv, TypeOK
<1>5. ASSUME NEW k \in Channels PROVE ChannelFits(k)'
  <2>1. ChannelFits(k)
    BY DEF ControlInv
  <2>2. CASE k = c
    BY <2>1, <2>2, <1>3, <1>4 DEF ChannelFits, Channel, channelVars
  <2>3. CASE k # c
    BY <2>1, <2>3, <1>3, <1>4, ChannelSame DEF channelVars
  <2>. QED
    BY <2>2, <2>3
<1>6. /\ pc' \in [Threads -> Places] /\ job' \in [Threads -> Jobs]
      /\ \A u \in Threads : JobFits(u)'
  <2>1. CASE job[t].op = "identify"
    <3>1. Boots(t) /\ Later(job[t].disk) \subseteq present
      BY <1>1, <2>1 DEF Boots, Later, ControlInv, TypeOK
    <3>2. Identify(t, Later(job[t].disk)) /\ present' = present
      BY <2>1, <1>3 DEF input_sector
    <3>. QED
      BY <3>1, <3>2, IdentifyFits
  <2>2. CASE job[t].op # "identify"
    <3>1. PICK x : x = content[device[c].disk][device[c].sector]
      OBVIOUS
    <3>2. x \in Data
      <4>1. device[c].sector \in Sectors /\ content \in [Disks -> [Sectors -> Data]]
        BY <1>2 DEF Registers, ControlInv, TypeOK
      <4>. QED
        BY <1>2, <3>1, <4>1
    <3>3. job' = [job EXCEPT ![t].data = x] /\ pc' = [pc EXCEPT ![t] = "lock_release"]
      BY <2>2, <3>1 DEF input_sector, Goto
    <3>4. /\ job'[t] \in Jobs /\ job'[t].op = job[t].op /\ job'[t].disk = job[t].disk
          /\ job'[t].sector = job[t].sector /\ job'[t].left = job[t].left
          /\ pc'[t] = "lock_release"
      BY <1>2, <3>2, <3>3 DEF ControlInv, TypeOK, Jobs
    <3>5. \A u \in Threads \ {t} : pc'[u] = pc[u] /\ job'[u] = job[u]
      BY <3>3 DEF ControlInv, TypeOK
    <3>6. pc' \in [Threads -> Places] /\ job' \in [Threads -> Jobs]
      BY <3>3, <3>4 DEF ControlInv, TypeOK, Places
    <3>7. JobFits(t)'
      <4>1. Mine(t)' = c /\ Works(t)' /\ ~Boots(t)'
        BY <2>2, <3>4 DEF Mine, Works, WorkPlaces, Boots, Channel
      <4>2. job[t].op \in {"read", "write"}
        BY <1>1, <1>2, <2>2 DEF Jobs
      <4>. QED
        BY <1>1, <1>3, <2>2, <3>4, <4>1, <4>2 DEF JobFits, channelVars
    <3>8. ASSUME NEW u \in Threads \ {t} PROVE JobFits(u)'
      BY <1>1, <1>3, <1>4, <3>5, OtherThreads DEF channelVars
    <3>. QED
      BY <3>6, <3>7, <3>8
  <2>. QED
    BY <2>1, <2>2
<1>7. TypeOK'
  BY <1>3, <1>4, <1>6 DEF ControlInv, TypeOK, channelVars
<1>. QED
  BY <1>5, <1>6, <1>7 DEF ControlInv

LEMMA ControlOutput ==
    ASSUME ControlInv, NEW t \in Threads, output_sector(t)
    PROVE  ControlInv'
<1> PICK c : c = Mine(t)
  OBVIOUS
<1>1. /\ pc[t] = "transfer" /\ job[t].op = "write" /\ JobFits(t) /\ Works(t) /\ Selects(c)
  BY DEF output_sector, At, ControlInv, Works, WorkPlaces, JobFits
<1>2. c \in Channels /\ job[t] \in Jobs /\ device[c] \in Registers
  BY <1>1, MineIsChannel
<1>3. /\ device' = [device EXCEPT ![c] =
             [device[c] EXCEPT !.status = "busy", !.command = "data", !.data = job[t].data]]
      /\ pc' = [pc EXCEPT ![t] = "sema_down"]
      /\ UNCHANGED <<is_ata, present, channelVars, content, irq, latest, faults, job, asked,
                   bug>>
  BY <1>2 DEF output_sector, Goto, ControlInv, TypeOK
<1>4. /\ device' \in [Channels -> Registers] /\ device'[c].disk = device[c].disk
      /\ device'[c].command = "data"
      /\ \A k \in Channels \ {c} : device'[k] = device[k]
  <2>1. [device[c] EXCEPT !.status = "busy", !.command = "data", !.data = job[t].data] \in Registers
    BY <1>2 DEF Registers, Jobs
  <2>. QED
    BY <1>2, <1>3, <2>1 DEF ControlInv, TypeOK, Registers
<1>5. TypeOK'
  BY <1>3, <1>4 DEF ControlInv, TypeOK, channelVars, Places
<1>6. pc'[t] = "sema_down" /\ \A u \in Threads \ {t} : pc'[u] = pc[u]
  BY <1>3 DEF ControlInv, TypeOK
<1>7. Selects(c)'
  BY <1>1, <1>3, <1>4 DEF Selects, Channel
<1>8. JobFits(t)'
  <2>1. Mine(t)' = c /\ Works(t)' /\ ~Boots(t)'
    BY <1>1, <1>3, <1>6 DEF Mine, Works, WorkPlaces, Boots, Channel
  <2>. QED
    BY <1>1, <1>3, <1>6, <1>7, <2>1 DEF JobFits, channelVars, Selects, Channel
<1>9. ASSUME NEW u \in Threads \ {t} PROVE JobFits(u)'
  BY <1>1, <1>3, <1>4, <1>6, OtherThreads DEF channelVars
<1>10. ASSUME NEW k \in Channels PROVE ChannelFits(k)'
  <2>1. ChannelFits(k)
    BY DEF ControlInv
  <2>2. CASE k = c
    BY <2>1, <2>2, <1>3, <1>4, <1>7 DEF ChannelFits, Channel, channelVars
  <2>3. CASE k # c
    BY <2>1, <2>3, <1>3, <1>4, ChannelSame DEF channelVars
  <2>. QED
    BY <2>2, <2>3
<1>. QED
  BY <1>5, <1>8, <1>9, <1>10 DEF ControlInv

LEMMA ControlRelease ==
    ASSUME ControlInv, NEW t \in Threads, lock_release(t)
    PROVE  ControlInv'
<1> PICK c : c = Mine(t)
  OBVIOUS
<1>1. /\ pc[t] = "lock_release" /\ job[t].op \in {"read", "write"} /\ JobFits(t) /\ Works(t)
  BY DEF lock_release, At, ControlInv, Works, WorkPlaces, JobFits
<1>2. c \in Channels /\ job[t] \in Jobs /\ job[t].disk \in present
  BY <1>1, MineIsChannel
<1>3. /\ lock' = [lock EXCEPT ![c] = None]
      /\ UNCHANGED <<is_ata, present, expecting, sem, dpc, deviceVars, latest, faults, asked, bug>>
  BY DEF lock_release
<1>4. \A k \in Channels \ {c} : lock'[k] = lock[k]
  BY <1>3 DEF ControlInv, TypeOK
<1>5. /\ pc' \in [Threads -> Places] /\ job' \in [Threads -> Jobs]
      /\ \A u \in Threads \ {t} : pc'[u] = pc[u] /\ job'[u] = job[u]
      /\ JobFits(t)'
  <2>1. CASE job[t].left > 1
    <3> DEFINE j == [job[t] EXCEPT !.sector = job[t].sector + 1, !.left = job[t].left - 1]
    <3>1. job' = [job EXCEPT ![t] = j] /\ pc' = [pc EXCEPT ![t] = "lock_acquire"]
      BY <2>1 DEF lock_release, Goto, ControlInv, TypeOK
    <3>2. /\ job[t].sector + job[t].left - 1 \in Sectors /\ job[t].sector \in Sectors
          /\ job[t].left \in Nat /\ Sectors \subseteq Nat
      BY <1>1, <1>2, IdeAssumption DEF JobFits, Jobs
    <3>3. /\ job[t].sector + 1 \in Sectors /\ job[t].left - 1 \in Nat /\ job[t].left - 1 > 0
          /\ (job[t].sector + 1) + (job[t].left - 1) - 1 \in Sectors
      <4>0. job[t].sector \in Nat /\ job[t].left \in Nat
        BY <3>2
      <4>1. (job[t].sector + 1) + (job[t].left - 1) - 1 = job[t].sector + job[t].left - 1
        BY <4>0
      <4>2. job[t].sector + 1 \in Nat /\ job[t].sector + 1 <= job[t].sector + job[t].left - 1
        BY <2>1, <4>0
      <4>3. job[t].left - 1 \in Nat /\ job[t].left - 1 > 0
        BY <2>1, <3>2
      <4>. QED
        BY <3>2, <4>1, <4>2, <4>3, ConstantsFit
    <3>4. /\ j \in Jobs /\ j.op = job[t].op /\ j.disk = job[t].disk
          /\ j.sector = job[t].sector + 1 /\ j.left = job[t].left - 1
      BY <1>2, <3>3 DEF Jobs
    <3>5. /\ pc' \in [Threads -> Places] /\ job' \in [Threads -> Jobs]
          /\ \A u \in Threads \ {t} : pc'[u] = pc[u] /\ job'[u] = job[u]
          /\ pc'[t] = "lock_acquire" /\ job'[t] = j
      BY <3>1, <3>4 DEF ControlInv, TypeOK, Places
    <3>6. ~Works(t)' /\ ~Boots(t)' /\ present' = present
      BY <3>5, <1>3 DEF Works, WorkPlaces, Boots
    <3>7. JobFits(t)'
      BY <1>1, <1>2, <3>3, <3>4, <3>5, <3>6 DEF JobFits
    <3>. QED
      BY <3>5, <3>7
  <2>2. CASE ~(job[t].left > 1)
    <3>1. job' = [job EXCEPT ![t] = NoJob] /\ pc' = [pc EXCEPT ![t] = "run"]
      BY <2>2 DEF lock_release, Goto
    <3>2. /\ pc' \in [Threads -> Places] /\ job' \in [Threads -> Jobs]
          /\ \A u \in Threads \ {t} : pc'[u] = pc[u] /\ job'[u] = job[u]
          /\ pc'[t] = "run"
      BY <3>1, ConstantsFit DEF ControlInv, TypeOK, Places
    <3>3. ~Works(t)' /\ ~Boots(t)'
      BY <3>2 DEF Works, WorkPlaces, Boots
    <3>. QED
      BY <3>2, <3>3 DEF JobFits
  <2>. QED
    BY <2>1, <2>2
<1>6. TypeOK'
  BY <1>3, <1>5 DEF ControlInv, TypeOK, deviceVars
<1>7. ASSUME NEW u \in Threads \ {t} PROVE JobFits(u)'
  BY <1>1, <1>3, <1>4, <1>5, OtherThreads DEF deviceVars
<1>8. ASSUME NEW k \in Channels PROVE ChannelFits(k)'
  BY <1>3, ChannelSame DEF deviceVars, ControlInv
<1>. QED
  BY <1>5, <1>6, <1>7, <1>8 DEF ControlInv

LEMMA ControlNext == ControlInv /\ [Next]_vars => ControlInv'
<1> SUFFICES ASSUME ControlInv, [Next]_vars PROVE ControlInv'
  OBVIOUS
<1>1. CASE UNCHANGED vars
  <2>1. TypeOK'
    BY <1>1 DEF ControlInv, TypeOK, vars, channelVars, deviceVars, threadVars
  <2>2. ASSUME NEW u \in Threads PROVE JobFits(u)'
    BY <1>1, OthersFit DEF vars, channelVars, deviceVars, threadVars, ControlInv, JobFits
  <2>3. ASSUME NEW k \in Channels PROVE ChannelFits(k)'
    BY <1>1, ChannelSame DEF vars, channelVars, deviceVars, ControlInv
  <2>. QED
    BY <2>1, <2>2, <2>3 DEF ControlInv
<1>2. ASSUME NEW t \in Threads, Step(t) PROVE ControlInv'
  BY <1>2, ControlDiskInit, ControlAcquire, ControlSelect, ControlIssue, ControlDown,
     ControlWait, ControlInput, ControlOutput, ControlRelease DEF Step
<1>. QED
  BY <1>1, <1>2, ControlRequest, ControlInterrupt, ControlDevice, ControlDpc DEF Next, Hardware


-----------------------------------------------------------------------------
(* As long as wait_until_idle does not give up, the disk does what the      *)
(* thread that has the channel asked for.                                   *)

\* The registers hold the thread's sector.
Matches(t) ==
    device[Mine(t)].disk = job[t].disk /\ device[Mine(t)].sector = job[t].sector

\* The completion that the thread waits for has yet to come, or is on its way.
Ahead(t) ==
    device[Mine(t)].status = "busy" \/ irq[Mine(t)] \/ dpc \/ sem[Mine(t)] > 0 \/ bug # "none"

DiskFits(t) ==
    LET v == device[Mine(t)] IN
    /\ pc[t] = "issue_pio_command" => v.status = "idle" /\ Matches(t)
    /\ pc[t] = "wait_while_busy" \/ (pc[t] = "sema_down" /\ job[t].op # "write") =>
          /\ v.status # "idle" => Matches(t)
          /\ v.status = "busy" => v.command = job[t].op
    /\ pc[t] = "transfer" => Matches(t)
    /\ pc[t] = "sema_down" /\ job[t].op = "write" /\ v.status # "idle" =>
          v.status = "busy" /\ v.command = "data" /\ Matches(t) /\ v.data = job[t].data
    /\ pc[t] = "sema_down" => Ahead(t)

DiskInv == "idle timeout" \notin faults => \A t \in Threads : DiskFits(t)

LEMMA FaultsGrow == [Next]_vars => faults \subseteq faults'
<1> SUFFICES ASSUME [Next]_vars PROVE faults \subseteq faults'
  OBVIOUS
<1>1. ASSUME NEW t \in Threads, Step(t) PROVE faults \subseteq faults'
  <2>1. CASE disk_init(t) \/ issue_pio_command(t) \/ sema_down(t) \/ input_sector(t)
             \/ output_sector(t) \/ lock_release(t)
    BY <2>1 DEF disk_init, issue_pio_command, sema_down, input_sector, output_sector, lock_release
  <2>2. CASE lock_acquire(t)
    BY <2>2 DEF lock_acquire, Stops
  <2>3. CASE select_sector(t)
    BY <2>3 DEF select_sector, Fault
  <2>4. CASE wait_while_busy(t)
    BY <2>4 DEF wait_while_busy, Fault
  <2>. QED
    BY <1>1, <2>1, <2>2, <2>3, <2>4 DEF Step
<1>2. ASSUME NEW t \in Threads, Request(t) PROVE faults \subseteq faults'
  BY <1>2 DEF Request, Stops
<1>3. ASSUME NEW c \in Channels, interrupt_handler(c) \/ DeviceDone(c) PROVE faults \subseteq faults'
  BY <1>3 DEF interrupt_handler, DeviceDone, Fault
<1>. QED
  BY <1>1, <1>2, <1>3 DEF Next, Hardware, IdeDpcRoutine, vars

\* Elsewhere a thread asks nothing of its disk.
LEMMA DiskQuiet ==
    ASSUME NEW t,
           pc'[t] \notin {"issue_pio_command", "wait_while_busy", "sema_down", "transfer"}
    PROVE  DiskFits(t)'
BY DEF DiskFits

\* disk_init goes on to select_sector, or lets all threads run.
LEMMA IdentifyQuiet ==
    ASSUME ControlInv, NEW t \in Threads, Boots(t), NEW S, Identify(t, S), NEW u \in Threads
    PROVE  /\ pc'[u] \in {"run", "off", "select_sector"}
           /\ pc'[u] = "select_sector" => u = t /\ job'[t].op = "identify"
           /\ u # t => pc[u] = "off"
<1>1. pc \in [Threads -> Places] /\ job \in [Threads -> Jobs]
  BY DEF ControlInv, TypeOK
<1>2. u # t => pc[u] = "off"
  BY DEF ControlInv, JobFits
<1>3. CASE S = {}
  BY <1>1, <1>2, <1>3 DEF Identify
<1>4. CASE S # {}
  <2>1. /\ pc' = [pc EXCEPT ![t] = "select_sector"]
        /\ job' = [job EXCEPT ![t] = [NoJob EXCEPT !.op = "identify", !.disk = First(S)]]
    BY <1>4 DEF Identify, Goto
  <2>2. job'[t].op = "identify"
    BY <1>1, <2>1 DEF NoJob
  <2>. QED
    BY <1>1, <1>2, <2>1, <2>2
<1>. QED
  BY <1>3, <1>4

\* A thread that a step leaves alone, with its channel.
LEMMA DiskSame ==
    ASSUME NEW u, DiskFits(u), pc'[u] = pc[u], job'[u] = job[u],
           Works(u) => device'[Mine(u)] = device[Mine(u)],
           pc[u] = "sema_down" /\ Ahead(u) => Ahead(u)'
    PROVE  DiskFits(u)'
<1>1. Mine(u)' = Mine(u)
  BY DEF Mine, Channel
<1>2. pc[u] \in {"issue_pio_command", "wait_while_busy", "sema_down", "transfer"} =>
         device'[Mine(u)] = device[Mine(u)] /\ (Matches(u)' <=> Matches(u))
  BY <1>1 DEF Matches, Works, WorkPlaces
<1>. QED
  BY <1>1, <1>2 DEF DiskFits

\* A thread that works changes nothing on the channels of the others.
LEMMA DiskOthers ==
    ASSUME ControlInv, NEW t \in Threads, NEW u \in Threads, t # u, Works(t), DiskFits(u),
           pc'[u] = pc[u], job'[u] = job[u], irq' = irq, dpc' = dpc,
           bug # "none" => bug' # "none",
           \A c \in Channels \ {Mine(t)} : device'[c] = device[c] /\ sem'[c] = sem[c]
    PROVE  DiskFits(u)'
<1>1. Works(u) => Mine(u) \in Channels \ {Mine(t)}
  BY Exclusive, MineIsChannel
<1>2. Mine(u)' = Mine(u)
  BY DEF Mine, Channel
<1>3. pc[u] = "sema_down" /\ Ahead(u) => Ahead(u)'
  BY <1>1, <1>2 DEF Ahead, Works, WorkPlaces
<1>. QED
  BY <1>1, <1>3, DiskSame

LEMMA DiskInit == Init => DiskInv
BY DEF Init, DiskInv, DiskFits

LEMMA DiskInterrupt ==
    ASSUME ControlInv, NEW c \in Channels, interrupt_handler(c), NEW u \in Threads, DiskFits(u)
    PROVE  DiskFits(u)'
<1>1. /\ UNCHANGED <<pc, job, device, sem, bug>> /\ dpc'
  BY DEF interrupt_handler, KeInsertQueueDpc, threadVars
<1>. QED
  BY <1>1, DiskSame DEF Ahead, Mine, Channel

LEMMA DiskDpc ==
    ASSUME ControlInv, IdeDpcRoutine, NEW u \in Threads, DiskFits(u)
    PROVE  DiskFits(u)'
<1>1. /\ UNCHANGED <<pc, job, device>>
  BY DEF IdeDpcRoutine, threadVars, deviceVars
<1>2. pc[u] = "sema_down" => Ahead(u)'
  <2>1. SUFFICES ASSUME pc[u] = "sema_down" PROVE Ahead(u)'
    OBVIOUS
  <2>2. Works(u) /\ JobFits(u) /\ Mine(u)' = Mine(u)
    BY <2>1, <1>1 DEF Works, WorkPlaces, ControlInv, Mine, Channel
  <2>3. Mine(u) \in Channels /\ expecting[Mine(u)]
    BY <2>1, <2>2, MineIsChannel DEF JobFits
  <2>4. CASE BelowLimit
    <3>1. sem'[Mine(u)] = sem[Mine(u)] + 1
      BY <2>3, <2>4 DEF IdeDpcRoutine, Released
    <3>2. sem[Mine(u)] \in Nat
      BY <2>3, PermitsAreNat
    <3>. QED
      BY <2>2, <3>1, <3>2 DEF Ahead
  <2>5. CASE ~BelowLimit
    BY <2>5 DEF IdeDpcRoutine, Ahead
  <2>. QED
    BY <2>4, <2>5
<1>. QED
  BY <1>1, <1>2, DiskSame

LEMMA DiskDevice ==
    ASSUME ControlInv, NEW c \in Channels, DeviceDone(c), NEW u \in Threads, DiskFits(u)
    PROVE  DiskFits(u)'
<1> DEFINE v == device[c]
<1>1. v \in Registers /\ v.status = "busy"
  BY DEF DeviceDone, ControlInv, TypeOK
<1>2. PICK ok \in BOOLEAN :
          /\ device' = [device EXCEPT ![c] =
                IF ok /\ v.command # "data" THEN [v EXCEPT !.status = "drq"] ELSE Drained(v)]
          /\ irq' = [irq EXCEPT ![c] = v.command # "write" \/ ~ok]
  BY DEF DeviceDone
<1>3. UNCHANGED <<pc, job, dpc, sem, bug>> /\ Mine(u)' = Mine(u)
  BY DEF DeviceDone, channelVars, threadVars, Mine, Channel
<1>4. Works(u) => Mine(u) \in Channels
  BY MineIsChannel
<1>5. \A k \in Channels \ {c} : device'[k] = device[k] /\ irq'[k] = irq[k]
  BY <1>2 DEF ControlInv, TypeOK
<1>6. CASE Works(u) => Mine(u) # c
  <2>1. pc[u] = "sema_down" /\ Ahead(u) => Ahead(u)'
    BY <1>3, <1>4, <1>5, <1>6 DEF Ahead, Works, WorkPlaces
  <2>. QED
    BY <1>3, <1>4, <1>5, <1>6, <2>1, DiskSame
<1>7. CASE Works(u) /\ Mine(u) = c
  <2>1. device'[c].status # "idle" =>
            /\ ok /\ v.command # "data" /\ device'[c].status = "drq"
            /\ device'[c].disk = v.disk /\ device'[c].sector = v.sector
    BY <1>1, <1>2 DEF ControlInv, TypeOK, Drained, Free, Registers
  <2>2. irq'[c] <=> v.command # "write" \/ ~ok
    BY <1>2 DEF ControlInv, TypeOK
  <2>3. pc[u] # "issue_pio_command" /\ pc[u] # "transfer"
    BY <1>1, <1>7 DEF DiskFits, ControlInv, JobFits
  <2>4. CASE pc[u] = "sema_down"
    <3>1. v.command # "write" /\ Ahead(u)'
      BY <1>1, <1>3, <1>7, <2>2, <2>4 DEF DiskFits, Ahead
    <3>. QED
      BY <1>1, <1>3, <1>7, <2>1, <2>4, <3>1 DEF DiskFits, Matches
  <2>5. CASE pc[u] = "wait_while_busy"
    BY <1>1, <1>3, <1>7, <2>1, <2>5 DEF DiskFits, Matches
  <2>6. CASE pc[u] \notin {"issue_pio_command", "wait_while_busy", "sema_down", "transfer"}
    BY <2>6, <1>3, DiskQuiet
  <2>. QED
    BY <2>3, <2>4, <2>5, <2>6
<1>. QED
  BY <1>6, <1>7


\* The steps that leave a thread where it asks nothing of its disk, and touch only its channel.
LEMMA DiskThread ==
    ASSUME ControlInv, NEW t \in Threads, Works(t), NEW u \in Threads, DiskFits(u),
           pc'[t] \notin {"issue_pio_command", "wait_while_busy", "sema_down", "transfer"},
           \A w \in Threads \ {t} : pc'[w] = pc[w] /\ job'[w] = job[w],
           irq' = irq, dpc' = dpc, bug # "none" => bug' # "none",
           \A c \in Channels \ {Mine(t)} : device'[c] = device[c] /\ sem'[c] = sem[c]
    PROVE  DiskFits(u)'
<1>1. CASE u = t
  BY <1>1, DiskQuiet
<1>2. CASE u # t
  BY <1>2, DiskOthers
<1>. QED
  BY <1>1, <1>2

LEMMA DiskStops ==
    ASSUME NEW why, why # "none", Stops(why), NEW u, DiskFits(u)
    PROVE  DiskFits(u)'
BY DiskSame DEF Stops, channelVars, deviceVars, threadVars, Ahead, Mine, Channel

LEMMA DiskBoot ==
    ASSUME ControlInv, NEW t \in Threads, NEW u \in Threads, NEW S, Boots(t), Identify(t, S)
    PROVE  DiskFits(u)'
BY IdentifyQuiet, DiskQuiet

\* Request and lock_acquire touch no disk.
LEMMA DiskCalls ==
    ASSUME ControlInv, NEW t \in Threads, Request(t) \/ lock_acquire(t) \/ disk_init(t),
           NEW u \in Threads, DiskFits(u)
    PROVE  DiskFits(u)'
<1>0. pc \in [Threads -> Places] /\ job \in [Threads -> Jobs]
  BY DEF ControlInv, TypeOK
<1>1. CASE disk_init(t)
  BY <1>1, DiskBoot DEF disk_init, At, Boots
<1>2. CASE Stops("no disk") \/ Stops("contended lock")
  BY <1>2, DiskStops
<1>3. ASSUME pc'[t] \in {"lock_acquire", "select_sector"},
             \A w \in Threads \ {t} : pc'[w] = pc[w] /\ job'[w] = job[w],
             UNCHANGED <<device, irq, sem, dpc, bug>>
      PROVE  DiskFits(u)'
  <2>1. CASE u = t
    BY <1>3, <2>1, DiskQuiet
  <2>2. CASE u # t
    BY <1>3, <2>2, DiskSame DEF Ahead, Mine, Channel
  <2>. QED
    BY <2>1, <2>2
<1>4. CASE Request(t) /\ ~Stops("no disk")
  <2>1. PICK j : /\ job' = [job EXCEPT ![t] = j] /\ Goto(t, "lock_acquire")
                 /\ UNCHANGED <<is_ata, present, channelVars, deviceVars, latest, faults, bug>>
    BY <1>4 DEF Request
  <2>2. UNCHANGED <<device, irq, sem, dpc, bug>>
    BY <2>1 DEF channelVars, deviceVars
  <2>3. pc'[t] = "lock_acquire" /\ \A w \in Threads \ {t} : pc'[w] = pc[w] /\ job'[w] = job[w]
    BY <2>1, <1>0 DEF Goto
  <2>. QED
    BY <2>2, <2>3, <1>3
<1>5. CASE lock_acquire(t) /\ ~Stops("contended lock")
  <2>1. /\ pc' = [pc EXCEPT ![t] = "select_sector"]
        /\ UNCHANGED <<is_ata, present, expecting, sem, dpc, deviceVars, faults, job, asked, bug>>
    BY <1>5 DEF lock_acquire, Goto
  <2>2. UNCHANGED <<device, irq, sem, dpc, bug>>
    BY <2>1 DEF deviceVars
  <2>3. pc'[t] = "select_sector" /\ \A w \in Threads \ {t} : pc'[w] = pc[w] /\ job'[w] = job[w]
    BY <2>1, <1>0
  <2>. QED
    BY <2>2, <2>3, <1>3
<1>. QED
  BY <1>1, <1>2, <1>4, <1>5

LEMMA DiskSelect ==
    ASSUME ControlInv, NEW t \in Threads, select_sector(t), "idle timeout" \notin faults',
           NEW u \in Threads, DiskFits(u)
    PROVE  DiskFits(u)'
<1> PICK c : c = Mine(t)
  OBVIOUS
<1>1. Works(t) /\ c \in Channels /\ job[t] \in Jobs /\ device[c] \in Registers
  BY MineIsChannel DEF select_sector, At, Works, WorkPlaces
<1>2. Idle(c) /\ device' = [device EXCEPT ![c] = Selected(t, device[c])]
  BY <1>1 DEF select_sector, Fault, ControlInv, TypeOK, Selected
<1>3. /\ pc' = [pc EXCEPT ![t] = "issue_pio_command"] /\ job' = job
      /\ UNCHANGED <<irq, sem, dpc, bug>>
  BY DEF select_sector, Goto, channelVars
<1>4. CASE u = t
  <2>1. /\ device'[c].status = "idle" /\ device'[c].disk = job[t].disk
        /\ device'[c].sector = job[t].sector
    BY <1>1, <1>2 DEF Selected, Idle, Registers, ControlInv, TypeOK
  <2>2. pc'[t] = "issue_pio_command" /\ Mine(t)' = c
    BY <1>3 DEF ControlInv, TypeOK, Mine, Channel
  <2>. QED
    BY <1>3, <1>4, <2>1, <2>2 DEF DiskFits, Matches
<1>5. CASE u # t
  BY <1>1, <1>2, <1>3, <1>5, DiskOthers DEF ControlInv, TypeOK
<1>. QED
  BY <1>4, <1>5

LEMMA DiskIssue ==
    ASSUME ControlInv, NEW t \in Threads, issue_pio_command(t), DiskFits(t),
           NEW u \in Threads, DiskFits(u)
    PROVE  DiskFits(u)'
<1> PICK c : c = Mine(t)
  OBVIOUS
<1>1. /\ Works(t) /\ c \in Channels /\ job[t] \in Jobs /\ device[c] \in Registers
      /\ pc[t] = "issue_pio_command"
  BY MineIsChannel DEF issue_pio_command, At, Works, WorkPlaces
<1>2. device[c].status = "idle" /\ Matches(t)
  BY <1>1 DEF DiskFits
<1>3. /\ pc' = [pc EXCEPT ![t] = AfterCommand(t)] /\ job' = job
      /\ device' = [device EXCEPT ![c] = [device[c] EXCEPT !.status = "busy", !.command = job[t].op]]
      /\ UNCHANGED <<irq, sem, dpc, bug>>
  BY <1>1, <1>2 DEF issue_pio_command, Goto, ControlInv, TypeOK
<1>4. CASE u = t
  <2>1. /\ device'[c].status = "busy" /\ device'[c].disk = job[t].disk
        /\ device'[c].sector = job[t].sector /\ device'[c].command = job[t].op
    BY <1>1, <1>2, <1>3 DEF Matches, Registers, ControlInv, TypeOK
  <2>2. pc'[t] = AfterCommand(t) /\ Mine(t)' = c
    BY <1>3 DEF ControlInv, TypeOK, Mine, Channel
  <2>3. Matches(t)' /\ Ahead(t)'
    BY <1>3, <2>1, <2>2 DEF Matches, Ahead
  <2>. QED
    BY <1>3, <1>4, <2>1, <2>2, <2>3 DEF DiskFits, AfterCommand
<1>5. CASE u # t
  BY <1>1, <1>3, <1>5, DiskOthers DEF ControlInv, TypeOK
<1>. QED
  BY <1>4, <1>5

LEMMA DiskDown ==
    ASSUME ControlInv, NEW t \in Threads, sema_down(t), NEW u \in Threads, DiskFits(u)
    PROVE  DiskFits(u)'
<1>1. Works(t) /\ pc[t] = "sema_down" /\ Mine(t) \in Channels
  BY MineIsChannel DEF sema_down, At, Works, WorkPlaces
<1>2. /\ UNCHANGED <<job, device, irq, dpc, bug>> /\ sem' = [sem EXCEPT ![Mine(t)] = @ - 1]
      /\ pc' = [pc EXCEPT ![t] = IF job[t].op = "write" THEN "lock_release" ELSE "wait_while_busy"]
  BY DEF sema_down, deviceVars, Goto
<1>3. CASE u = t
  <2>1. /\ pc'[t] = (IF job[t].op = "write" THEN "lock_release" ELSE "wait_while_busy")
        /\ Mine(t)' = Mine(t)
    BY <1>2 DEF ControlInv, TypeOK, Mine, Channel
  <2>2. CASE job[t].op = "write"
    BY <1>3, <2>1, <2>2, DiskQuiet
  <2>3. CASE job[t].op # "write"
    BY <1>1, <1>2, <1>3, <2>1, <2>3 DEF DiskFits, Matches
  <2>. QED
    BY <2>2, <2>3
<1>4. CASE u # t
  BY <1>1, <1>2, <1>4, DiskOthers DEF ControlInv, TypeOK
<1>. QED
  BY <1>3, <1>4

LEMMA DiskWait ==
    ASSUME ControlInv, NEW t \in Threads, wait_while_busy(t), NEW u \in Threads, DiskFits(u)
    PROVE  DiskFits(u)'
<1>1. Works(t) /\ pc[t] = "wait_while_busy" /\ Mine(t) \in Channels
  BY MineIsChannel DEF wait_while_busy, At, Works, WorkPlaces
<1>2. CASE Failed(t)
  <2>1. CASE job[t].op = "identify"
    BY <1>1, <1>2, <2>1, DiskBoot DEF Failed, Boots
  <2>2. CASE job[t].op # "identify"
    <3>1. bug' = "disk failed" /\ UNCHANGED <<pc, job, device>>
      BY <1>2, <2>2 DEF Failed, threadVars
    <3>. QED
      BY <3>1, DiskSame DEF Ahead
  <2>. QED
    BY <2>1, <2>2
<1>3. CASE /\ device[Mine(t)].status = "drq"
           /\ Goto(t, "transfer")
           /\ UNCHANGED <<is_ata, present, channelVars, deviceVars, latest, faults, job, asked, bug>>
  <2>1. UNCHANGED <<job, device, irq, dpc, sem, bug>> /\ pc' = [pc EXCEPT ![t] = "transfer"]
    BY <1>3 DEF channelVars, deviceVars, Goto
  <2>2. CASE u = t
    <3>1. pc'[t] = "transfer" /\ Mine(t)' = Mine(t)
      BY <2>1 DEF ControlInv, TypeOK, Mine, Channel
    <3>. QED
      BY <1>1, <1>3, <2>1, <2>2, <3>1 DEF DiskFits, Matches
  <2>3. CASE u # t
    BY <1>1, <2>1, <2>3, DiskOthers DEF ControlInv, TypeOK
  <2>. QED
    BY <2>2, <2>3
<1>. QED
  BY <1>2, <1>3 DEF wait_while_busy

LEMMA DiskInput ==
    ASSUME ControlInv, NEW t \in Threads, input_sector(t), NEW u \in Threads, DiskFits(u)
    PROVE  DiskFits(u)'
<1>1. Works(t) /\ pc[t] = "transfer" /\ Mine(t) \in Channels
  BY MineIsChannel DEF input_sector, At, Works, WorkPlaces
<1>2. CASE job[t].op = "identify"
  BY <1>1, <1>2, DiskBoot DEF input_sector, Boots
<1>3. CASE job[t].op # "identify"
  <2>1. /\ device' = [device EXCEPT ![Mine(t)] = Drained(@)] /\ UNCHANGED <<irq, dpc, sem, bug>>
        /\ job' = [job EXCEPT ![t].data = content[device[Mine(t)].disk][device[Mine(t)].sector]]
        /\ pc' = [pc EXCEPT ![t] = "lock_release"]
    BY <1>3 DEF input_sector, channelVars, Goto
  <2>2. /\ pc'[t] = "lock_release" /\ \A w \in Threads \ {t} : pc'[w] = pc[w] /\ job'[w] = job[w]
        /\ \A k \in Channels \ {Mine(t)} : device'[k] = device[k]
    BY <2>1 DEF ControlInv, TypeOK
  <2>. QED
    BY <1>1, <2>1, <2>2, DiskThread
<1>. QED
  BY <1>2, <1>3

LEMMA DiskOutput ==
    ASSUME ControlInv, NEW t \in Threads, output_sector(t), DiskFits(t),
           NEW u \in Threads, DiskFits(u)
    PROVE  DiskFits(u)'
<1> PICK c : c = Mine(t)
  OBVIOUS
<1>1. /\ Works(t) /\ c \in Channels /\ job[t] \in Jobs /\ device[c] \in Registers
      /\ pc[t] = "transfer" /\ job[t].op = "write"
  BY MineIsChannel DEF output_sector, At, Works, WorkPlaces
<1>2. Matches(t)
  BY <1>1 DEF DiskFits
<1>3. /\ pc' = [pc EXCEPT ![t] = "sema_down"] /\ job' = job
      /\ device' = [device EXCEPT ![c] =
            [device[c] EXCEPT !.status = "busy", !.command = "data", !.data = job[t].data]]
      /\ UNCHANGED <<irq, sem, dpc, bug>>
  BY <1>1 DEF output_sector, Goto, ControlInv, TypeOK, channelVars
<1>4. CASE u = t
  <2>1. /\ device'[c].status = "busy" /\ device'[c].disk = job[t].disk
        /\ device'[c].sector = job[t].sector /\ device'[c].command = "data"
        /\ device'[c].data = job[t].data
    BY <1>1, <1>2, <1>3 DEF Matches, Registers, ControlInv, TypeOK
  <2>2. pc'[t] = "sema_down" /\ Mine(t)' = c
    BY <1>3 DEF ControlInv, TypeOK, Mine, Channel
  <2>. QED
    BY <1>1, <1>3, <1>4, <2>1, <2>2 DEF DiskFits, Matches, Ahead
<1>5. CASE u # t
  BY <1>1, <1>3, <1>5, DiskOthers DEF ControlInv, TypeOK
<1>. QED
  BY <1>4, <1>5

LEMMA DiskRelease ==
    ASSUME ControlInv, NEW t \in Threads, lock_release(t), NEW u \in Threads, DiskFits(u)
    PROVE  DiskFits(u)'
<1>0. pc \in [Threads -> Places] /\ job \in [Threads -> Jobs]
  BY DEF ControlInv, TypeOK
<1>1. Works(t) /\ Mine(t) \in Channels
  BY MineIsChannel DEF lock_release, At, Works, WorkPlaces
<1>2. UNCHANGED <<device, irq, dpc, sem, bug>>
  BY DEF lock_release, deviceVars
<1>3. /\ pc'[t] \in {"lock_acquire", "run"}
      /\ \A w \in Threads \ {t} : pc'[w] = pc[w] /\ job'[w] = job[w]
  BY <1>0 DEF lock_release, Goto
<1>. QED
  BY <1>1, <1>2, <1>3, DiskThread

LEMMA DiskNext == ControlInv /\ DiskInv /\ [Next]_vars => DiskInv'
<1> SUFFICES ASSUME ControlInv, DiskInv, [Next]_vars, "idle timeout" \notin faults',
                    NEW u \in Threads
             PROVE  DiskFits(u)'
  BY DEF DiskInv
<1>0. \A t \in Threads : DiskFits(t)
  BY FaultsGrow DEF DiskInv
<1>1. CASE UNCHANGED vars
  BY <1>0, <1>1, DiskSame DEF vars, channelVars, deviceVars, threadVars, Ahead, Mine, Channel
<1>2. ASSUME NEW t \in Threads, Step(t) PROVE DiskFits(u)'
  BY <1>0, <1>2, DiskCalls, DiskSelect, DiskIssue, DiskDown,
     DiskWait, DiskInput, DiskOutput, DiskRelease DEF Step
<1>. QED
  BY <1>0, <1>1, <1>2, DiskCalls, DiskInterrupt, DiskDevice, DiskDpc DEF Next, Hardware


-----------------------------------------------------------------------------
(* Where the latest data of a sector is.                                    *)

\* A thread has the latest data and has not yet given it to the disk.
Carries(t, d, s) ==
    /\ pc[t] \in {"select_sector", "issue_pio_command", "wait_while_busy", "transfer"}
    /\ job[t].op = "write" /\ job[t].disk = d /\ job[t].sector = s

Carried(d, s) == \E t \in Threads : Carries(t, d, s)

\* The disk is writing it.
Written(d, s) ==
    LET v == device[Channel(d)] IN
    v.status = "busy" /\ v.command = "data" /\ v.disk = d /\ v.sector = s

\* The latest data is in the sector, unless it is on its way there.
SectorFits(d, s) ==
    /\ content[d][s] = latest[d][s] \/ Written(d, s) \/ Carried(d, s)
    /\ Written(d, s) => device[Channel(d)].data = latest[d][s] \/ Carried(d, s)

\* The thread's data is the latest of its sector.
DataFits(t) ==
    (Works(t) /\ job[t].op = "write") \/ (pc[t] = "lock_release" /\ job[t].op = "read") =>
        job[t].data = latest[job[t].disk][job[t].sector]

AllDataFits == (\A t \in Threads : DataFits(t)) /\ (\A d \in Disks, s \in Sectors : SectorFits(d, s))

DataInv == NothingLost => AllDataFits

LEMMA SectorSame ==
    ASSUME NEW d \in Disks, NEW s \in Sectors, SectorFits(d, s),
           content'[d][s] = content[d][s], latest'[d][s] = latest[d][s],
           \/ device'[Channel(d)] = device[Channel(d)]
           \/ ~Written(d, s) /\ ~Written(d, s)',
           \A t \in Threads : Carries(t, d, s) => Carries(t, d, s)'
    PROVE  SectorFits(d, s)'
<1>1. Carried(d, s) => Carried(d, s)'
  BY DEF Carried
<1>2. CASE device'[Channel(d)] = device[Channel(d)]
  BY <1>1, <1>2 DEF SectorFits, Written, Channel
<1>3. CASE ~Written(d, s) /\ ~Written(d, s)'
  BY <1>1, <1>3 DEF SectorFits
<1>. QED
  BY <1>2, <1>3

LEMMA DataSame ==
    ASSUME NEW u, DataFits(u), pc'[u] = pc[u], job'[u] = job[u], latest' = latest
    PROVE  DataFits(u)'
BY DEF DataFits, Works

LEMMA DataQuiet ==
    ASSUME NEW u, ~Works(u)' \/ (job'[u].op # "write" /\ pc'[u] # "lock_release")
    PROVE  DataFits(u)'
BY DEF DataFits, Works, WorkPlaces

\* Steps of a thread that move no data: it stays where it is or carries what it carried.
LEMMA DataThread ==
    ASSUME AllDataFits, NEW t \in Threads, content' = content, latest' = latest,
           \A w \in Threads \ {t} : pc'[w] = pc[w] /\ job'[w] = job[w],
           DataFits(t)',
           \A d \in Disks, s \in Sectors : Carries(t, d, s) => Carries(t, d, s)',
           \A d \in Disks, s \in Sectors :
              \/ device'[Channel(d)] = device[Channel(d)]
              \/ ~Written(d, s) /\ ~Written(d, s)'
    PROVE  AllDataFits'
<1>1. ASSUME NEW u \in Threads PROVE DataFits(u)'
  <2>1. CASE u = t
    BY <2>1
  <2>2. CASE u # t
    BY <2>2, DataSame DEF AllDataFits
  <2>. QED
    BY <2>1, <2>2
<1>2. ASSUME NEW d \in Disks, NEW s \in Sectors PROVE SectorFits(d, s)'
  <2>1. ASSUME NEW w \in Threads, Carries(w, d, s) PROVE Carries(w, d, s)'
    <3>1. CASE w = t
      BY <2>1, <3>1
    <3>2. CASE w # t
      BY <2>1, <3>2 DEF Carries
    <3>. QED
      BY <3>1, <3>2
  <2>. QED
    BY <2>1, SectorSame DEF AllDataFits
<1>. QED
  BY <1>1, <1>2 DEF AllDataFits

\* While disk_init runs, nobody carries data.
LEMMA DataBoot ==
    ASSUME ControlInv, AllDataFits, NEW t \in Threads, NEW S, Boots(t), Identify(t, S),
           content' = content, latest' = latest,
           \A d \in Disks, s \in Sectors :
              \/ device'[Channel(d)] = device[Channel(d)]
              \/ ~Written(d, s) /\ ~Written(d, s)'
    PROVE  AllDataFits'
<1>1. ASSUME NEW u \in Threads PROVE DataFits(u)'
  BY IdentifyQuiet, DataQuiet DEF Works, WorkPlaces
<1>2. ASSUME NEW d \in Disks, NEW s \in Sectors, NEW w \in Threads PROVE ~Carries(w, d, s)
  <2>1. CASE w = t
    BY <2>1 DEF Boots, Carries
  <2>2. CASE w # t
    BY <2>2, IdentifyQuiet DEF Carries
  <2>. QED
    BY <2>1, <2>2
<1>3. ASSUME NEW d \in Disks, NEW s \in Sectors PROVE SectorFits(d, s)'
  BY <1>2, SectorSame DEF AllDataFits
<1>. QED
  BY <1>1, <1>3 DEF AllDataFits

LEMMA DataInit == Init => DataInv
<1> SUFFICES ASSUME Init PROVE AllDataFits
  BY DEF DataInv
<1>1. ASSUME NEW t \in Threads PROVE DataFits(t)
  <2>1. pc[t] \in {"disk_init", "off"}
    BY DEF Init
  <2>. QED
    BY <2>1 DEF DataFits, Works, WorkPlaces
<1>2. ASSUME NEW d \in Disks, NEW s \in Sectors PROVE SectorFits(d, s)
  <2>1. ~Written(d, s)
    BY ChannelOfDisk DEF Init, Written, Free
  <2>. QED
    BY <2>1 DEF Init, SectorFits
<1>. QED
  BY <1>1, <1>2 DEF AllDataFits

\* Steps that touch neither threads nor data.
LEMMA DataStill ==
    ASSUME AllDataFits, UNCHANGED <<pc, job, device, content, latest>>
    PROVE  AllDataFits'
<1>1. ASSUME NEW u \in Threads PROVE DataFits(u)'
  BY DataSame DEF AllDataFits
<1>2. ASSUME NEW d \in Disks, NEW s \in Sectors PROVE SectorFits(d, s)'
  BY SectorSame DEF AllDataFits, Carries
<1>. QED
  BY <1>1, <1>2 DEF AllDataFits

LEMMA DataDevice ==
    ASSUME ControlInv, AllDataFits, NEW c \in Channels, DeviceDone(c), NothingLost'
    PROVE  AllDataFits'
<1> DEFINE v == device[c]
<1>1. /\ v \in Registers /\ v.status = "busy" /\ v.disk \in Disks /\ Channel(v.disk) = c
      /\ v.sector \in Sectors
  BY DEF DeviceDone, ControlInv, TypeOK, ChannelFits, Selects, Registers
<1>2. PICK ok \in BOOLEAN :
          /\ IF ok THEN UNCHANGED faults ELSE Fault(v.command)
          /\ device' = [device EXCEPT ![c] =
                IF ok /\ v.command # "data" THEN [v EXCEPT !.status = "drq"] ELSE Drained(v)]
          /\ content' = IF ok /\ v.command = "data"
                        THEN [content EXCEPT ![v.disk][v.sector] = v.data] ELSE content
  BY DEF DeviceDone
<1>3. UNCHANGED <<pc, job, latest>>
  BY DEF DeviceDone, threadVars
<1>4. v.command = "data" => ok
  BY <1>2 DEF Fault, NothingLost
<1>5. /\ device'[c].status # "busy" /\ \A k \in Channels \ {c} : device'[k] = device[k]
  BY <1>1, <1>2 DEF Drained, Free, Registers, ControlInv, TypeOK
<1>6. ASSUME NEW u \in Threads PROVE DataFits(u)'
  BY <1>3, DataSame DEF AllDataFits
<1>7. ASSUME NEW d \in Disks, NEW s \in Sectors PROVE SectorFits(d, s)'
  <2>1. SectorFits(d, s) /\ Channel(d) \in Channels
    BY ChannelOfDisk DEF AllDataFits
  <2>2. Channel(d) = c => ~Written(d, s)'
    BY <1>5 DEF Written, Channel
  <2>3. Carried(d, s)' = Carried(d, s)
    BY <1>3 DEF Carried, Carries
  <2>4. content \in [Disks -> [Sectors -> Data]]
    BY DEF ControlInv, TypeOK
  <2>5. CASE Written(d, s) /\ Channel(d) = c
    <3>1. v.disk = d /\ v.sector = s /\ v.command = "data"
      BY <2>5 DEF Written
    <3>2. content'[d][s] = v.data
      BY <1>2, <1>4, <2>4, <3>1
    <3>3. v.data = latest[d][s] \/ Carried(d, s)
      BY <2>1, <2>5 DEF SectorFits
    <3>. QED
      BY <1>3, <2>2, <2>3, <2>5, <3>2, <3>3 DEF SectorFits
  <2>6. CASE ~(Written(d, s) /\ Channel(d) = c)
    <3>1. content'[d][s] = content[d][s]
      <4>1. ASSUME v.disk = d, v.sector = s, v.command = "data" PROVE FALSE
        BY <1>1, <2>6, <4>1 DEF Written
      <4>. QED
        BY <1>1, <1>2, <2>4, <4>1
    <3>2. device'[Channel(d)] = device[Channel(d)] \/ (~Written(d, s) /\ ~Written(d, s)')
      BY <1>5, <2>1, <2>2, <2>6
    <3>. QED
      BY <1>3, <2>1, <3>1, <3>2, SectorSame DEF Carries
  <2>. QED
    BY <2>5, <2>6
<1>. QED
  BY <1>6, <1>7 DEF AllDataFits


LEMMA DataRequest ==
    ASSUME ControlInv, AllDataFits, NEW t \in Threads, Request(t)
    PROVE  AllDataFits'
<1>1. CASE Stops("no disk")
  BY <1>1, DataStill DEF Stops, deviceVars, threadVars
<1>2. CASE ~Stops("no disk")
  <2>1. PICK j : /\ job' = [job EXCEPT ![t] = j] /\ Goto(t, "lock_acquire")
                 /\ UNCHANGED <<is_ata, present, channelVars, deviceVars, latest, faults, bug>>
    BY <1>2 DEF Request
  <2>2. UNCHANGED <<device, content, latest>> /\ pc[t] = "run"
    BY <2>1 DEF deviceVars, Request, At
  <2>3. pc'[t] = "lock_acquire" /\ \A w \in Threads \ {t} : pc'[w] = pc[w] /\ job'[w] = job[w]
    BY <2>1 DEF Goto, ControlInv, TypeOK
  <2>4. DataFits(t)' /\ \A d \in Disks, s \in Sectors : ~Carries(t, d, s)
    BY <2>2, <2>3 DEF DataFits, Carries, Works, WorkPlaces
  <2>. QED
    BY <2>2, <2>3, <2>4, DataThread
<1>. QED
  BY <1>1, <1>2

\* The write of a thread becomes the latest: no other thread has data of the disk.
LEMMA DataAcquire ==
    ASSUME ControlInv, AllDataFits, NEW t \in Threads, lock_acquire(t)
    PROVE  AllDataFits'
<1>1. CASE lock[Mine(t)] # None
  BY <1>1, DataStill DEF lock_acquire, Stops, deviceVars, threadVars
<1>2. CASE lock[Mine(t)] = None
  <2>1. /\ latest' = IF job[t].op = "write"
                     THEN [latest EXCEPT ![job[t].disk][job[t].sector] = job[t].data] ELSE latest
        /\ pc' = [pc EXCEPT ![t] = "select_sector"]
        /\ UNCHANGED <<device, content, job>>
    BY <1>2 DEF lock_acquire, Goto, deviceVars
  <2>2. pc[t] = "lock_acquire" /\ JobFits(t)
    BY DEF lock_acquire, At, ControlInv
  <2>3. /\ job[t].disk \in Disks /\ job[t].sector \in Sectors /\ job[t].op \in {"read", "write"}
        /\ latest \in [Disks -> [Sectors -> Data]]
    BY <2>2, MineIsChannel DEF Jobs, JobFits, ControlInv, TypeOK
  <2>4. /\ pc'[t] = "select_sector" /\ \A w \in Threads \ {t} : pc'[w] = pc[w]
    BY <2>1 DEF ControlInv, TypeOK
  <2>5. CASE job[t].op = "read"
    <3>1. DataFits(t)' /\ \A d \in Disks, s \in Sectors : ~Carries(t, d, s)
      BY <2>1, <2>2, <2>4, <2>5 DEF DataFits, Carries
    <3>. QED
      BY <2>1, <2>4, <2>5, <3>1, DataThread
  <2>6. CASE job[t].op = "write"
    <3>1. latest'[job[t].disk][job[t].sector] = job[t].data
      BY <2>1, <2>3, <2>6
    <3>2. \A d \in Disks, s \in Sectors :
             d # job[t].disk \/ s # job[t].sector => latest'[d][s] = latest[d][s]
      BY <2>1, <2>3, <2>6
    <3>3. ASSUME NEW u \in Threads PROVE DataFits(u)'
      <4>1. CASE u = t
        BY <2>1, <3>1, <4>1 DEF DataFits
      <4>2. CASE u # t
        <5>1. Works(u) => job[u].disk # job[t].disk
          <6>1. ~Boots(u)
            BY <4>2, <2>2, NobodyBoots
          <6>2. Works(u) => lock[Mine(u)] = u
            BY <6>1 DEF ControlInv, JobFits, Boots
          <6>. QED
            BY <1>2, <6>2, IdeAssumption DEF Mine
        <5>2. Works(u) => job[u].disk \in Disks /\ job[u].sector \in Sectors
          BY MineIsChannel DEF Jobs
        <5>3. Works(u)' = Works(u) /\ pc'[u] = pc[u] /\ (pc[u] = "lock_release" => Works(u))
          BY <2>4, <4>2 DEF Works, WorkPlaces
        <5>4. DataFits(u)
          BY DEF AllDataFits
        <5>. QED
          BY <2>1, <3>2, <5>1, <5>2, <5>3, <5>4 DEF DataFits
      <4>. QED
        BY <4>1, <4>2
    <3>4. ASSUME NEW d \in Disks, NEW s \in Sectors PROVE SectorFits(d, s)'
      <4>1. CASE d = job[t].disk /\ s = job[t].sector
        <5>1. Carried(d, s)'
          BY <2>1, <2>4, <2>6, <4>1 DEF Carried, Carries
        <5>. QED
          BY <5>1 DEF SectorFits
      <4>2. CASE ~(d = job[t].disk /\ s = job[t].sector)
        <5>1. ASSUME NEW w \in Threads, Carries(w, d, s) PROVE Carries(w, d, s)'
          BY <5>1, <2>1, <2>2, <2>4 DEF Carries
        <5>. QED
          BY <5>1, <2>1, <3>2, <4>2, SectorSame DEF AllDataFits
      <4>. QED
        BY <4>1, <4>2
    <3>. QED
      BY <3>3, <3>4 DEF AllDataFits
  <2>. QED
    BY <2>3, <2>5, <2>6
<1>. QED
  BY <1>1, <1>2

LEMMA DataSelect ==
    ASSUME ControlInv, AllDataFits, NEW t \in Threads, select_sector(t)
    PROVE  AllDataFits'
<1> PICK c : c = Mine(t)
  OBVIOUS
<1>1. /\ Works(t) /\ c \in Channels /\ job[t] \in Jobs /\ device[c] \in Registers
      /\ pc[t] = "select_sector"
  BY MineIsChannel DEF select_sector, At, Works, WorkPlaces
<1>2. /\ pc' = [pc EXCEPT ![t] = "issue_pio_command"] /\ job' = job
      /\ UNCHANGED <<content, latest>>
  BY DEF select_sector, Goto
<1>3. /\ pc'[t] = "issue_pio_command" /\ \A w \in Threads \ {t} : pc'[w] = pc[w]
  BY <1>2 DEF ControlInv, TypeOK
<1>4. DataFits(t)' /\ \A d \in Disks, s \in Sectors : Carries(t, d, s) => Carries(t, d, s)'
  BY <1>1, <1>2, <1>3 DEF AllDataFits, DataFits, Carries, Works, WorkPlaces
<1>5. ASSUME NEW d \in Disks, NEW s \in Sectors
      PROVE  device'[Channel(d)] = device[Channel(d)] \/ (~Written(d, s) /\ ~Written(d, s)')
  <2>1. CASE Idle(c) /\ device' = [device EXCEPT ![c] = Selected(t, @)]
    <3>1. device'[c].status = "idle" /\ \A k \in Channels \ {c} : device'[k] = device[k]
      BY <2>1, <1>1 DEF Selected, Idle, Registers, ControlInv, TypeOK
    <3>. QED
      BY <2>1, <3>1, ChannelOfDisk DEF Written, Idle, Channel
  <2>. QED
    BY <2>1 DEF select_sector
<1>. QED
  BY <1>2, <1>3, <1>4, <1>5, DataThread

LEMMA DataIssue ==
    ASSUME ControlInv, AllDataFits, NEW t \in Threads, issue_pio_command(t), DiskFits(t)
    PROVE  AllDataFits'
<1> PICK c : c = Mine(t)
  OBVIOUS
<1>1. /\ Works(t) /\ c \in Channels /\ job[t] \in Jobs /\ device[c] \in Registers
      /\ pc[t] = "issue_pio_command" /\ job[t].op # "none"
  BY MineIsChannel DEF issue_pio_command, At, Works, WorkPlaces, ControlInv, JobFits
<1>2. device[c].status = "idle"
  BY <1>1 DEF DiskFits
<1>3. /\ pc' = [pc EXCEPT ![t] = AfterCommand(t)] /\ job' = job
      /\ device' = [device EXCEPT ![c] = [device[c] EXCEPT !.status = "busy", !.command = job[t].op]]
      /\ UNCHANGED <<content, latest>>
  BY <1>1, <1>2 DEF issue_pio_command, Goto, ControlInv, TypeOK
<1>4. /\ pc'[t] = AfterCommand(t) /\ \A w \in Threads \ {t} : pc'[w] = pc[w]
  BY <1>3 DEF ControlInv, TypeOK
<1>5. DataFits(t)' /\ \A d \in Disks, s \in Sectors : Carries(t, d, s) => Carries(t, d, s)'
  BY <1>1, <1>3, <1>4 DEF AllDataFits, DataFits, Carries, Works, WorkPlaces, AfterCommand
<1>6. ASSUME NEW d \in Disks, NEW s \in Sectors
      PROVE  device'[Channel(d)] = device[Channel(d)] \/ (~Written(d, s) /\ ~Written(d, s)')
  <2>1. device'[c].command = job[t].op /\ job[t].op # "data"
    BY <1>1, <1>3 DEF Registers, Jobs, ControlInv, TypeOK
  <2>2. \A k \in Channels \ {c} : device'[k] = device[k]
    BY <1>3 DEF ControlInv, TypeOK
  <2>. QED
    BY <1>2, <2>1, <2>2, ChannelOfDisk DEF Written, Channel
<1>. QED
  BY <1>3, <1>4, <1>5, <1>6, DataThread

LEMMA DataDown ==
    ASSUME ControlInv, AllDataFits, NEW t \in Threads, sema_down(t)
    PROVE  AllDataFits'
<1>1. Works(t) /\ pc[t] = "sema_down"
  BY DEF sema_down, At, Works, WorkPlaces
<1>2. /\ UNCHANGED <<job, device, content, latest>>
      /\ pc' = [pc EXCEPT ![t] = IF job[t].op = "write" THEN "lock_release" ELSE "wait_while_busy"]
  BY DEF sema_down, deviceVars, Goto
<1>3. /\ pc'[t] = (IF job[t].op = "write" THEN "lock_release" ELSE "wait_while_busy")
      /\ \A w \in Threads \ {t} : pc'[w] = pc[w]
  BY <1>2 DEF ControlInv, TypeOK
<1>4. DataFits(t)' /\ \A d \in Disks, s \in Sectors : ~Carries(t, d, s)
  BY <1>1, <1>2, <1>3 DEF AllDataFits, DataFits, Carries, Works, WorkPlaces
<1>. QED
  BY <1>2, <1>3, <1>4, DataThread

LEMMA DataWait ==
    ASSUME ControlInv, AllDataFits, NEW t \in Threads, wait_while_busy(t)
    PROVE  AllDataFits'
<1>1. Works(t) /\ pc[t] = "wait_while_busy"
  BY DEF wait_while_busy, At, Works, WorkPlaces
<1>2. CASE Failed(t)
  <2>1. CASE job[t].op = "identify"
    <3>1. Boots(t) /\ Identify(t, Later(job[t].disk)) /\ UNCHANGED <<device, content, latest>>
      BY <1>1, <1>2, <2>1 DEF Failed, Boots
    <3>. QED
      BY <3>1, DataBoot
  <2>2. CASE job[t].op # "identify"
    BY <1>2, <2>2, DataStill DEF Failed, threadVars
  <2>. QED
    BY <2>1, <2>2
<1>3. CASE /\ device[Mine(t)].status = "drq"
           /\ Goto(t, "transfer")
           /\ UNCHANGED <<is_ata, present, channelVars, deviceVars, latest, faults, job, asked, bug>>
  <2>1. UNCHANGED <<job, device, content, latest>> /\ pc' = [pc EXCEPT ![t] = "transfer"]
    BY <1>3 DEF deviceVars, Goto
  <2>2. pc'[t] = "transfer" /\ \A w \in Threads \ {t} : pc'[w] = pc[w]
    BY <2>1 DEF ControlInv, TypeOK
  <2>3. DataFits(t)' /\ \A d \in Disks, s \in Sectors : Carries(t, d, s) => Carries(t, d, s)'
    BY <1>1, <2>1, <2>2 DEF AllDataFits, DataFits, Carries, Works, WorkPlaces
  <2>. QED
    BY <2>1, <2>2, <2>3, DataThread
<1>. QED
  BY <1>2, <1>3 DEF wait_while_busy

\* What a read takes from the disk is the latest: nobody else has data of its disk, and the
\* disk is not writing.
LEMMA DataInput ==
    ASSUME ControlInv, AllDataFits, NEW t \in Threads, input_sector(t), DiskFits(t)
    PROVE  AllDataFits'
<1> PICK c : c = Mine(t)
  OBVIOUS
<1>1. /\ pc[t] = "transfer" /\ job[t].op # "write" /\ JobFits(t) /\ Works(t)
      /\ device[c].status = "drq" /\ job[t].op # "none" /\ Matches(t)
  BY DEF input_sector, At, ControlInv, Works, WorkPlaces, JobFits, DiskFits
<1>2. /\ c \in Channels /\ job[t] \in Jobs /\ device[c] \in Registers
      /\ job[t].disk \in Disks /\ job[t].sector \in Sectors
  BY <1>1, MineIsChannel DEF Jobs
<1>3. /\ device' = [device EXCEPT ![c] = Drained(device[c])] /\ UNCHANGED <<content, latest>>
  BY <1>2 DEF input_sector, ControlInv, TypeOK
<1>4. ASSUME NEW d \in Disks, NEW s \in Sectors
      PROVE  device'[Channel(d)] = device[Channel(d)] \/ (~Written(d, s) /\ ~Written(d, s)')
  <2>1. device'[c].status = "idle" /\ \A k \in Channels \ {c} : device'[k] = device[k]
    BY <1>2, <1>3 DEF Drained, Free, ControlInv, TypeOK
  <2>. QED
    BY <1>1, <2>1, ChannelOfDisk DEF Written, Channel
<1>5. CASE job[t].op = "identify"
  <2>1. Boots(t) /\ Identify(t, Later(job[t].disk))
    BY <1>1, <1>5 DEF Boots, input_sector
  <2>. QED
    BY <1>3, <1>4, <2>1, DataBoot
<1>6. CASE job[t].op # "identify"
  <2>1. PICK x : x = content[job[t].disk][job[t].sector]
    OBVIOUS
  <2>2. job' = [job EXCEPT ![t].data = x] /\ pc' = [pc EXCEPT ![t] = "lock_release"]
    BY <1>1, <1>6, <2>1 DEF input_sector, Goto, Matches
  <2>3. /\ job'[t].disk = job[t].disk /\ job'[t].sector = job[t].sector /\ job'[t].data = x
        /\ \A w \in Threads \ {t} : pc'[w] = pc[w] /\ job'[w] = job[w]
    BY <1>2, <2>2 DEF ControlInv, TypeOK, Jobs
  <2>4. x = latest[job[t].disk][job[t].sector]
    <3>1. SectorFits(job[t].disk, job[t].sector)
      BY <1>2 DEF AllDataFits
    <3>2. ~Written(job[t].disk, job[t].sector)
      BY <1>1 DEF Written, Mine
    <3>3. ASSUME NEW w \in Threads, Carries(w, job[t].disk, job[t].sector) PROVE FALSE
      <4>1. Works(w) /\ Mine(w) = Mine(t) /\ w # t
        BY <1>1, <3>3 DEF Carries, Works, WorkPlaces, Mine
      <4>. QED
        BY <1>1, <4>1, Exclusive
    <3>. QED
      BY <2>1, <3>1, <3>2, <3>3 DEF SectorFits, Carried
  <2>5. DataFits(t)' /\ \A d \in Disks, s \in Sectors : ~Carries(t, d, s)
    BY <1>1, <1>3, <2>3, <2>4 DEF DataFits, Carries
  <2>. QED
    BY <1>3, <1>4, <2>3, <2>5, DataThread
<1>. QED
  BY <1>5, <1>6

\* The data of a write passes from the thread to the disk.
LEMMA DataOutput ==
    ASSUME ControlInv, AllDataFits, NEW t \in Threads, output_sector(t), DiskFits(t)
    PROVE  AllDataFits'
<1> PICK c : c = Mine(t)
  OBVIOUS
<1>1. /\ pc[t] = "transfer" /\ job[t].op = "write" /\ JobFits(t) /\ Works(t)
      /\ device[c].status = "drq" /\ Matches(t)
  BY DEF output_sector, At, ControlInv, Works, WorkPlaces, JobFits, DiskFits
<1>2. /\ c \in Channels /\ job[t] \in Jobs /\ device[c] \in Registers /\ job[t].disk \in Disks
  BY <1>1, MineIsChannel
<1>3. /\ pc' = [pc EXCEPT ![t] = "sema_down"] /\ job' = job
      /\ device' = [device EXCEPT ![c] =
            [device[c] EXCEPT !.status = "busy", !.command = "data", !.data = job[t].data]]
      /\ UNCHANGED <<content, latest>>
  BY <1>2 DEF output_sector, Goto, ControlInv, TypeOK
<1>4. /\ device'[c].status = "busy" /\ device'[c].disk = job[t].disk
      /\ device'[c].sector = job[t].sector /\ device'[c].command = "data"
      /\ device'[c].data = job[t].data
      /\ \A k \in Channels \ {c} : device'[k] = device[k]
  BY <1>1, <1>2, <1>3 DEF Matches, Registers, ControlInv, TypeOK
<1>5. pc'[t] = "sema_down" /\ \A w \in Threads \ {t} : pc'[w] = pc[w]
  BY <1>3 DEF ControlInv, TypeOK
<1>6. DataFits(t) /\ job[t].data = latest[job[t].disk][job[t].sector]
  BY <1>1 DEF AllDataFits, DataFits
<1>7. ASSUME NEW u \in Threads PROVE DataFits(u)'
  <2>1. CASE u = t
    BY <1>3, <1>6, <2>1 DEF DataFits
  <2>2. CASE u # t
    BY <1>3, <1>5, <2>2, DataSame DEF AllDataFits
  <2>. QED
    BY <2>1, <2>2
<1>8. ASSUME NEW d \in Disks, NEW s \in Sectors PROVE SectorFits(d, s)'
  <2>1. CASE d = job[t].disk /\ s = job[t].sector
    <3>1. Written(d, s)' /\ device'[Channel(d)].data = latest'[d][s]
      BY <1>3, <1>4, <1>6, <2>1 DEF Written, Mine, Channel
    <3>. QED
      BY <3>1 DEF SectorFits, Channel
  <2>2. CASE ~(d = job[t].disk /\ s = job[t].sector)
    <3>1. device'[Channel(d)] = device[Channel(d)] \/ (~Written(d, s) /\ ~Written(d, s)')
      BY <1>1, <1>4, <2>2, ChannelOfDisk DEF Written, Channel
    <3>2. ASSUME NEW w \in Threads, Carries(w, d, s) PROVE Carries(w, d, s)'
      BY <1>3, <1>5, <2>2, <3>2 DEF Carries
    <3>. QED
      BY <1>3, <3>1, <3>2, SectorSame DEF AllDataFits
  <2>. QED
    BY <2>1, <2>2
<1>. QED
  BY <1>7, <1>8 DEF AllDataFits

LEMMA DataRelease ==
    ASSUME ControlInv, AllDataFits, NEW t \in Threads, lock_release(t)
    PROVE  AllDataFits'
<1>1. pc[t] = "lock_release" /\ UNCHANGED <<device, content, latest>>
  BY DEF lock_release, At, deviceVars
<1>2. /\ pc'[t] \in {"lock_acquire", "run"}
      /\ \A w \in Threads \ {t} : pc'[w] = pc[w] /\ job'[w] = job[w]
  BY DEF lock_release, Goto, ControlInv, TypeOK
<1>3. DataFits(t)' /\ \A d \in Disks, s \in Sectors : ~Carries(t, d, s)
  BY <1>1, <1>2 DEF DataFits, Carries, Works, WorkPlaces
<1>. QED
  BY <1>1, <1>2, <1>3, DataThread

LEMMA DataNext == ControlInv /\ DiskInv /\ DataInv /\ [Next]_vars => DataInv'
<1> SUFFICES ASSUME ControlInv, DiskInv, DataInv, [Next]_vars, NothingLost' PROVE AllDataFits'
  BY DEF DataInv
<1>0. NothingLost /\ AllDataFits /\ \A t \in Threads : DiskFits(t)
  BY FaultsGrow DEF DiskInv, DataInv, NothingLost
<1>1. CASE UNCHANGED vars
  BY <1>0, <1>1, DataStill DEF vars, deviceVars, threadVars
<1>2. ASSUME NEW t \in Threads, Step(t) PROVE AllDataFits'
  <2>1. CASE disk_init(t)
    <3>1. Boots(t) /\ Identify(t, present) /\ UNCHANGED <<device, content, latest>>
      BY <2>1 DEF disk_init, At, Boots, deviceVars
    <3>. QED
      BY <1>0, <3>1, DataBoot
  <2>. QED
    BY <1>0, <1>2, <2>1, DataAcquire, DataSelect, DataIssue, DataDown,
       DataWait, DataInput, DataOutput, DataRelease DEF Step
<1>3. ASSUME NEW c \in Channels, interrupt_handler(c) PROVE AllDataFits'
  BY <1>0, <1>3, DataStill DEF interrupt_handler, threadVars
<1>4. CASE IdeDpcRoutine
  BY <1>0, <1>4, DataStill DEF IdeDpcRoutine, threadVars, deviceVars
<1>. QED
  BY <1>0, <1>1, <1>2, <1>3, <1>4, DataRequest, DataDevice DEF Next, Hardware


-----------------------------------------------------------------------------
(* One channel: one thread at a time is at work, and a completion is in one *)
(* place on its way from the disk to that thread.                           *)

Token(c) == irq[c] \/ dpc \/ sem[c] # 0

OneToken(c) ==
    /\ irq[c] => ~dpc /\ sem[c] = 0
    /\ dpc => sem[c] = 0
    /\ sem[c] \in {0, 1}

\* The disk is at rest where the thread does not wait for it.
Rests(t) ==
    /\ pc[t] \in {"select_sector", "issue_pio_command", "lock_release"} =>
          device[Mine(t)].status = "idle"
    /\ pc[t] = "wait_while_busy" /\ job[t].op # "write" => device[Mine(t)].status # "busy"
    /\ pc[t] = "wait_while_busy" /\ job[t].op = "write" /\ Token(Mine(t)) =>
          device[Mine(t)].status = "idle"
    /\ pc[t] = "sema_down" /\ Token(Mine(t)) => device[Mine(t)].status # "busy"

OneTurn ==
    /\ "idle timeout" \notin faults /\ bug # "semaphore limit"
    /\ \A t \in Threads : Rests(t)
    /\ \A c \in Channels :
          /\ OneToken(c)
          /\ irq[c] \/ sem[c] # 0 => \E t \in Threads : Waits(t, c)
          /\ device[c].status # "idle" => \E t \in Threads : Works(t) /\ Mine(t) = c
    /\ dpc => \E t \in Threads : Waits(t, Mine(t))

TurnInv == OneChannel => OneTurn

\* Nothing goes on in the channel; nothing goes on at all.
Silent(c) == ~irq[c] /\ sem[c] = 0 /\ device[c].status = "idle"
Quiet == ~dpc /\ \A c \in Channels : Silent(c)

LEMMA SameChannel ==
    ASSUME ControlInv, OneChannel, NEW d \in present, NEW e \in present
    PROVE  Channel(d) = Channel(e)
<1> DEFINE C == {Channel(x) : x \in present}
<1>1. C \subseteq Channels
  <2>1. present \subseteq Disks
    BY DEF ControlInv, TypeOK
  <2>. QED
    BY <2>1, ChannelOfDisk
<1>2. IsFiniteSet(C) /\ Cardinality(C) \in Nat /\ Cardinality(C) <= 1
  BY <1>1, IdeAssumption, FS_Subset, FS_CardinalityType DEF OneChannel
<1>3. IsFiniteSet(C \ {Channel(d)}) /\ Cardinality(C \ {Channel(d)}) = Cardinality(C) - 1
  BY <1>2, FS_RemoveElement
<1>4. Cardinality(C \ {Channel(d)}) = 0
  BY <1>2, <1>3, FS_CardinalityType
<1>5. C \ {Channel(d)} = {}
  BY <1>3, <1>4, FS_EmptySet
<1>. QED
  BY <1>5

LEMMA PresentSame == [Next]_vars => present' = present
<1> SUFFICES ASSUME [Next]_vars PROVE present' = present
  OBVIOUS
<1>1. ASSUME NEW t \in Threads, Step(t) PROVE present' = present
  <2>1. CASE disk_init(t) \/ issue_pio_command(t) \/ sema_down(t) \/ input_sector(t)
             \/ output_sector(t) \/ lock_release(t) \/ select_sector(t)
    BY <2>1 DEF disk_init, issue_pio_command, sema_down, input_sector, output_sector, lock_release,
                select_sector
  <2>2. CASE lock_acquire(t)
    BY <2>2 DEF lock_acquire, Stops
  <2>3. CASE wait_while_busy(t)
    BY <2>3 DEF wait_while_busy, Failed
  <2>. QED
    BY <1>1, <2>1, <2>2, <2>3 DEF Step
<1>2. ASSUME NEW t \in Threads, Request(t) PROVE present' = present
  BY <1>2 DEF Request, Stops
<1>. QED
  BY <1>1, <1>2 DEF Next, Hardware, IdeDpcRoutine, interrupt_handler, DeviceDone, vars

\* What a thread at work may rely on.
LEMMA TurnOf ==
    ASSUME ControlInv, OneChannel, OneTurn, NEW t \in Threads, Works(t)
    PROVE  /\ \A u \in Threads \ {t} : ~Works(u)
           /\ \A k \in Channels \ {Mine(t)} : Silent(k) /\ ~expecting[k]
           /\ Token(Mine(t)) => Waits(t, Mine(t))
<1>1. job[t].disk \in present /\ Mine(t) \in Channels
  BY MineIsChannel
<1>2. ASSUME NEW u \in Threads \ {t}, Works(u) PROVE FALSE
  <2>1. job[u].disk \in present
    BY <1>2, MineIsChannel
  <2>2. Mine(u) = Mine(t)
    BY <1>1, <2>1, SameChannel DEF Mine
  <2>. QED
    BY <1>2, <2>2, Exclusive
<1>3. ASSUME NEW k \in Channels \ {Mine(t)} PROVE Silent(k) /\ ~expecting[k]
  <2>1. ~\E d \in present : Channel(d) = k
    BY <1>1, SameChannel DEF Mine
  <2>2. ChannelFits(k) /\ sem[k] \in Nat
    BY PermitsAreNat DEF ControlInv
  <2>. QED
    BY <2>1, <2>2 DEF ChannelFits, Silent, Selects
<1>4. ASSUME NEW u \in Threads, NEW c, Waits(u, c) PROVE u = t
  <2>1. Works(u)
    BY <1>4 DEF Waits, Works, WorkPlaces
  <2>. QED
    BY <1>2, <2>1
<1>5. Token(Mine(t)) => Waits(t, Mine(t))
  BY <1>1, <1>4 DEF Token, OneTurn
<1>. QED
  BY <1>2, <1>3, <1>5

LEMMA TurnNobody ==
    ASSUME ControlInv, OneTurn, \A u \in Threads : ~Works(u)
    PROVE  Quiet
<1>1. ASSUME NEW u \in Threads, NEW c PROVE ~Waits(u, c)
  BY DEF Waits, Works, WorkPlaces
<1>2. ASSUME NEW c \in Channels PROVE Silent(c)
  BY <1>1, Zenon DEF OneTurn, Silent
<1>3. ~dpc
  BY <1>1, Zenon DEF OneTurn
<1>. QED
  BY <1>2, <1>3 DEF Quiet

\* A channel where nothing goes on is in turn.
LEMMA TurnQuiet ==
    ASSUME ControlInv', Quiet', "idle timeout" \notin faults', bug' # "semaphore limit"
    PROVE  TurnInv'
<1>1. ASSUME NEW u \in Threads PROVE Rests(u)'
  <2>1. CASE ~Works(u)'
    BY <2>1 DEF Rests, Works, WorkPlaces
  <2>2. CASE Works(u)'
    <3>1. job'[u].disk \in Disks
      BY <2>2 DEF ControlInv, JobFits, TypeOK
    <3>2. Mine(u)' \in Channels
      BY <3>1, ChannelOfDisk DEF Mine, Channel
    <3>. QED
      BY <3>2 DEF Quiet, Silent, Rests, Token
  <2>. QED
    BY <2>1, <2>2
<1>2. ASSUME NEW c \in Channels
      PROVE  OneToken(c)' /\ ~irq'[c] /\ sem'[c] = 0 /\ device'[c].status = "idle" /\ ~dpc'
  BY Zenon DEF Quiet, Silent, OneToken
<1>3. ~dpc'
  BY DEF Quiet
<1>. QED
  BY <1>1, <1>2, <1>3 DEF TurnInv, OneTurn

\* One thread is at work and all that goes on is on its channel.
LEMMA TurnFrom ==
    ASSUME ControlInv', NEW t \in Threads, Works(t)', \A u \in Threads \ {t} : ~Works(u)',
           "idle timeout" \notin faults', bug' # "semaphore limit",
           NEW c \in Channels, Mine(t)' = c, \A k \in Channels \ {c} : Silent(k)',
           Rests(t)', OneToken(c)', Token(c)' => Waits(t, c)'
    PROVE  TurnInv'
<1>1. ASSUME NEW u \in Threads PROVE Rests(u)'
  <2>1. CASE u # t
    <3>1. ~Works(u)'
      BY <2>1
    <3>. QED
      BY <3>1 DEF Rests, Works, WorkPlaces
  <2>. QED
    BY <2>1
<1>2. ASSUME NEW k \in Channels
      PROVE  /\ OneToken(k)'
             /\ irq'[k] \/ sem'[k] # 0 => \E u \in Threads : Waits(u, k)'
             /\ device'[k].status # "idle" => \E u \in Threads : (Works(u) /\ Mine(u) = k)'
  <2>1. CASE k = c
    BY <2>1 DEF Token
  <2>2. CASE k # c
    <3>1. Silent(k)'
      BY <2>2
    <3>. QED
      BY <3>1, Zenon DEF Silent, OneToken
  <2>. QED
    BY <2>1, <2>2
<1>3. dpc' => \E u \in Threads : Waits(u, Mine(u))'
  BY DEF Token
<1>. QED
  BY <1>1, <1>2, <1>3 DEF TurnInv, OneTurn

\* The threads at work, the channels and the DPC are as they were.
LEMMA TurnSame ==
    ASSUME ControlInv, ControlInv', OneChannel, OneTurn,
           UNCHANGED <<device, irq, sem, dpc>>,
           "idle timeout" \notin faults', bug' # "semaphore limit",
           \A u \in Threads : Works(u) \/ Works(u)' => pc'[u] = pc[u] /\ job'[u] = job[u]
    PROVE  TurnInv'
<1>1. CASE \A u \in Threads : ~Works(u)
  BY <1>1, TurnNobody, TurnQuiet DEF Quiet, Silent
<1>2. ASSUME NEW t \in Threads, Works(t) PROVE TurnInv'
  <2>1. PICK c \in Channels : c = Mine(t)
    BY <1>2, MineIsChannel
  <2>2. /\ \A u \in Threads \ {t} : ~Works(u)
        /\ \A k \in Channels \ {c} : Silent(k)
        /\ Token(c) => Waits(t, c)
    BY <1>2, <2>1, TurnOf
  <2>3. pc'[t] = pc[t] /\ job'[t] = job[t] /\ Mine(t)' = c
    BY <1>2, <2>1 DEF Mine, Channel
  <2>4. Works(t)' /\ \A u \in Threads \ {t} : ~Works(u)'
    BY <1>2, <2>2, <2>3 DEF Works
  <2>5. Rests(t)' /\ OneToken(c)' /\ (Token(c)' => Waits(t, c)')
    <3>1. Rests(t) /\ OneToken(c) /\ Token(c)' = Token(c)
      BY DEF OneTurn, Token
    <3>. QED
      BY <2>1, <2>2, <2>3, <3>1 DEF Rests, OneToken, Waits, Token
  <2>6. \A k \in Channels \ {c} : Silent(k)'
    BY <2>2 DEF Silent
  <2>. QED
    BY <2>3, <2>4, <2>5, <2>6, TurnFrom
<1>. QED
  BY <1>1, <1>2

LEMMA TurnInit == Init => TurnInv
<1> SUFFICES ASSUME Init PROVE OneTurn
  BY DEF TurnInv
<1>1. ASSUME NEW t \in Threads PROVE Rests(t)
  BY DEF Init, Rests
<1>2. ASSUME NEW c \in Channels PROVE OneToken(c) /\ ~irq[c] /\ sem[c] = 0 /\ device[c].status = "idle"
  BY DEF Init, OneToken, InitialCount, Free
<1>. QED
  BY <1>1, <1>2 DEF OneTurn, Init


\* The interrupt is taken: the completion is now with the DPC.
LEMMA TurnInterrupt ==
    ASSUME ControlInv, ControlInv', OneChannel, OneTurn, NEW c \in Channels, interrupt_handler(c)
    PROVE  TurnInv'
<1>1. /\ irq[c] /\ irq' = [irq EXCEPT ![c] = FALSE] /\ dpc'
      /\ UNCHANGED <<pc, job, device, sem, faults, bug>>
  BY DEF interrupt_handler, KeInsertQueueDpc, threadVars
<1>2. PICK t \in Threads : Waits(t, c)
  BY <1>1 DEF OneTurn
<1>3. Works(t) /\ Mine(t) = c
  BY <1>2 DEF Waits, Works, WorkPlaces
<1>4. /\ \A u \in Threads \ {t} : ~Works(u)
      /\ \A k \in Channels \ {c} : Silent(k)
  BY <1>3, TurnOf
<1>5. Works(t)' /\ Mine(t)' = c /\ \A u \in Threads \ {t} : ~Works(u)'
  BY <1>1, <1>3, <1>4 DEF Works, Mine, Channel
<1>6. \A k \in Channels \ {c} : Silent(k)'
  <2>1. \A k \in Channels \ {c} : irq'[k] = irq[k]
    BY <1>1 DEF ControlInv, TypeOK
  <2>. QED
    BY <1>1, <1>4, <2>1 DEF Silent
<1>7. sem'[c] = 0 /\ ~irq'[c]
  <2>1. OneToken(c)
    BY DEF OneTurn
  <2>2. sem[c] = 0
    BY <1>1, <2>1 DEF OneToken
  <2>3. irq \in [Channels -> BOOLEAN]
    BY DEF ControlInv, TypeOK
  <2>. QED
    BY <1>1, <2>2, <2>3
<1>8. OneToken(c)'
  BY <1>7, Zenon DEF OneToken
<1>9. Waits(t, c)'
  BY <1>1, <1>2, <1>5 DEF Waits
<1>10. Rests(t)'
  <2>1. Rests(t) /\ Token(c)
    BY <1>1 DEF OneTurn, Token
  <2>. QED
    BY <1>1, <1>3, <1>5, <2>1, Zenon DEF Rests
<1>11. "idle timeout" \notin faults' /\ bug' # "semaphore limit"
  BY <1>1 DEF OneTurn
<1>. QED
  BY <1>5, <1>6, <1>8, <1>9, <1>10, <1>11, TurnFrom

\* The DPC gives the completion to the semaphore of the one channel.
LEMMA TurnDpc ==
    ASSUME ControlInv, ControlInv', OneChannel, OneTurn, IdeDpcRoutine
    PROVE  TurnInv'
<1>1. /\ dpc /\ ~dpc' /\ UNCHANGED <<pc, job, device, irq, faults>>
  BY DEF IdeDpcRoutine, threadVars, deviceVars
<1>2. PICK t \in Threads : Waits(t, Mine(t))
  BY <1>1 DEF OneTurn
<1>3. PICK c : c = Mine(t)
  OBVIOUS
<1>4. Works(t) /\ c \in Channels /\ expecting[c]
  <2>1. Works(t) /\ pc[t] \in {"sema_down", "wait_while_busy"}
    BY <1>2 DEF Waits, Works, WorkPlaces
  <2>. QED
    BY <1>3, <2>1, MineIsChannel DEF ControlInv, JobFits
<1>5. /\ \A u \in Threads \ {t} : ~Works(u)
      /\ \A k \in Channels \ {c} : Silent(k) /\ ~expecting[k]
  BY <1>3, <1>4, TurnOf
<1>6. \A k \in Channels : sem[k] = 0 /\ ~irq[k]
  BY <1>1, Zenon DEF OneTurn, OneToken
<1>7. BelowLimit
  BY <1>6, IdeAssumption DEF BelowLimit, Released
<1>8. bug' = bug /\ sem' = [k \in Channels |-> IF k \in Released THEN sem[k] + 1 ELSE sem[k]]
  BY <1>7 DEF IdeDpcRoutine
<1>9. sem'[c] = 1 /\ \A k \in Channels \ {c} : sem'[k] = 0
  BY <1>4, <1>5, <1>6, <1>8 DEF Released
<1>10. Works(t)' /\ Mine(t)' = c /\ \A u \in Threads \ {t} : ~Works(u)'
  BY <1>1, <1>3, <1>4, <1>5 DEF Works, Mine, Channel
<1>11. \A k \in Channels \ {c} : Silent(k)'
  BY <1>1, <1>5, <1>9 DEF Silent
<1>12. OneToken(c)'
  <2>1. ~irq'[c] /\ ~dpc' /\ sem'[c] = 1
    BY <1>1, <1>4, <1>6, <1>9
  <2>. QED
    BY <2>1, Zenon DEF OneToken
<1>13. Waits(t, c)'
  BY <1>1, <1>2, <1>10 DEF Waits
<1>14. Rests(t)'
  <2>1. Rests(t) /\ Token(c)
    BY <1>1, Zenon DEF OneTurn, Token
  <2>. QED
    BY <1>1, <1>3, <1>10, <2>1, Zenon DEF Rests
<1>15. "idle timeout" \notin faults' /\ bug' # "semaphore limit"
  BY <1>1, <1>8 DEF OneTurn
<1>. QED
  BY <1>4, <1>10, <1>11, <1>12, <1>13, <1>14, <1>15, TurnFrom

\* The disk is done: the completion is with the interrupt, unless it now asks for data.
LEMMA TurnDevice ==
    ASSUME ControlInv, ControlInv', DiskInv, OneChannel, OneTurn,
           NEW c \in Channels, DeviceDone(c)
    PROVE  TurnInv'
<1> DEFINE v == device[c]
<1>1. v \in Registers /\ v.status = "busy" /\ UNCHANGED <<pc, job, dpc, sem, bug>>
  BY DEF DeviceDone, ControlInv, TypeOK, threadVars, channelVars
<1>2. PICK ok \in BOOLEAN :
          /\ IF ok THEN UNCHANGED faults ELSE Fault(v.command)
          /\ device' = [device EXCEPT ![c] =
                IF ok /\ v.command # "data" THEN [v EXCEPT !.status = "drq"] ELSE Drained(v)]
          /\ irq' = [irq EXCEPT ![c] = v.command # "write" \/ ~ok]
  BY DEF DeviceDone
<1>3. PICK t \in Threads : Works(t) /\ Mine(t) = c
  BY <1>1 DEF OneTurn
<1>4. /\ \A u \in Threads \ {t} : ~Works(u)
      /\ \A k \in Channels \ {c} : Silent(k)
  BY <1>3, TurnOf
<1>5. Rests(t) /\ JobFits(t) /\ DiskFits(t)
  BY DEF OneTurn, ControlInv, DiskInv
<1>6. pc[t] = "sema_down" \/ (pc[t] = "wait_while_busy" /\ job[t].op = "write")
  BY <1>1, <1>3, <1>5 DEF Rests, JobFits, Works, WorkPlaces
<1>7. ~Token(c)
  BY <1>1, <1>3, <1>5, <1>6 DEF Rests
<1>8. ~irq[c] /\ ~dpc /\ sem[c] = 0
  BY <1>7, Zenon DEF Token
<1>9. Works(t)' /\ Mine(t)' = c /\ \A u \in Threads \ {t} : ~Works(u)'
  BY <1>1, <1>3, <1>4 DEF Works, Mine, Channel
<1>10. \A k \in Channels \ {c} : Silent(k)'
  <2>1. \A k \in Channels \ {c} : irq'[k] = irq[k] /\ device'[k] = device[k]
    BY <1>2 DEF ControlInv, TypeOK
  <2>. QED
    BY <1>1, <1>4, <2>1 DEF Silent
<1>11. ~dpc' /\ sem'[c] = 0
  BY <1>1, <1>8
<1>12. OneToken(c)'
  BY <1>11, Zenon DEF OneToken
<1>13. Waits(t, c)'
  BY <1>1, <1>6, <1>9 DEF Waits
<1>14. Rests(t)'
  <2>1. /\ device'[c].status # "busy"
        /\ device'[c].status # "idle" => ok /\ device'[c].status = "drq"
    BY <1>1, <1>2 DEF Drained, Free, Registers, ControlInv, TypeOK
  <2>2. irq'[c] => v.command # "write" \/ ~ok
    BY <1>2 DEF ControlInv, TypeOK
  <2>3. CASE pc[t] = "sema_down"
    BY <1>1, <1>9, <2>1, <2>3 DEF Rests
  <2>4. CASE pc[t] = "wait_while_busy" /\ job[t].op = "write"
    <3>1. v.command = "write"
      BY <1>1, <1>3, <1>5, <2>4 DEF DiskFits
    <3>2. irq'[c] => device'[c].status = "idle"
      BY <2>1, <2>2, <3>1
    <3>3. Token(c)' => irq'[c]
      BY <1>11, Zenon DEF Token
    <3>4. Token(c)' => device'[c].status = "idle"
      BY <3>2, <3>3
    <3>. QED
      BY <1>1, <1>9, <2>4, <3>4 DEF Rests
  <2>. QED
    BY <1>6, <2>3, <2>4
<1>15. "idle timeout" \notin faults' /\ bug' # "semaphore limit"
  <2>1. v.command # "idle timeout"
    BY <1>1 DEF Registers
  <2>2. faults' \subseteq faults \cup {v.command}
    BY <1>2 DEF Fault
  <2>. QED
    BY <1>1, <2>1, <2>2 DEF OneTurn
<1>. QED
  BY <1>9, <1>10, <1>12, <1>13, <1>14, <1>15, TurnFrom


\* The steps of a thread that do not wait for the disk.
LEMMA TurnCalls ==
    ASSUME ControlInv, ControlInv', OneChannel, OneTurn, NEW t \in Threads,
           Request(t) \/ lock_acquire(t) \/ disk_init(t)
    PROVE  TurnInv'
<1>0. pc \in [Threads -> Places] /\ job \in [Threads -> Jobs]
  BY DEF ControlInv, TypeOK
<1>1. CASE Stops("no disk") \/ Stops("contended lock")
  BY <1>1, TurnSame DEF Stops, channelVars, deviceVars, threadVars, OneTurn
<1>2. CASE disk_init(t)
  <2>1. \A u \in Threads : ~Works(u)
    <3>1. Boots(t) /\ pc[t] = "disk_init"
      BY <1>2 DEF disk_init, At, Boots
    <3>2. \A u \in Threads \ {t} : pc[u] = "off"
      BY <3>1 DEF ControlInv, JobFits
    <3>. QED
      BY <3>1, <3>2 DEF Works, WorkPlaces
  <2>2. Quiet /\ UNCHANGED <<device, irq, sem, dpc, faults, bug>>
    BY <1>2, <2>1, TurnNobody DEF disk_init, channelVars, deviceVars
  <2>. QED
    BY <2>2, TurnQuiet DEF Quiet, Silent, OneTurn
<1>3. CASE Request(t) /\ ~Stops("no disk")
  <2>1. PICK j : /\ job' = [job EXCEPT ![t] = j] /\ Goto(t, "lock_acquire")
                 /\ UNCHANGED <<is_ata, present, channelVars, deviceVars, latest, faults, bug>>
    BY <1>3 DEF Request
  <2>2. UNCHANGED <<device, irq, sem, dpc, faults, bug>> /\ pc[t] = "run"
    BY <1>3, <2>1 DEF channelVars, deviceVars, Request, At
  <2>3. /\ pc'[t] = "lock_acquire" /\ \A w \in Threads \ {t} : pc'[w] = pc[w] /\ job'[w] = job[w]
    BY <1>0, <2>1 DEF Goto
  <2>4. ~Works(t) /\ ~Works(t)'
    BY <2>2, <2>3 DEF Works, WorkPlaces
  <2>. QED
    BY <2>2, <2>3, <2>4, TurnSame DEF OneTurn
<1>4. CASE lock_acquire(t) /\ ~Stops("contended lock")
  <2>1. /\ lock[Mine(t)] = None
        /\ UNCHANGED <<is_ata, present, expecting, sem, dpc, deviceVars, faults, job, asked, bug>>
    BY <1>4 DEF lock_acquire
  <2>2. pc[t] = "lock_acquire"
    BY <1>4 DEF lock_acquire, At
  <2>3. ASSUME NEW u \in Threads, Works(u) PROVE FALSE
    <3>1. u # t
      BY <2>2, <2>3 DEF Works, WorkPlaces
    <3>2. ~Boots(u)
      BY <2>2, <3>1, NobodyBoots
    <3>3. lock[Mine(u)] = u
      BY <2>3, <3>2 DEF ControlInv, JobFits, Boots
    <3>4. job[u].disk \in present /\ job[t].disk \in present
      BY <2>2, <2>3, MineIsChannel
    <3>5. Mine(u) = Mine(t)
      BY <3>4, SameChannel DEF Mine
    <3>. QED
      BY <2>1, <3>3, <3>5, IdeAssumption
  <2>4. Quiet /\ UNCHANGED <<device, irq, sem, dpc, faults, bug>>
    BY <2>1, <2>3, TurnNobody DEF deviceVars
  <2>. QED
    BY <2>4, TurnQuiet DEF Quiet, Silent, OneTurn
<1>. QED
  BY <1>1, <1>2, <1>3, <1>4

\* A thread that does not wait finds no completion on its way.
LEMMA NoToken ==
    ASSUME ControlInv, OneChannel, OneTurn, NEW t \in Threads, Works(t), ~Waits(t, Mine(t))
    PROVE  ~dpc /\ \A k \in Channels : ~irq[k] /\ sem[k] = 0
<1>1. ~Token(Mine(t)) /\ \A k \in Channels \ {Mine(t)} : Silent(k)
  BY TurnOf
<1>2. ~dpc /\ ~irq[Mine(t)] /\ sem[Mine(t)] = 0
  BY <1>1, Zenon DEF Token
<1>. QED
  BY <1>1, <1>2 DEF Silent

LEMMA TurnSelect ==
    ASSUME ControlInv, ControlInv', OneChannel, OneTurn, NEW t \in Threads, select_sector(t)
    PROVE  TurnInv'
<1> PICK c : c = Mine(t)
  OBVIOUS
<1>1. /\ Works(t) /\ c \in Channels /\ job[t] \in Jobs /\ device[c] \in Registers
      /\ pc[t] = "select_sector"
  BY MineIsChannel DEF select_sector, At, Works, WorkPlaces
<1>2. device[c].status = "idle"
  BY <1>1 DEF OneTurn, Rests
<1>3. /\ UNCHANGED <<irq, sem, dpc, faults, bug>>
      /\ device' = [device EXCEPT ![c] = Selected(t, @)]
  BY <1>2 DEF select_sector, channelVars, Idle
<1>4. ~dpc /\ \A k \in Channels : ~irq[k] /\ sem[k] = 0
  BY <1>1, NoToken DEF Waits
<1>5. \A k \in Channels : device'[k].status = "idle"
  <2>1. device'[c].status = "idle"
    BY <1>1, <1>2, <1>3 DEF Selected, Registers, ControlInv, TypeOK
  <2>2. \A k \in Channels \ {c} : device'[k] = device[k] /\ device[k].status = "idle"
    BY <1>1, <1>3, TurnOf DEF Silent, ControlInv, TypeOK
  <2>. QED
    BY <2>1, <2>2
<1>6. Quiet'
  BY <1>3, <1>4, <1>5 DEF Quiet, Silent
<1>. QED
  BY <1>3, <1>6, TurnQuiet DEF OneTurn

LEMMA TurnIssue ==
    ASSUME ControlInv, ControlInv', OneChannel, OneTurn, NEW t \in Threads, issue_pio_command(t)
    PROVE  TurnInv'
<1> PICK c : c = Mine(t)
  OBVIOUS
<1>1. /\ Works(t) /\ c \in Channels /\ pc[t] = "issue_pio_command"
  BY MineIsChannel DEF issue_pio_command, At, Works, WorkPlaces
<1>2. UNCHANGED <<job, irq, sem, dpc, faults, bug>>
  BY DEF issue_pio_command
<1>3. pc'[t] = AfterCommand(t) /\ \A u \in Threads \ {t} : pc'[u] = pc[u]
  BY DEF issue_pio_command, Goto, ControlInv, TypeOK
<1>4. ~dpc' /\ \A k \in Channels : ~irq'[k] /\ sem'[k] = 0
  BY <1>1, <1>2, NoToken DEF Waits
<1>5. \A k \in Channels \ {c} : device'[k] = device[k]
  BY DEF issue_pio_command, ControlInv, TypeOK
<1>6. /\ \A u \in Threads \ {t} : ~Works(u)'
      /\ \A k \in Channels \ {c} : Silent(k)'
  <2>1. /\ \A u \in Threads \ {t} : ~Works(u)
        /\ \A k \in Channels \ {c} : Silent(k)
    BY <1>1, TurnOf
  <2>. QED
    BY <1>2, <1>3, <1>5, <2>1 DEF Silent, Works
<1>7. Works(t)' /\ Mine(t)' = c
  BY <1>2, <1>3 DEF Works, WorkPlaces, AfterCommand, Mine, Channel
<1>8. OneToken(c)' /\ ~Token(c)'
  BY <1>1, <1>4, Zenon DEF OneToken, Token
<1>9. Rests(t)'
  BY <1>2, <1>3, <1>7, <1>8 DEF Rests, AfterCommand
<1>. QED
  BY <1>1, <1>2, <1>6, <1>7, <1>8, <1>9, TurnFrom DEF OneTurn

LEMMA TurnDown ==
    ASSUME ControlInv, ControlInv', DiskInv, OneChannel, OneTurn, NEW t \in Threads, sema_down(t)
    PROVE  TurnInv'
<1> PICK c : c = Mine(t)
  OBVIOUS
<1>1. /\ Works(t) /\ c \in Channels /\ pc[t] = "sema_down" /\ sem[c] > 0
  BY MineIsChannel DEF sema_down, At, Works, WorkPlaces
<1>2. /\ UNCHANGED <<job, device, irq, dpc, faults, bug>>
      /\ sem' = [sem EXCEPT ![c] = sem[c] - 1]
  BY <1>1 DEF sema_down, deviceVars, ControlInv, TypeOK
<1>3. /\ pc'[t] = (IF job[t].op = "write" THEN "lock_release" ELSE "wait_while_busy")
      /\ \A u \in Threads \ {t} : pc'[u] = pc[u]
  BY DEF sema_down, Goto, ControlInv, TypeOK
<1>4. OneToken(c) /\ sem[c] # 0
  <2>1. sem[c] # 0
    BY <1>1
  <2>. QED
    BY <1>1, <2>1 DEF OneTurn
<1>5. sem[c] = 1 /\ ~dpc /\ ~irq[c]
  BY <1>4, Zenon DEF OneToken
<1>6. ~dpc' /\ ~irq'[c] /\ sem'[c] = 0
  <2>1. sem'[c] = sem[c] - 1
    BY <1>1, <1>2 DEF ControlInv, TypeOK
  <2>2. sem'[c] = 0
    BY <1>5, <2>1
  <2>. QED
    BY <1>2, <1>5, <2>2
<1>7. device'[c].status # "busy"
  BY <1>1, <1>2, <1>4 DEF OneTurn, Rests, Token
<1>8. \A k \in Channels \ {c} : Silent(k)'
  <2>1. \A k \in Channels \ {c} : Silent(k) /\ sem'[k] = sem[k]
    BY <1>1, <1>2, TurnOf DEF ControlInv, TypeOK
  <2>. QED
    BY <1>2, <2>1 DEF Silent
<1>9. CASE job[t].op = "write"
  <2>1. device'[c].status = "idle"
    BY <1>1, <1>2, <1>7, <1>9 DEF OneTurn, DiskInv, DiskFits
  <2>2. Silent(c)'
    BY <1>6, <2>1 DEF Silent
  <2>3. Quiet'
    BY <1>6, <1>8, <2>2 DEF Quiet
  <2>. QED
    BY <1>2, <2>3, TurnQuiet DEF OneTurn
<1>10. CASE job[t].op # "write"
  <2>1. Works(t)' /\ Mine(t)' = c /\ pc'[t] = "wait_while_busy"
    BY <1>2, <1>3, <1>10 DEF Works, WorkPlaces, Mine, Channel
  <2>2. \A u \in Threads \ {t} : ~Works(u)'
    BY <1>1, <1>3, TurnOf DEF Works
  <2>3. OneToken(c)' /\ ~Token(c)'
    BY <1>6, Zenon DEF OneToken, Token
  <2>4. Rests(t)'
    BY <1>2, <1>7, <1>10, <2>1 DEF Rests
  <2>. QED
    BY <1>1, <1>2, <1>8, <2>1, <2>2, <2>3, <2>4, TurnFrom DEF OneTurn
<1>. QED
  BY <1>9, <1>10

LEMMA TurnWait ==
    ASSUME ControlInv, ControlInv', OneChannel, OneTurn, NEW t \in Threads, wait_while_busy(t)
    PROVE  TurnInv'
<1> PICK c : c = Mine(t)
  OBVIOUS
<1>1. /\ Works(t) /\ c \in Channels /\ pc[t] = "wait_while_busy" /\ Rests(t)
  BY MineIsChannel DEF wait_while_busy, At, Works, WorkPlaces, OneTurn
<1>2. CASE /\ device[c].status = "drq"
           /\ Goto(t, "transfer")
           /\ UNCHANGED <<is_ata, present, channelVars, deviceVars, latest, faults, job, asked, bug>>
  <2>1. UNCHANGED <<job, device, irq, sem, dpc, faults, bug>>
    BY <1>2 DEF channelVars, deviceVars
  <2>2. pc'[t] = "transfer" /\ \A u \in Threads \ {t} : pc'[u] = pc[u]
    BY <1>2 DEF Goto, ControlInv, TypeOK
  <2>3. ~Token(c)
    <3>1. Token(c) => Waits(t, c)
      BY <1>1, TurnOf
    <3>. QED
      BY <1>1, <1>2, <3>1 DEF Waits, Rests
  <2>4. OneToken(c)' /\ ~Token(c)'
    <3>1. ~irq'[c] /\ ~dpc' /\ sem'[c] = 0
      BY <2>1, <2>3, Zenon DEF Token
    <3>. QED
      BY <3>1, Zenon DEF OneToken, Token
  <2>5. /\ \A u \in Threads \ {t} : ~Works(u)'
        /\ \A k \in Channels \ {c} : Silent(k)'
    <3>1. /\ \A u \in Threads \ {t} : ~Works(u)
          /\ \A k \in Channels \ {c} : Silent(k)
      BY <1>1, TurnOf
    <3>. QED
      BY <2>1, <2>2, <3>1 DEF Silent, Works
  <2>6. Works(t)' /\ Mine(t)' = c /\ Rests(t)'
    BY <2>1, <2>2 DEF Works, WorkPlaces, Mine, Channel, Rests
  <2>. QED
    BY <1>1, <2>1, <2>4, <2>5, <2>6, TurnFrom DEF OneTurn
<1>3. CASE /\ device[c].status = "idle" /\ Failed(t) /\ UNCHANGED faults
           /\ job[t].op = "identify"
  <2>1. device[c].status = "idle"
    BY <1>3
  <2>2. UNCHANGED <<device, irq, sem, dpc, bug, faults>>
    BY <1>3 DEF Failed, channelVars
  <2>3. ~dpc /\ \A k \in Channels : ~irq[k] /\ sem[k] = 0
    BY <1>1, <1>3, NoToken DEF Waits
  <2>4. \A k \in Channels : device[k].status = "idle"
    BY <1>1, <2>1, TurnOf DEF Silent
  <2>5. Quiet'
    BY <2>2, <2>3, <2>4 DEF Quiet, Silent
  <2>. QED
    BY <2>2, <2>5, TurnQuiet DEF OneTurn
<1>4. CASE Failed(t) /\ job[t].op # "identify"
  <2>1. UNCHANGED <<pc, job, device, irq, sem, dpc>> /\ bug' = "disk failed"
    BY <1>4 DEF Failed, channelVars, threadVars
  <2>2. faults' \subseteq faults \cup {"late"}
    BY DEF wait_while_busy, Fault
  <2>. QED
    BY <2>1, <2>2, TurnSame DEF OneTurn
<1>5. job[t].op = "identify" => device[c].status # "busy"
  BY <1>1 DEF Rests
<1>. QED
  BY <1>2, <1>3, <1>4, <1>5 DEF wait_while_busy

LEMMA TurnTransfer ==
    ASSUME ControlInv, ControlInv', OneChannel, OneTurn, NEW t \in Threads,
           input_sector(t) \/ output_sector(t)
    PROVE  TurnInv'
<1> PICK c : c = Mine(t)
  OBVIOUS
<1>1. /\ Works(t) /\ c \in Channels /\ pc[t] = "transfer" /\ device[c] \in Registers
  BY MineIsChannel DEF input_sector, output_sector, At, Works, WorkPlaces
<1>2. UNCHANGED <<irq, sem, dpc, faults, bug>>
  BY DEF input_sector, output_sector, channelVars
<1>3. ~dpc' /\ \A k \in Channels : ~irq'[k] /\ sem'[k] = 0
  BY <1>1, <1>2, NoToken DEF Waits
<1>4. /\ \A u \in Threads \ {t} : ~Works(u)
      /\ \A k \in Channels \ {c} : Silent(k)
  BY <1>1, TurnOf
<1>5. \A k \in Channels \ {c} : device'[k] = device[k]
  BY DEF input_sector, output_sector, ControlInv, TypeOK
<1>6. \A k \in Channels \ {c} : Silent(k)'
  BY <1>2, <1>4, <1>5 DEF Silent
<1>7. CASE input_sector(t)
  <2>1. device'[c].status = "idle"
    BY <1>1, <1>7 DEF input_sector, Drained, Free, ControlInv, TypeOK
  <2>2. Silent(c)'
    BY <1>1, <1>3, <2>1 DEF Silent
  <2>3. Quiet'
    BY <1>3, <1>6, <2>2 DEF Quiet
  <2>. QED
    BY <1>2, <2>3, TurnQuiet DEF OneTurn
<1>8. CASE output_sector(t)
  <2>1. pc'[t] = "sema_down" /\ job' = job /\ \A u \in Threads \ {t} : pc'[u] = pc[u]
    BY <1>8 DEF output_sector, Goto, ControlInv, TypeOK
  <2>2. Works(t)' /\ Mine(t)' = c /\ \A u \in Threads \ {t} : ~Works(u)'
    BY <1>4, <2>1 DEF Works, WorkPlaces, Mine, Channel
  <2>3. OneToken(c)' /\ ~Token(c)'
    BY <1>1, <1>3, Zenon DEF OneToken, Token
  <2>4. Rests(t)'
    BY <2>1, <2>2, <2>3 DEF Rests
  <2>. QED
    BY <1>1, <1>2, <1>6, <2>2, <2>3, <2>4, TurnFrom DEF OneTurn
<1>. QED
  BY <1>7, <1>8

LEMMA TurnRelease ==
    ASSUME ControlInv, ControlInv', OneChannel, OneTurn, NEW t \in Threads, lock_release(t)
    PROVE  TurnInv'
<1>1. /\ Works(t) /\ Mine(t) \in Channels /\ pc[t] = "lock_release"
  BY MineIsChannel DEF lock_release, At, Works, WorkPlaces
<1>2. UNCHANGED <<device, irq, sem, dpc, faults, bug>>
  BY DEF lock_release, deviceVars
<1>3. ~dpc /\ \A k \in Channels : ~irq[k] /\ sem[k] = 0
  BY <1>1, NoToken DEF Waits
<1>4. \A k \in Channels : device[k].status = "idle"
  BY <1>1, TurnOf DEF Silent, OneTurn, Rests
<1>5. Quiet'
  BY <1>2, <1>3, <1>4 DEF Quiet, Silent
<1>. QED
  BY <1>2, <1>5, TurnQuiet DEF OneTurn

LEMMA TurnNext == ControlInv /\ ControlInv' /\ DiskInv /\ TurnInv /\ [Next]_vars => TurnInv'
<1> SUFFICES ASSUME ControlInv, ControlInv', DiskInv, TurnInv, [Next]_vars, OneChannel'
             PROVE  TurnInv'
  BY DEF TurnInv
<1>0. OneChannel /\ OneTurn
  BY PresentSame DEF OneChannel, TurnInv
<1>1. CASE UNCHANGED vars
  BY <1>0, <1>1, TurnSame DEF vars, channelVars, deviceVars, threadVars, OneTurn
<1>2. ASSUME NEW t \in Threads, Step(t) PROVE TurnInv'
  BY <1>0, <1>2, TurnCalls, TurnSelect, TurnIssue, TurnDown, TurnWait, TurnTransfer, TurnRelease
     DEF Step
<1>. QED
  BY <1>0, <1>1, <1>2, TurnCalls, TurnInterrupt, TurnDevice, TurnDpc DEF Next, Hardware

-----------------------------------------------------------------------------
(* The theorems.                                                            *)

DriverInv == ControlInv /\ DiskInv /\ DataInv /\ TurnInv

LEMMA DriverInvariant == Spec => []DriverInv
<1>1. Init => DriverInv
  BY ControlInit, DiskInit, DataInit, TurnInit DEF DriverInv
<1>2. DriverInv /\ [Next]_vars => DriverInv'
  BY ControlNext, DiskNext, DataNext, TurnNext DEF DriverInv
<1>. QED
  BY <1>1, <1>2, PTL DEF Spec

\* With one channel in use, commands and completions alternate (issue_pio_command, sema_down,
\* IdeDpcRoutine): no permit is left over, no command finds the disk busy and no semaphore
\* fills up, for every number of threads, disks and faults.
THEOREM CompletionsAlternate == Spec => []CompletionsInTurn
<1>1. DriverInv => CompletionsInTurn
  <2> SUFFICES ASSUME DriverInv PROVE CompletionsInTurn
    OBVIOUS
  <2>1. TypeOK /\ (OneChannel => OneTurn)
    BY DEF DriverInv, ControlInv, TurnInv
  <2>2. CommandsInTurn /\ LimitNeedsTwo
    BY <2>1 DEF CommandsInTurn, LimitNeedsTwo, OneTurn
  <2>3. ASSUME OneChannel, NEW c \in Channels, sem[c] > 0
        PROVE  sem[c] = 1 /\ \E t \in Threads : Waits(t, c)
    <3>1. sem[c] # 0 /\ OneTurn
      BY <2>1, <2>3
    <3>. QED
      BY <3>1, Zenon DEF OneTurn, OneToken
  <2>4. PermitForCommand
    BY <2>3 DEF PermitForCommand
  <2>. QED
    BY <2>1, <2>2, <2>4 DEF CompletionsInTurn
<1>. QED
  BY <1>1, DriverInvariant, PTL

\* A read returns what was last written to its sector (input_sector behind wait_while_busy),
\* although permits for the other channel let threads pass sema_down early.
THEOREM ReadsReturnTheLatest == Spec => []ReadsLatest
<1>1. DriverInv => ReadsLatest
  BY DEF DriverInv, DataInv, AllDataFits, DataFits, ReadsLatest
<1>. QED
  BY <1>1, DriverInvariant, PTL

\* With one channel in use, disk_write returns when the sector has its data.
THEOREM WritesAreAcknowledged == Spec => []WriteAcknowledged
<1>1. DriverInv => WriteAcknowledged
  <2> SUFFICES ASSUME DriverInv, OneChannel, NothingLost, NEW t \in Threads,
                      pc[t] = "lock_release", job[t].op = "write"
               PROVE  content[job[t].disk][job[t].sector] = job[t].data
    BY DEF WriteAcknowledged
  <2>1. ControlInv /\ OneTurn /\ AllDataFits
    BY DEF DriverInv, TurnInv, DataInv
  <2>2. Works(t)
    BY DEF Works, WorkPlaces
  <2>3. job[t].disk \in Disks /\ job[t].sector \in Sectors
    BY <2>1, <2>2, MineIsChannel DEF Jobs
  <2>4. job[t].data = latest[job[t].disk][job[t].sector]
    BY <2>1, <2>2 DEF AllDataFits, DataFits
  <2>5. ~Written(job[t].disk, job[t].sector)
    BY <2>1 DEF OneTurn, Rests, Written, Mine
  <2>6. ASSUME NEW w \in Threads, Carries(w, job[t].disk, job[t].sector) PROVE FALSE
    <3>1. Works(w) /\ Mine(w) = Mine(t) /\ w # t
      BY <2>6 DEF Carries, Works, WorkPlaces, Mine
    <3>. QED
      BY <2>1, <2>2, <3>1, Exclusive
  <2>7. SectorFits(job[t].disk, job[t].sector)
    BY <2>1, <2>3 DEF AllDataFits
  <2>. QED
    BY <2>4, <2>5, <2>6, <2>7 DEF SectorFits, Carried
<1>. QED
  BY <1>1, DriverInvariant, PTL

\* A thread in sema_down has its completion ahead: the disk is busy, or the interrupt, the DPC
\* or the permit is there.
THEOREM CompletionsAreAhead == Spec => []CompletionAhead
<1>1. DriverInv => CompletionAhead
  <2> SUFFICES ASSUME DriverInv, bug = "none", "idle timeout" \notin faults, NEW t \in Threads,
                      pc[t] = "sema_down"
               PROVE  \/ device[Mine(t)].status = "busy" \/ irq[Mine(t)]
                      \/ (dpc /\ expecting[Mine(t)]) \/ sem[Mine(t)] > 0
    BY DEF CompletionAhead
  <2>1. JobFits(t) /\ DiskFits(t)
    BY DEF DriverInv, ControlInv, DiskInv
  <2>. QED
    BY <2>1 DEF JobFits, DiskFits, Ahead
<1>. QED
  BY <1>1, DriverInvariant, PTL

=============================================================================
