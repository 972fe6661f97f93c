------------------------------- MODULE FatFs -------------------------------
(***************************************************************************)
(* The FAT file system of kern/fs/ff.c as kosfs.c and the loader use it:   *)
(* the allocation table behind a one-sector window, directories, open file *)
(* objects with a private one-sector buffer, and a disk that keeps exactly *)
(* the sectors written before the power went off.                          *)
(*                                                                         *)
(* A call is planned when it starts, or once per turn of its loop: a plan  *)
(* is the sequence of things it does to the window and the disk, and every *)
(* item of a plan is a step, at most one sector write each.  The power may *)
(* fail between any two.  Calls do not overlap (the callers' duty, as      *)
(* _FS_REENTRANT is 0).  ide.c's disk_read and disk_write never return an  *)
(* error, so FR_DISK_ERR does not occur; f_mkfs writes one FAT copy.       *)
(***************************************************************************)
EXTENDS Integers, Sequences, FiniteSets, SequencesExt, TLC

CONSTANTS
    SS,             \* bytes in a sector
    CSize,          \* fs->csize: sectors in a cluster
    NFatEnt,        \* fs->n_fatent: clusters are 2 .. NFatEnt - 1
    FatPerSec,      \* table entries in one sector of the FAT
    EPS,            \* directory entries in one sector
    NRootSec,       \* sectors of the static root directory (FAT12/16)
    Types,          \* sub-types the volume may have: "FAT16", "FAT32"
    Paths,          \* paths callers use, sequences of names
    Fils,           \* file objects (FIL)
    Modes,          \* the mode flags callers open with
    Offsets,        \* file offsets callers seek to
    Counts,         \* byte counts callers read and write
    MaxCalls,       \* bound on the calls that complete
    Payload(_, _)   \* the byte a writer puts at an offset

ASSUME GeometryAssumption ==
    /\ {SS, CSize, FatPerSec, EPS, NRootSec} \subseteq Nat \ {0}
    /\ EPS * CSize > 2
    /\ NFatEnt \in Nat /\ NFatEnt > 3
    /\ Types \subseteq {"FAT16", "FAT32"}
    /\ \A p \in Paths : Len(p) > 0
    /\ Offsets \subseteq Nat /\ Counts \subseteq Nat \ {0}

VARIABLES
    vol,    \* the FATFS object and the disk under it
    fil,    \* the file objects
    call,   \* the call in progress
    changing,   \* the paths that call may change: those it was given, unless it only looks or writes back
    got,    \* the bytes the last f_read delivered
    hole,   \* per path, the offsets a seek skipped over and nobody wrote
    view,   \* what each path named when the last call returned (see View)
    calls,  \* the calls that have completed
    up      \* FALSE once the power has failed and the volume was remounted

vars == <<vol, fil, call, changing, got, hole, view, calls, up>>

-----------------------------------------------------------------------------
(* Sectors and what they hold.                                             *)

Clusters == 2 .. NFatEnt - 1
EOC == NFatEnt
Unknown == -1
NoSect == <<"none">>
FatSect(c) == <<"fat", c \div FatPerSec>>
clust2sect(c, s) == <<"data", c, s>>
RootSecs == [i \in 1 .. NRootSec |-> <<"root", i>>]
DataSecs(c) == [i \in 1 .. CSize |-> clust2sect(c, i - 1)]

Junk == <<"junk", 0>>
JunkBytes == [i \in 1 .. SS |-> Junk]

Entry(nm, isdir, clust, size) == [nm |-> nm, isdir |-> isdir, clust |-> clust, size |-> size]
EndEntry == Entry("", FALSE, 0, 0)
Deleted == Entry("E5", FALSE, 0, 0)
EmptyTable == [i \in 1 .. EPS |-> EndEntry]

Bytes(x) == <<"bytes", x>>
Table(x) == <<"table", x>>
BytesIn(x) == IF x[1] = "bytes" THEN x[2] ELSE JunkBytes
EntriesIn(x) == IF x[1] = "table" THEN x[2] ELSE [i \in 1 .. EPS |-> Entry("junk", FALSE, 0, 0)]

\* What f_mkfs leaves on the disk: an empty table, the root directory, and the count of free clusters
f_mkfs(t) ==
    LET fats     == {FatSect(c) : c \in 0 .. NFatEnt - 1}
        datas    == {clust2sect(c, s) : c \in Clusters, s \in 0 .. CSize - 1}
        fat(c)   == IF c < 2 \/ (t = "FAT32" /\ c = 2) THEN EOC ELSE 0
    IN [s \in fats \cup datas \cup Range(RootSecs) \cup {<<"fsinfo">>} |->
            CASE s[1] = "fat"    -> <<"fat", [c \in {d \in 0 .. NFatEnt - 1 : FatSect(d) = s} |-> fat(c)]>>
              [] s[1] = "data"   -> IF t = "FAT32" /\ s[2] = 2 THEN Table(EmptyTable) ELSE Bytes(JunkBytes)
              [] s[1] = "root"   -> Table(EmptyTable)
              [] s[1] = "fsinfo" -> <<"fsinfo", Cardinality(Clusters) - 1, EOC>>]

\* The volume after chk_mounted has mounted it: an empty window, and the counts FSInfo holds
chk_mounted(t, disk) ==
    [type |-> t, disk |-> disk, winsect |-> NoSect, win |-> NoSect, wflag |-> FALSE,
     free_clust |-> IF t = "FAT32" THEN disk[<<"fsinfo">>][2] ELSE Unknown,
     last_clust |-> IF t = "FAT32" THEN disk[<<"fsinfo">>][3] ELSE 0,
     fsi_flag |-> FALSE]

\* The sector as the running system sees it
Current(s) == IF vol.winsect = s THEN vol.win ELSE vol.disk[s]

-----------------------------------------------------------------------------
(* The items of a plan, and what they do to the volume.                    *)

See(s) == [do |-> "see", s |-> s]                            \* move_window(fs, s)
Sees(secs) == [i \in DOMAIN secs |-> See(secs[i])]
Flush == [do |-> "flush"]                                    \* move_window(fs, 0)
PutFat(c, x) == [do |-> "fat", c |-> c, x |-> x]             \* put_fat
Count(d, last) == [do |-> "count", d |-> d, last |-> last]   \* free_clust += d, last_clust = last
PutEntry(s, i, e) == [do |-> "entry", s |-> s, i |-> i, e |-> e]
Write(s, x) == [do |-> "write", s |-> s, x |-> x]            \* disk_write of a buffer
Clear(s, s1, x) == [do |-> "clear", s |-> s, s1 |-> s1, x |-> x]  \* write x, leave a cleared window at s1
FsInfo == [do |-> "fsinfo"]
Scanned(n) == [do |-> "scanned", n |-> n]                     \* free_clust = n

WriteBack(v) == IF v.wflag THEN [v EXCEPT !.disk[v.winsect] = v.win, !.wflag = FALSE] ELSE v

move_window(v, s) ==
    IF v.winsect = s THEN v
    ELSE LET w == WriteBack(v) IN [w EXCEPT !.winsect = s, !.win = w.disk[s]]

put_fat(v, c, x) ==
    LET w == move_window(v, FatSect(c)) IN [w EXCEPT !.win = <<"fat", [@[2] EXCEPT ![c] = x]>>, !.wflag = TRUE]

\* The FSInfo sector is put together in the window, whose sector number becomes 0
PutFsInfo(v) ==
    IF v.type = "FAT32" /\ v.fsi_flag
    THEN [v EXCEPT !.disk[<<"fsinfo">>] = <<"fsinfo", v.free_clust, v.last_clust>>,
                   !.winsect = NoSect, !.win = NoSect, !.fsi_flag = FALSE]
    ELSE v

\* Mutant: the count is not kept
NotCounted(v, d, last) == [v EXCEPT !.last_clust = last]

Counted(v, d, last) ==
    [v EXCEPT !.last_clust = last,
              !.free_clust = IF @ = Unknown THEN @ ELSE @ + d,
              !.fsi_flag = @ \/ v.free_clust # Unknown]

Execute(v, m) ==
    CASE m.do = "see"    -> move_window(v, m.s)
      [] m.do = "flush"  -> WriteBack(v)
      [] m.do = "fat"    -> put_fat(v, m.c, m.x)
      [] m.do = "count"  -> Counted(v, m.d, IF m.last = Unknown THEN v.last_clust ELSE m.last)
      [] m.do = "entry"  -> LET w == move_window(v, m.s)
                            IN [w EXCEPT !.win = Table([EntriesIn(@) EXCEPT ![m.i] = m.e]), !.wflag = TRUE]
      [] m.do = "write"  -> [v EXCEPT !.disk[m.s] = m.x]
      [] m.do = "clear"  -> [v EXCEPT !.disk[m.s] = m.x, !.winsect = m.s1, !.win = Table(EmptyTable)]
      [] m.do = "fsinfo" -> PutFsInfo(v)
      [] m.do = "scanned" -> [v EXCEPT !.free_clust = m.n, !.fsi_flag = @ \/ v.type = "FAT32"]

\* Mutant: the window is not written back
NotFlushed == <<FsInfo>>

sync == <<Flush, FsInfo>>

-----------------------------------------------------------------------------
(* The allocation table.                                                   *)

FatVal(c) == Current(FatSect(c))[2][c]

\* The clusters reached from c by following the table, at most n of them
RECURSIVE Chain(_, _)
Chain(c, n) == IF c \notin Clusters \/ n = 0 THEN <<>> ELSE <<c>> \o Chain(FatVal(c), n - 1)
ChainOf(c) == Chain(c, NFatEnt)

\* Mutant: only the first cluster goes
FirstOnly(c) == IF c \in Clusters THEN <<PutFat(c, 0), Count(1, Unknown)>> ELSE <<>>

\* Every link of the chain up to a free one is read, marked empty, and counted
remove_chain(c) ==
    FlattenSeq([i \in DOMAIN ChainOf(c) |->
        IF FatVal(ChainOf(c)[i]) = 0 THEN <<See(FatSect(ChainOf(c)[i]))>>
        ELSE <<PutFat(ChainOf(c)[i], 0), Count(1, Unknown)>>])

\* The order in which create_chain looks for a free cluster: upwards from scl, then around from 2 to scl
SearchOrder(scl) ==
    [i \in 1 .. NFatEnt - 1 - scl |-> scl + i] \o [i \in 1 .. scl - 1 |-> i + 1]

\* A free cluster, searched from scl and linked behind c; the clusters in taken count as used.
\* `new' is 0 when the disk is full
Stretch(c, scl, taken) ==
    LET ord == SearchOrder(scl)
        hit == SelectInSeq(ord, LAMBDA d : FatVal(d) = 0 /\ d \notin taken)
    IN IF hit = 0 THEN [new |-> 0, plan |-> Sees([i \in DOMAIN ord |-> FatSect(ord[i])])]
       ELSE [new  |-> ord[hit],
             plan |-> Sees([i \in 1 .. hit |-> FatSect(ord[i])]) \o <<PutFat(ord[hit], EOC)>>
                        \o (IF c = 0 THEN <<>> ELSE <<PutFat(c, ord[hit])>>)
                        \o <<Count(-1, ord[hit])>>]

\* create_chain: behind c, or a new chain if c is 0; 1 is an internal error
create_chain(c) ==
    IF c = 0 THEN Stretch(0, IF vol.last_clust \in 1 .. NFatEnt - 1 THEN vol.last_clust ELSE 1, {})
    ELSE CASE FatVal(c) < 2        -> [new |-> 1, plan |-> <<See(FatSect(c))>>]
           [] FatVal(c) \in Clusters -> [new |-> FatVal(c), plan |-> <<See(FatSect(c))>>]
           [] FatVal(c) >= NFatEnt -> LET r == Stretch(c, c, {})
                                      IN [new |-> r.new, plan |-> <<See(FatSect(c))>> \o r.plan]

-----------------------------------------------------------------------------
(* Directories.  A directory is named by its start cluster; 0 is the root. *)

DirChain(sc) == IF sc # 0 THEN ChainOf(sc) ELSE IF vol.type = "FAT32" THEN ChainOf(2) ELSE <<>>

\* The sectors dir_sdi and dir_next pass through, the table's own included
DirWalk(sc) ==
    IF sc = 0 /\ vol.type = "FAT16" THEN RootSecs
    ELSE FlattenSeq([i \in DOMAIN DirChain(sc) |->
                        Append(DataSecs(DirChain(sc)[i]), FatSect(DirChain(sc)[i]))])

EntryAt(s, i) == EntriesIn(Current(s))[i]

\* Slots are <<step of the walk, index in the sector>>: those of the directory, those whose entry has
\* one of the names, and the first of some
Slots(walk) == {p \in (DOMAIN walk) \X (1 .. EPS) : walk[p[1]][1] # "fat"}
SlotsOf(walk, names) == {p \in Slots(walk) : EntryAt(walk[p[1]], p[2]).nm \in names}
FirstSlot(S) == CHOOSE p \in S : \A q \in S : p[1] < q[1] \/ (p[1] = q[1] /\ p[2] <= q[2])

\* The walk of dir_find ends at the entry, at the end mark, or at the end of the directory
dir_find(sc, nm) ==
    LET walk == DirWalk(sc)
        S    == SlotsOf(walk, {nm, ""})
        Found(p) ==
            IF EntryAt(walk[p[1]], p[2]).nm = nm
            THEN [res |-> "OK", sc |-> sc, nm |-> nm, sect |-> walk[p[1]], i |-> p[2],
                  e |-> EntryAt(walk[p[1]], p[2]), trail |-> Sees(SubSeq(walk, 1, p[1]))]
            ELSE [res |-> "NO_FILE", sc |-> sc, nm |-> nm, sect |-> NoSect, i |-> 0, e |-> EndEntry,
                  trail |-> Sees(SubSeq(walk, 1, p[1]))]
    IN IF S # {} THEN Found(FirstSlot(S))
       ELSE [res |-> "NO_FILE", sc |-> sc, nm |-> nm, sect |-> NoSect, i |-> 0, e |-> EndEntry,
             trail |-> Sees(walk)]

\* Every segment of the path in turn; a segment that is missing or no directory ends the search
Root == [res |-> "OK", sc |-> 0, nm |-> "", sect |-> NoSect, i |-> 0,
         e |-> Entry("", TRUE, 0, 0), trail |-> <<>>]
Descend(r, nm) ==
    IF r.res # "OK" \/ ~r.e.isdir THEN [r EXCEPT !.res = "NO_PATH"]
    ELSE [dir_find(r.e.clust, nm) EXCEPT !.trail = r.trail \o @]
follow_path(path) == FoldLeft(Descend, Root, path)

\* Write a cluster full of tables, the first one given, and leave the window cleared over sector s1
FillCluster(c, first, s1) ==
    [i \in 1 .. CSize |-> Clear(clust2sect(c, i - 1), IF i = CSize THEN s1 ELSE NoSect,
                                Table(IF i = 1 THEN first ELSE EmptyTable))]

\* The first blank entry; at the end of the table the directory grows by a cluster, which is linked
\* and flushed before it is cleared
dir_register(sc, e, taken) ==
    LET walk == DirWalk(sc)
        S    == SlotsOf(walk, {"E5", ""})
        At(p) == [ok |-> TRUE, sect |-> walk[p[1]], i |-> p[2],
                  plan |-> Sees(SubSeq(walk, 1, p[1])) \o <<PutEntry(walk[p[1]], p[2], e)>>]
        Grown(r) ==
            IF r.new = 0 THEN [ok |-> FALSE, sect |-> NoSect, i |-> 0, plan |-> Sees(walk) \o r.plan]
            ELSE [ok |-> TRUE, sect |-> clust2sect(r.new, 0), i |-> 1,
                  plan |-> Sees(walk) \o r.plan \o <<Flush>>
                            \o FillCluster(r.new, EmptyTable, clust2sect(r.new, 0))
                            \o <<PutEntry(clust2sect(r.new, 0), 1, e)>>]
    IN IF S # {} THEN At(FirstSlot(S))
       ELSE IF DirChain(sc) = <<>> THEN [ok |-> FALSE, sect |-> NoSect, i |-> 0, plan |-> Sees(walk)]
       ELSE Grown(Stretch(Last(DirChain(sc)), Last(DirChain(sc)), taken))

\* dir_sdi reads the table on its way to a sector of a directory
dir_sdi(sc, s) ==
    IF s[1] = "root" THEN <<>>
    ELSE Sees([j \in 1 .. SelectInSeq(DirChain(sc), LAMBDA c : c = s[2]) - 1 |-> FatSect(DirChain(sc)[j])])

dir_remove(r) == dir_sdi(r.sc, r.sect) \o <<PutEntry(r.sect, r.i, Deleted)>>

-----------------------------------------------------------------------------
(* What each path names for a caller: a writer's file object counts before *)
(* the directory entry.                                                    *)

ClusterBytes == CSize * SS
Closed == [open |-> FALSE]
HoleByte == <<"hole", 0>>
KindOf(r) == IF r.res # "OK" THEN "none" ELSE IF r.e.isdir THEN "dir" ELSE "file"

Extent(files, p, e) ==
    LET W  == {f \in Fils : files[f].open /\ files[f].path = p /\ files[f].write}
        fp == files[CHOOSE f \in W : TRUE]
    IN IF W = {} THEN [org |-> e.clust, size |-> e.size, dsect |-> NoSect, buf |-> JunkBytes]
       ELSE [org |-> fp.org_clust, size |-> fp.fsize,
             dsect |-> IF fp.dirty THEN fp.dsect ELSE NoSect, buf |-> fp.buf]

ByteAt(x, chain, o) ==
    LET n == o \div ClusterBytes + 1
        s == clust2sect(chain[n], (o \div SS) % CSize)
    IN IF n > Len(chain) \/ FatVal(chain[n]) = 0 THEN Junk
       ELSE (IF x.dsect = s THEN x.buf ELSE BytesIn(vol.disk[s]))[(o % SS) + 1]

Named(files, p, r, holes) ==
    LET x == Extent(files, p, r.e)
        Reached(ch) ==
            [kind |-> KindOf(r), chain |-> ch, parent |-> r.sc,
             data |-> IF KindOf(r) = "dir" THEN <<>>
                      ELSE [k \in 1 .. x.size |-> IF k - 1 \in holes THEN HoleByte ELSE ByteAt(x, ch, k - 1)]]
    IN IF KindOf(r) = "none" THEN [kind |-> "none", chain |-> <<>>, parent |-> 0, data |-> <<>>]
       ELSE Reached(ChainOf(x.org))

View(files, holes) == [p \in Paths |-> Named(files, p, follow_path(p), holes[p])]

-----------------------------------------------------------------------------
(* Calls.  One is running at a time; it returns when its plan is done.     *)

Idle == [op |-> "none"]
IsOpen(f) == fil[f].open
Ready(paths) == up /\ call = Idle /\ calls < MaxCalls /\ changing' = paths

Plan(todo, files, holes) == [op |-> "plan", todo |-> todo, files |-> files, holes |-> holes, out |-> <<>>]
Start(c) == call' = c /\ UNCHANGED <<vol, fil, got, hole, view, calls, up>>

Step ==
    /\ call.op \notin {"none", "off"} /\ call.todo # <<>>
    /\ vol' = Execute(vol, Head(call.todo))
    /\ call' = [call EXCEPT !.todo = Tail(@)]
    /\ UNCHANGED <<fil, changing, got, hole, view, calls, up>>

Return ==
    /\ call.op = "plan" /\ call.todo = <<>>
    /\ fil' = call.files /\ got' = call.out /\ hole' = call.holes
    /\ view' = View(call.files, call.holes)
    /\ call' = Idle /\ changing' = {} /\ calls' = calls + 1
    /\ UNCHANGED <<vol, up>>

\* The window, the file buffers and the running call are lost; the disk is mounted again
PowerOff ==
    /\ up /\ call.op # "off"
    /\ vol' = chk_mounted(vol.type, vol.disk)
    /\ call' = [op |-> "off"]
    /\ UNCHANGED <<fil, changing, got, hole, view, calls, up>>

PowerOn ==
    /\ call.op = "off" /\ up
    /\ up' = FALSE /\ changing' = {}
    /\ fil' = [f \in Fils |-> Closed]
    /\ view' = View(fil', hole)
    /\ got' = <<>>
    /\ UNCHANGED <<vol, call, hole, calls>>

-----------------------------------------------------------------------------
(* f_open, and the modes of kosfs.c.                                       *)

\* kosfs.c: what KfsCreate makes of the caller's FILE_MODE; the empty set is O_RDONLY
FileModeToFSMode(m) ==
    (IF m = {} THEN {"READ"} ELSE {})
        \cup (IF "O_WRONLY" \in m THEN {"WRITE", "OPEN_ALWAYS"} ELSE {})
        \cup (IF "O_RDWR" \in m THEN {"READ", "WRITE", "OPEN_ALWAYS"} ELSE {})
        \cup (IF m \cap {"O_CREATE", "O_EXCL"} # {} THEN {"CREATE_NEW"} ELSE {})
        \cup (IF "O_TRUNC" \in m THEN {"READ", "OPEN_ALWAYS"} ELSE {})

Creating == {"CREATE_ALWAYS", "OPEN_ALWAYS", "CREATE_NEW"}

\* Callers keep the rule chk_lock would enforce with _FS_SHARE: a file opened other than for reading
\* only is open once, and an open file is neither removed nor renamed
Under(p, q) == IsPrefix(p, q)
NotOpen(p) == \A f \in Fils : IsOpen(f) => ~Under(p, fil[f].path)
MayOpen(p, mode) ==
    \A f \in Fils : IsOpen(f) /\ fil[f].path = p => fil[f].mode = {"READ"} /\ mode = {"READ"}

NewFil(path, mode, written, sect, i, e) ==
    [open |-> TRUE, path |-> path, mode |-> mode, read |-> "READ" \in mode, write |-> "WRITE" \in mode,
     written |-> written, dirty |-> FALSE, err |-> FALSE, fptr |-> 0, fsize |-> e.size,
     org_clust |-> e.clust, curr_clust |-> 0, dsect |-> NoSect, buf |-> JunkBytes,
     dir_sect |-> sect, dir_i |-> i]

\* Cut an existing file to nothing as FA_CREATE_ALWAYS does: the entry first, then the chain
Overwritten(r) ==
    <<PutEntry(r.sect, r.i, [r.e EXCEPT !.size = 0, !.clust = 0])>>
        \o (IF r.e.clust = 0 THEN <<>>
            ELSE remove_chain(r.e.clust) \o <<Count(0, r.e.clust - 1), See(r.sect)>>)

Opened(f, path, mode, plan, written, sect, i, e) ==
    Start(Plan(plan, [fil EXCEPT ![f] = NewFil(path, mode, written, sect, i, e)],
               IF written THEN [hole EXCEPT ![path] = {}] ELSE hole))

\* A call that changes nothing for its callers, because it fails or only looks
Unaltered(plan) == Start(Plan(plan, fil, hole))

f_open(f, path, mode) ==
    /\ Ready({path}) /\ ~IsOpen(f) /\ MayOpen(path, mode)
    /\ \E r \in {follow_path(path)} :
        \/ /\ r.res = "OK" /\ ~r.e.isdir /\ mode \cap {"CREATE_NEW", "CREATE_ALWAYS"} = {}
           /\ Opened(f, path, mode, r.trail, FALSE, r.sect, r.i, r.e)
        \/ /\ r.res = "OK" /\ ~r.e.isdir /\ "CREATE_NEW" \notin mode /\ "CREATE_ALWAYS" \in mode
           /\ Opened(f, path, mode, r.trail \o Overwritten(r), TRUE, r.sect, r.i, [r.e EXCEPT !.size = 0, !.clust = 0])
        \/ /\ r.res = "NO_FILE" /\ mode \cap Creating # {}
           /\ \E e \in {Entry(r.nm, FALSE, 0, 0)} : \E g \in {dir_register(r.sc, e, {})} :
                \/ g.ok /\ Opened(f, path, mode, r.trail \o g.plan, TRUE, g.sect, g.i, e)
                \/ ~g.ok /\ Unaltered(r.trail \o g.plan)
        \/ /\ \/ r.res = "NO_PATH"
              \/ r.res = "NO_FILE" /\ mode \cap Creating = {}
              \/ r.res = "OK" /\ (r.e.isdir \/ "CREATE_NEW" \in mode)
           /\ Unaltered(r.trail)

-----------------------------------------------------------------------------
(* f_read, f_write and f_lseek: loops over the sectors and the clusters.   *)

Lesser(a, b) == IF a < b THEN a ELSE b
Greater(a, b) == IF a > b THEN a ELSE b
csect(fp) == (fp.fptr \div SS) % CSize

FlushBuf(fp) == IF fp.dirty THEN <<Write(fp.dsect, Bytes(fp.buf))>> ELSE <<>>

Usable(f) == IsOpen(f) /\ ~fil[f].err
Loop(op, f, n) == Start([op |-> op, todo |-> <<>>, f |-> f, fp |-> fil[f], left |-> n, out |-> <<>>])
Turn(op) == call.op = op /\ call.todo = <<>> /\ UNCHANGED changing
Put(f, fp) == [fil EXCEPT ![f] = fp]

f_read(f, n) ==
    Usable(f) /\ Ready({}) /\ fil[f].read /\ Loop("read", f, Lesser(n, fil[f].fsize - fil[f].fptr))
f_write(f, n) == Usable(f) /\ Ready({fil[f].path}) /\ fil[f].write /\ Loop("write", f, n)

\* ABORT: the file object is marked and the call returns
Abort(plan) == Start(Plan(plan, Put(call.f, [call.fp EXCEPT !.err = TRUE]), hole))

\* The bytes of buffer b from the file pointer on
ReadBuf(fp, plan) ==
    LET o == fp.fptr % SS
        n == Lesser(SS - o, call.left)
    IN Start([call EXCEPT !.todo = plan, !.out = @ \o SubSeq(fp.buf, o + 1, o + n), !.left = @ - n,
                          !.fp = [fp EXCEPT !.fptr = @ + n]])

\* The cluster under the file pointer of a reader
ReadCluster(fp) ==
    IF csect(fp) # 0 THEN [new |-> fp.curr_clust, plan |-> <<>>]
    ELSE IF fp.fptr = 0 THEN [new |-> fp.org_clust, plan |-> <<>>]
    ELSE [new |-> FatVal(fp.curr_clust), plan |-> <<See(FatSect(fp.curr_clust))>>]

\* Whole sectors go straight from the disk to the caller, except the one the buffer holds dirty; for a
\* part of a sector a dirty buffer is written back even if it already holds that sector
DirectSector(fp, s) == IF fp.dirty /\ fp.dsect = s THEN fp.buf ELSE BytesIn(vol.disk[s])

ReadSector(fp, c, plan) ==
    LET n      == Lesser(call.left \div SS, CSize - csect(fp))
        sec(j) == clust2sect(c, csect(fp) + j)
    IN \/ /\ n > 0
          /\ Start([call EXCEPT !.todo = plan, !.left = @ - n * SS,
                                !.fp = [fp EXCEPT !.curr_clust = c, !.fptr = @ + n * SS],
                                !.out = @ \o FlattenSeq([j \in 1 .. n |-> DirectSector(fp, sec(j - 1))])])
       \/ /\ n = 0
          /\ ReadBuf([fp EXCEPT !.curr_clust = c, !.dirty = FALSE, !.dsect = sec(0),
                                !.buf = IF fp.dsect = sec(0) THEN @ ELSE BytesIn(vol.disk[sec(0)])],
                     plan \o FlushBuf(fp))

ReadTurn ==
    /\ Turn("read")
    /\ \/ call.left > 0 /\ call.fp.fptr % SS # 0 /\ ReadBuf(call.fp, <<>>)
       \/ /\ call.left > 0 /\ call.fp.fptr % SS = 0
          /\ \E r \in {ReadCluster(call.fp)} :
                IF r.new \in Clusters THEN ReadSector(call.fp, r.new, r.plan) ELSE Abort(r.plan)
       \/ /\ call.left = 0
          /\ LET p == call.fp.path
                 from == fil[call.f].fptr
             IN Start([Plan(<<>>, Put(call.f, call.fp), hole) EXCEPT
                        !.out = [j \in DOMAIN call.out |-> IF from + j - 1 \in hole[p] THEN HoleByte ELSE call.out[j]]])

\* The cluster a writer needs next, allocated if the chain ends here
WriteCluster(fp) ==
    IF csect(fp) # 0 THEN [new |-> fp.curr_clust, plan |-> <<>>]
    ELSE IF fp.fptr # 0 THEN create_chain(fp.curr_clust)
    ELSE IF fp.org_clust = 0 THEN create_chain(0) ELSE [new |-> fp.org_clust, plan |-> <<>>]

WriteBuf(fp, plan) ==
    LET o == fp.fptr % SS
        n == Lesser(SS - o, call.left)
    IN Start([call EXCEPT !.todo = plan, !.left = @ - n,
                          !.fp = [fp EXCEPT !.fptr = @ + n, !.dirty = TRUE,
                                            !.buf = [j \in 1 .. SS |-> IF j \in o + 1 .. o + n
                                                        THEN Payload(call.f, fp.fptr - o + j - 1) ELSE @[j]]]])

\* Whole sectors go straight to the disk, and a buffered copy is refreshed; a part of a sector goes to
\* the buffer, which behind the end of the file is not filled from the disk first
WriteSector(fp, plan) ==
    LET n       == Lesser(call.left \div SS, CSize - csect(fp))
        sec(j)  == clust2sect(fp.curr_clust, csect(fp) + j - 1)
        data(j) == [k \in 1 .. SS |-> Payload(call.f, fp.fptr + (j - 1) * SS + k - 1)]
        hit     == {j \in 1 .. n : sec(j) = fp.dsect}
    IN \/ /\ n > 0
          /\ Start([call EXCEPT !.todo = plan \o [j \in 1 .. n |-> Write(sec(j), Bytes(data(j)))],
                                !.left = @ - n * SS,
                                !.fp = [fp EXCEPT !.fptr = @ + n * SS,
                                                  !.buf = IF hit = {} THEN @ ELSE data(CHOOSE j \in hit : TRUE)]])
       \/ /\ n = 0
          /\ WriteBuf([fp EXCEPT !.dsect = sec(1),
                                 !.buf = IF fp.dsect # sec(1) /\ fp.fptr < fp.fsize
                                         THEN BytesIn(vol.disk[sec(1)]) ELSE @], plan)

\* The loop is over when everything is written or the disk is full
WriteDone(fp, plan) ==
    Start(Plan(plan, Put(call.f, [fp EXCEPT !.fsize = Greater(@, fp.fptr), !.written = TRUE]),
               [hole EXCEPT ![fp.path] = @ \ (fil[call.f].fptr .. fp.fptr - 1)]))

WriteTurn ==
    /\ Turn("write")
    /\ \/ call.left > 0 /\ call.fp.fptr % SS # 0 /\ WriteBuf(call.fp, <<>>)
       \/ /\ call.left > 0 /\ call.fp.fptr % SS = 0
          /\ \E r \in {WriteCluster(call.fp)} :
                IF r.new \in Clusters
                THEN \E fp \in {[call.fp EXCEPT !.curr_clust = r.new, !.dirty = FALSE,
                                                !.org_clust = IF call.fp.fptr = 0 THEN r.new ELSE @]} :
                        WriteSector(fp, r.plan \o FlushBuf(call.fp))
                ELSE IF r.new = 0 THEN WriteDone(call.fp, r.plan) ELSE Abort(r.plan)
       \/ call.left = 0 /\ WriteDone(call.fp, <<>>)

\* f_lseek starts in the current cluster, or at the head of the chain, which a writer may have to create
Seeking(f, fp, c, ofs, plan) ==
    Start([op |-> "seek", todo |-> plan, f |-> f, fp |-> fp, c |-> c, left |-> ofs, out |-> <<>>])

f_lseek(f, to) ==
    /\ Usable(f) /\ Ready({fil[f].path})
    /\ \E fp \in {fil[f]} : \E ofs \in {IF fil[f].write THEN to ELSE Lesser(to, fil[f].fsize)} :
        LET near == fp.fptr > 0 /\ (ofs - 1) \div ClusterBytes >= (fp.fptr - 1) \div ClusterBytes
            base == ((fp.fptr - 1) \div ClusterBytes) * ClusterBytes
        IN \/ ofs = 0 /\ Start(Plan(<<>>, Put(f, [fp EXCEPT !.fptr = 0]), hole))
           \/ ofs > 0 /\ near /\ Seeking(f, [fp EXCEPT !.fptr = base], fp.curr_clust, ofs - base, <<>>)
           \/ /\ ofs > 0 /\ ~near
              /\ \E r \in {IF fp.org_clust = 0 THEN create_chain(0) ELSE [new |-> fp.org_clust, plan |-> <<>>]} :
                    IF r.new = 0 THEN Start(Plan(r.plan, Put(f, [fp EXCEPT !.fptr = 0, !.curr_clust = 0]), hole))
                    ELSE Seeking(f, [fp EXCEPT !.fptr = 0, !.org_clust = r.new, !.curr_clust = r.new], r.new, ofs, r.plan)

\* Load the sector the seek ends in, and grow the file if it ends behind it
SeekDone(c, ofs, plan) ==
    LET fp    == [call.fp EXCEPT !.fptr = @ + ofs]
        nsect == clust2sect(c, ofs \div SS)
        gp    == IF fp.fptr % SS # 0 /\ nsect # fp.dsect
                 THEN [fp EXCEPT !.dirty = FALSE, !.dsect = nsect, !.buf = BytesIn(vol.disk[nsect])] ELSE fp
    IN Start(Plan(plan \o (IF gp.dsect = fp.dsect THEN <<>> ELSE FlushBuf(fp)),
                  Put(call.f, [gp EXCEPT !.fsize = Greater(@, fp.fptr), !.written = @ \/ fp.fptr > fp.fsize]),
                  [hole EXCEPT ![fp.path] = @ \cup (fp.fsize .. fp.fptr - 1)]))

\* One cluster further: a writer stretches the chain, and a full disk clips the seek
SeekTurn ==
    /\ Turn("seek")
    /\ \/ call.left <= ClusterBytes /\ SeekDone(call.c, call.left, <<>>)
       \/ /\ call.left > ClusterBytes
          /\ \E r \in {IF call.fp.write THEN create_chain(call.c)
                       ELSE [new |-> FatVal(call.c), plan |-> <<See(FatSect(call.c))>>]} :
                IF r.new \in Clusters
                THEN Seeking(call.f, [call.fp EXCEPT !.curr_clust = r.new, !.fptr = @ + ClusterBytes], r.new,
                             call.left - ClusterBytes, r.plan)
                ELSE IF call.fp.write /\ r.new = 0 THEN SeekDone(0, ClusterBytes, r.plan) ELSE Abort(r.plan)

-----------------------------------------------------------------------------
(* The calls that write back and that change directories.                  *)

\* f_sync: the buffer, then the directory entry, then what the window and FSInfo still hold
SyncPlan(fp) ==
    IF ~fp.written THEN <<>>
    ELSE FlushBuf(fp)
            \o <<PutEntry(fp.dir_sect, fp.dir_i, [EntryAt(fp.dir_sect, fp.dir_i) EXCEPT !.size = fp.fsize, !.clust = fp.org_clust])>>
            \o sync

f_sync(f) ==
    /\ Ready({}) /\ IsOpen(f)
    /\ Start(Plan(SyncPlan(fil[f]),
                  Put(f, [fil[f] EXCEPT !.written = FALSE, !.dirty = @ /\ ~fil[f].written]), hole))

f_close(f) == Ready({}) /\ IsOpen(f) /\ Start(Plan(SyncPlan(fil[f]), Put(f, Closed), hole))

\* f_truncate at the file pointer.  Callers sync first: a dirty buffer of a sector behind the new end
\* stays in the file object and would later be written into a cluster that may have a new owner
Truncated(fp) ==
    IF fp.fptr = 0 THEN remove_chain(fp.org_clust)
    ELSE IF FatVal(fp.curr_clust) \in Clusters
         THEN <<PutFat(fp.curr_clust, EOC)>> \o remove_chain(FatVal(fp.curr_clust))
         ELSE <<See(FatSect(fp.curr_clust))>>

f_truncate(f) ==
    /\ Usable(f) /\ Ready({fil[f].path}) /\ fil[f].write /\ ~fil[f].dirty
    /\ fil[f].fsize > fil[f].fptr
    /\ Start(Plan(Truncated(fil[f]),
                  Put(f, [fil[f] EXCEPT !.fsize = fil[f].fptr, !.written = TRUE,
                                        !.org_clust = IF fil[f].fptr = 0 THEN 0 ELSE @]),
                  [hole EXCEPT ![fil[f].path] = @ \cap (0 .. fil[f].fptr - 1)]))

\* f_unlink's look for an entry other than the dots
EmptyCheck(sc) ==
    LET walk == DirWalk(sc)
        S    == Slots(walk) \ SlotsOf(walk, {"E5", ".", ".."})
        At(p) == [plan |-> Sees(SubSeq(walk, 1, p[1])), empty |-> EntryAt(walk[p[1]], p[2]).nm = ""]
    IN IF S = {} THEN [plan |-> Sees(walk), empty |-> TRUE] ELSE At(FirstSlot(S))

f_unlink(path) ==
    /\ Ready({path}) /\ NotOpen(path)
    /\ \E r \in {follow_path(path)} :
        \/ r.res # "OK" /\ Unaltered(r.trail)
        \/ /\ r.res = "OK"
           /\ \E x \in {IF r.e.isdir THEN EmptyCheck(r.e.clust) ELSE [plan |-> <<>>, empty |-> TRUE]} :
                \/ ~x.empty /\ Unaltered(r.trail \o x.plan)
                \/ /\ x.empty
                   /\ Start(Plan(r.trail \o x.plan \o dir_remove(r) \o remove_chain(r.e.clust) \o sync,
                                 fil, [hole EXCEPT ![path] = {}]))

DotTable(c, parent) ==
    [i \in 1 .. EPS |-> CASE i = 1 -> Entry(".", TRUE, c, 0)
                          [] i = 2 -> Entry("..", TRUE, parent, 0)
                          [] i > 2 -> EndEntry]

\* f_mkdir: allocate and flush, write the table, register it; if that fails the cluster goes back
f_mkdir(path) ==
    /\ Ready({path})
    /\ \E r \in {follow_path(path)} :
        \/ r.res # "NO_FILE" /\ Unaltered(r.trail)
        \/ /\ r.res = "NO_FILE"
           /\ \E a \in {create_chain(0)} :
                \/ a.new = 0 /\ Unaltered(r.trail \o a.plan)
                \/ /\ a.new # 0
                   /\ \E g \in {dir_register(r.sc, Entry(r.nm, TRUE, a.new, 0), {a.new})},
                         made \in {r.trail \o a.plan \o <<Flush>>
                                    \o FillCluster(a.new, DotTable(a.new, r.sc), clust2sect(a.new, CSize - 1))} :
                        \/ g.ok /\ Start(Plan(made \o g.plan \o sync, fil, hole))
                        \/ ~g.ok /\ Unaltered(made \o g.plan \o <<PutFat(a.new, 0), Count(1, Unknown)>>)

\* A bound on callers: what a directory holds must still be named by a path of the model afterwards
InScope(old, new) ==
    \A p \in Paths : Under(old, p) /\ view[p].kind # "none" => new \o SubSeq(p, Len(old) + 1, Len(p)) \in Paths

\* Mutant: the dot-dot entry keeps the old parent
NotReparented(r, sc) == <<>>

\* A directory that moves to another parent has its dot-dot entry rewritten
Reparent(r, sc) ==
    IF r.sc = sc \/ ~r.e.isdir THEN <<>>
    ELSE <<PutEntry(clust2sect(r.e.clust, 0), 2, Entry("..", TRUE, sc, 0))>>

RenamedHoles(old, new) ==
    [p \in Paths |-> IF Under(old, p) THEN {}
                     ELSE IF Under(new, p) /\ old \o SubSeq(p, Len(new) + 1, Len(p)) \in Paths
                          THEN hole[old \o SubSeq(p, Len(new) + 1, Len(p))] ELSE hole[p]]

\* f_rename: the new entry, the dot-dot entry, then the old entry goes.  Nothing in the code stops a
\* directory from being moved below itself; callers do not ask for it
f_rename(old, new) ==
    /\ Ready({old, new}) /\ NotOpen(old) /\ NotOpen(new) /\ ~Under(old, new) /\ InScope(old, new)
    /\ \E r \in {follow_path(old)}, n \in {follow_path(new)} :
        \/ r.res # "OK" /\ Unaltered(r.trail)
        \/ r.res = "OK" /\ n.res # "NO_FILE" /\ Unaltered(r.trail \o n.trail)
        \/ /\ r.res = "OK" /\ n.res = "NO_FILE"
           /\ \E g \in {dir_register(n.sc, [r.e EXCEPT !.nm = n.nm], {})} :
                \/ ~g.ok /\ Unaltered(r.trail \o n.trail \o g.plan)
                \/ /\ g.ok
                   /\ Start(Plan(r.trail \o n.trail \o g.plan \o Reparent(r, n.sc) \o dir_remove(r) \o sync,
                                 fil, RenamedHoles(old, new)))

\* f_stat: the search for the path is all that it does to the volume
f_stat(path) == Ready({}) /\ Unaltered(follow_path(path).trail)

\* f_getfree: a count that is not known yet is made by reading the whole table
f_getfree ==
    /\ Ready({})
    /\ Unaltered(IF vol.free_clust # Unknown THEN <<>>
               ELSE Sees([i \in 1 .. NFatEnt |-> FatSect(i - 1)])
                        \o <<Scanned(Cardinality({c \in Clusters : FatVal(c) = 0}))>>)

-----------------------------------------------------------------------------

Init ==
    /\ \E t \in Types : vol = chk_mounted(t, f_mkfs(t))
    /\ fil = [f \in Fils |-> Closed]
    /\ call = Idle
    /\ changing = {}
    /\ got = <<>>
    /\ hole = [p \in Paths |-> {}]
    /\ view = [p \in Paths |-> [kind |-> "none", chain |-> <<>>, parent |-> 0, data |-> <<>>]]
    /\ calls = 0
    /\ up = TRUE

Next ==
    \/ \E f \in Fils, p \in Paths, m \in Modes : f_open(f, p, m)
    \/ \E f \in Fils, n \in Counts : f_read(f, n) \/ f_write(f, n)
    \/ \E f \in Fils, n \in Offsets : f_lseek(f, n)
    \/ \E f \in Fils : f_sync(f) \/ f_close(f) \/ f_truncate(f)
    \/ \E p \in Paths : f_unlink(p) \/ f_mkdir(p) \/ f_stat(p)
    \/ f_getfree
    \/ \E p, q \in Paths : f_rename(p, q)
    \/ ReadTurn \/ WriteTurn \/ SeekTurn
    \/ Step \/ Return
    \/ PowerOff \/ PowerOn

Spec == Init /\ [][Next]_vars

Abs == INSTANCE FileStore WITH
    Handles <- Fils,
    Amounts <- Offsets \cup Counts,
    content <- [p \in Paths |-> [kind |-> view[p].kind, data |-> view[p].data]],
    handle <- [f \in Fils |-> IF IsOpen(f) THEN [open |-> TRUE, path |-> fil[f].path, off |-> fil[f].fptr]
                              ELSE Closed],
    dirty <- {p \in Paths : \E f \in Fils : IsOpen(f) /\ fil[f].path = p /\ fil[f].written}

-----------------------------------------------------------------------------
(* Properties.  The first ones are about the moments between calls.        *)

\* The window has a sector whenever it has something to write, file pointers stay inside their files,
\* and the counters inside their ranges.
TypeOK ==
    /\ vol.type \in Types /\ up \in BOOLEAN /\ calls \in 0 .. MaxCalls /\ changing \subseteq Paths
    /\ DOMAIN vol.disk = DOMAIN f_mkfs(vol.type)
    /\ vol.winsect \in DOMAIN vol.disk \cup {NoSect}
    /\ vol.wflag => vol.winsect # NoSect
    /\ vol.free_clust \in {Unknown} \cup 0 .. Cardinality(Clusters)
    /\ \A f \in Fils : IsOpen(f) => fil[f].fptr \in 0 .. fil[f].fsize
    /\ \A p \in Paths : hole[p] \subseteq UNION {0 .. n : n \in Offsets}

Between == up /\ call = Idle
Used == {c \in Clusters : FatVal(c) # 0}

\* Between calls every cluster the table marks used belongs to exactly one chain - the root of FAT32, a
\* directory, a closed file's entry, an open writer's file object - and each chain ends properly: no
\* cluster is lost, shared or freed twice by any sequence of calls (create_chain, remove_chain).
ChainsExact ==
    Between =>
        LET chains == [p \in Paths \cup {<<>>} |-> IF p = <<>> THEN (IF vol.type = "FAT32" THEN ChainOf(2) ELSE <<>>)
                                                   ELSE view[p].chain]
        IN /\ Used = UNION {Range(chains[p]) : p \in DOMAIN chains}
           /\ \A p, q \in DOMAIN chains : p # q => Range(chains[p]) \cap Range(chains[q]) = {}
           /\ \A p \in DOMAIN chains : chains[p] # <<>> => FatVal(Last(chains[p])) = EOC

\* A file always has the clusters its size needs, so neither a read nor a seek inside it can run off the
\* end of its chain and abort the file object.
NoAbort ==
    /\ \A f \in Fils : IsOpen(f) => ~fil[f].err
    /\ Between => \A p \in Paths : Len(view[p].chain) * ClusterBytes >= Len(view[p].data)

\* Any sequence of calls leaves a volume whose window, table and file objects fit together: what the
\* chains of the table hold is what the files and directories need, no more and no less.
VolumeConsistent == TypeOK /\ ChainsExact /\ NoAbort

\* While the volume is mounted, the count of free clusters that create_chain and remove_chain keep is the
\* number of free table entries, whatever order clusters were linked, cut and freed in.
FreeCountExact ==
    Between /\ vol.free_clust # Unknown => vol.free_clust = Cardinality(Clusters \ Used)

\* The dot entry of every directory names its own cluster and the dot-dot entry its parent's, wherever
\* f_rename has moved it.
DotDotRight ==
    Between => \A p \in Paths : view[p].kind = "dir" =>
        SubSeq(EntriesIn(Current(clust2sect(view[p].chain[1], 0))), 1, 2)
            = <<Entry(".", TRUE, view[p].chain[1], 0), Entry("..", TRUE, view[p].parent, 0)>>

\* Every call does what a store of byte sequences would do.  A power failure at any sector write harms
\* only what was unsynced or what the interrupted call was to change: one between calls, or in a read, a
\* sync, a close, f_stat or f_getfree (which flush buffers and FSInfo), harms nothing that was synced.
ImplementsFileStore == Abs!SSpec
=============================================================================
