------------------------------ MODULE ObObject ------------------------------
(***************************************************************************)
(* The object manager (kern/ob): reference counts, handle tables and the   *)
(* names of one directory.                                                 *)
(*                                                                         *)
(* A step is what a thread does between two points at which another thread *)
(* of the one processor can see or change what it uses: an interlocked     *)
(* operation, a section under a directory's or a type's spin lock, or      *)
(* stores to memory that nobody else knows yet.                            *)
(***************************************************************************)
EXTENDS Integers, Sequences, FiniteSets

CONSTANTS
    Threads,
    Processes,     \* processes, each with a handle table
    System,        \* the process whose handles the others inherit
    ProcessOf,     \* the process of each thread
    Objects,       \* memory for objects; memory of a removed one is not used again
    Names,         \* names in the directory
    Permanent,     \* the names whose objects are created OBJ_PERMANENT
    Inheritable,   \* the objects with OBJ_INHERIT
    EX_MAX_HANDLE, \* slots of a handle table
    MaxRefs,       \* bound: threads reference objects up to this RefCount
    Invalid,       \* OB_INVALID_HANDLE
    Garbage,       \* what uninitialised memory holds
    None

ASSUME ObAssumption ==
    /\ System \in Processes
    /\ ProcessOf \in [Threads -> Processes]
    /\ Permanent \subseteq Names
    /\ Inheritable \subseteq Objects
    /\ EX_MAX_HANDLE \in Nat \ {0}
    /\ MaxRefs \in Nat \ {0}
    /\ Objects \cap {Invalid, Garbage, None} = {}
    /\ Invalid # Garbage /\ Invalid # None /\ Garbage # None
    /\ None \notin Processes

VARIABLES
    life,        \* of each object: "none", "allocated", "live" or "freed"
    refCount,    \* RefCount
    handleCount, \* OpenHandleCount
    permanent,   \* the objects with OBJ_PERMANENT
    directory,   \* the entries of the directory, in list order
    link,        \* LinkTargetObject of the objects that are symbolic links
    table,       \* the handle table of each process
    created,     \* the processes whose handle table is complete
    holds,       \* the references that the code of each thread owns (history)
    pc,          \* where each thread is
    object,      \* its local Object
    name,        \* its ObjectAttributes->ObjectName
    target,      \* its TargetObject, if it creates a symbolic link
    child,       \* the process that it creates
    slot,        \* its loop index in a handle table
    bug          \* the ASSERT or KeBugCheck that stopped the machine, or "none"

objectVars == <<life, refCount, handleCount, permanent, link>>
tableVars == <<table, created>>
callVars == <<object, name, target, child, slot>>
vars == <<objectVars, directory, tableVars, holds, pc, callVars, bug>>

Slots == 0 .. EX_MAX_HANDLE - 1

Init ==
    /\ life = [o \in Objects |-> "none"]
    /\ refCount = [o \in Objects |-> 0]
    /\ handleCount = [o \in Objects |-> 0]
    /\ permanent = {}
    /\ directory = <<>>
    /\ link = [o \in Objects |-> None]
    /\ table = [p \in Processes |-> [i \in Slots |-> Invalid]]
    /\ created = {System}
    /\ holds = [t \in Threads |-> [o \in Objects |-> 0]]
    /\ pc = [t \in Threads |-> "run"]
    /\ object = [t \in Threads |-> None]
    /\ name = [t \in Threads |-> None]
    /\ target = [t \in Threads |-> None]
    /\ child = [t \in Threads |-> None]
    /\ slot = [t \in Threads |-> 0]
    /\ bug = "none"

-----------------------------------------------------------------------------
(* Threads.                                                                 *)

\* The thread is at a place, and the machine runs.
At(t, place) == bug = "none" /\ pc[t] = place

\* The thread is in its own code and its process exists.
Runs(t) == At(t, "run") /\ ProcessOf[t] \in created

Goto(t, place) == pc' = [pc EXCEPT ![t] = place]

\* An assertion fails: nothing happens any more.
Stops(assertion) ==
    /\ bug' = assertion
    /\ UNCHANGED <<objectVars, directory, tableVars, holds, pc, callVars>>

\* A step behind an assertion.
Checked(condition, assertion, step) == IF condition THEN step ELSE Stops(assertion)

\* The thread is done with its call and forgets its locals.
Return(t) ==
    /\ Goto(t, "run")
    /\ object' = [object EXCEPT ![t] = None]
    /\ name' = [name EXCEPT ![t] = None]
    /\ target' = [target EXCEPT ![t] = None]
    /\ child' = [child EXCEPT ![t] = None]
    /\ slot' = [slot EXCEPT ![t] = 0]

Gains(t, o) == holds' = [holds EXCEPT ![t][o] = @ + 1]
Loses(t, o) == holds' = [holds EXCEPT ![t][o] = @ - 1]

-----------------------------------------------------------------------------
(* References.                                                              *)

\* What ObReferenceObject asserts: ObIsValidObject, and a count that is not 0.
MayReference(o) == life[o] \in {"allocated", "live"} /\ refCount[o] # 0

\* Mutant: the reference is not counted.
NotIncremented(o) == refCount

Incremented(o) == [refCount EXCEPT ![o] = @ + 1]

\* A thread that owns a reference takes another one, for itself or for a
\* thread it passes the object to.
ObReferenceObject(t, u, o) ==
    /\ Runs(t)
    /\ holds[t][o] > 0
    /\ refCount[o] < MaxRefs
    /\ Checked(MayReference(o), "reference",
          /\ refCount' = Incremented(o)
          /\ Gains(u, o)
          /\ UNCHANGED <<life, handleCount, permanent, link, directory, tableVars, pc, callVars, bug>>)

\* ObCloseObject reads the count again after it has decremented it.
ReachedZero(o) == refCount[o] <= 0

\* A permanent object keeps its count; ObCloseObject asserts that it is named.
KeepPermanent(t, o) ==
    Checked(\E i \in DOMAIN directory : directory[i].object = o, "unnamed",
        /\ Loses(t, o)
        /\ UNCHANGED <<objectVars, directory, tableVars, pc, callVars, bug>>)

Decrement(t, o) ==
    /\ refCount' = [refCount EXCEPT ![o] = @ - 1]
    /\ Loses(t, o)
    /\ Goto(t, "CheckCount")
    /\ object' = [object EXCEPT ![t] = o]
    /\ UNCHANGED <<life, handleCount, permanent, link, directory, tableVars,
                   name, target, child, slot, bug>>

\* ObDereferenceObject and ObCloseObject up to the interlocked decrement.
ObDereferenceObject(t, o) ==
    /\ Runs(t)
    /\ holds[t][o] > 0
    /\ Checked(life[o] # "freed" /\ refCount[o] >= 1, "count",
          \/ o \in permanent /\ KeepPermanent(t, o)
          \/ o \notin permanent /\ Decrement(t, o))

CheckCount(t) ==
    /\ At(t, "CheckCount")
    /\ \/ /\ ReachedZero(object[t])
          /\ Goto(t, "ObRemoveObject")
          /\ UNCHANGED callVars
       \/ /\ ~ReachedZero(object[t])
          /\ Return(t)
    /\ UNCHANGED <<objectVars, directory, tableVars, holds, bug>>

\* The object's memory is freed; an entry of the directory stays.  What a
\* second removal does to the lists is not modelled.
ObRemoveObject(t) ==
    LET o == object[t] IN
    /\ At(t, "ObRemoveObject")
    /\ \/ life[o] = "freed" /\ Stops("twice")
       \/ /\ life[o] # "freed"
          /\ Checked(refCount[o] = 0 /\ handleCount[o] = 0, "count",
                /\ life' = [life EXCEPT ![o] = "freed"]
                /\ Return(t)
                /\ UNCHANGED <<refCount, handleCount, permanent, link, directory, tableVars,
                               holds, bug>>)

-----------------------------------------------------------------------------
(* Names.                                                                   *)

\* The entries that ObpLookupEntryDirectory compares equal; it takes the first.
Matches(n) == {i \in DOMAIN directory : directory[i].name = n}
Lookup(n) == directory[CHOOSE i \in Matches(n) : \A j \in Matches(n) : i <= j].object

\* The lookup asserts that what it found is an object.
FindsRemoved(n) == Matches(n) # {} /\ life[Lookup(n)] = "freed"
FindsObject(n) == Matches(n) # {} /\ life[Lookup(n)] # "freed"

\* ObCreateObject without a name: the object is nobody else's until it returns.
CreateUnnamed(t, o) ==
    /\ Runs(t)
    /\ life[o] = "none"
    /\ life' = [life EXCEPT ![o] = "live"]
    /\ refCount' = [refCount EXCEPT ![o] = 1]
    /\ Gains(t, o)
    /\ UNCHANGED <<handleCount, permanent, link, directory, tableVars, pc, callVars, bug>>

\* The first lookup, and the allocation if the name is not found; lnk is the
\* target if the object is a symbolic link.  A collision or an allocation that
\* fails returns and changes nothing.
LookupName(t, o, n, lnk) ==
    /\ life[o] = "none"
    /\ \/ /\ FindsRemoved(n)
          /\ Stops("removed")
       \/ /\ Matches(n) = {}
          /\ life' = [life EXCEPT ![o] = "allocated"]
          /\ Goto(t, "LookupAgain")
          /\ object' = [object EXCEPT ![t] = o]
          /\ name' = [name EXCEPT ![t] = n]
          /\ target' = [target EXCEPT ![t] = lnk]
          /\ UNCHANGED <<refCount, handleCount, permanent, link, directory, tableVars, holds,
                         child, slot, bug>>

ObCreateObject(t, o, n) == Runs(t) /\ LookupName(t, o, n, None)

\* ObCreateSymbolicLink looks its target up, takes no reference, and creates
\* the link.
LookupTarget(t, n) ==
    /\ Runs(t)
    /\ \/ FindsRemoved(n) /\ Stops("removed")
       \/ Matches(n) = {} /\ Stops("target")
       \/ /\ FindsObject(n)
          /\ Goto(t, "CreateLink")
          /\ target' = [target EXCEPT ![t] = Lookup(n)]
          /\ UNCHANGED <<objectVars, directory, tableVars, holds, object, name, child, slot, bug>>

CreateLink(t, o, n) == At(t, "CreateLink") /\ LookupName(t, o, n, target[t])

\* The name of the link is taken, or there is no memory.
CreateLinkFails(t) ==
    /\ At(t, "CreateLink")
    /\ Return(t)
    /\ UNCHANGED <<objectVars, directory, tableVars, holds, bug>>

\* The second lookup, which is to insert the object.  If the name is there by
\* now it succeeds, inserts nothing, and ObCreateObject goes on; if it fails,
\* the object is freed with the wrong tag, which stops the machine.
LookupAgain(t) ==
    /\ At(t, "LookupAgain")
    /\ \/ FindsRemoved(name[t]) /\ Stops("removed")
       \/ Stops("tag")
       \/ /\ ~FindsRemoved(name[t])
          /\ Goto(t, IF Matches(name[t]) = {} THEN "InsertEntry" ELSE "Initialise")
          /\ UNCHANGED <<objectVars, directory, tableVars, holds, callVars, bug>>

ObpInsertEntryDirectory(t) ==
    /\ At(t, "InsertEntry")
    /\ directory' = Append(directory, [name |-> name[t], object |-> object[t]])
    /\ Goto(t, "Initialise")
    /\ UNCHANGED <<objectVars, tableVars, holds, callVars, bug>>

\* The fields of the header, after the object can be found by its name.
Initialise(t) ==
    LET o == object[t] IN
    /\ At(t, "Initialise")
    /\ life' = [life EXCEPT ![o] = "live"]
    /\ refCount' = [refCount EXCEPT ![o] = 1]
    /\ handleCount' = [handleCount EXCEPT ![o] = 0]
    /\ permanent' = IF name[t] \in Permanent /\ target[t] = None
                    THEN permanent \cup {o} ELSE permanent
    /\ Gains(t, o)
    /\ \/ target[t] = None /\ Return(t)
       \/ target[t] # None /\ Goto(t, "ReferenceTarget") /\ UNCHANGED callVars
    /\ UNCHANGED <<link, directory, tableVars, bug>>

\* ObpCreateSymbolicLinkObject references the target it was given.
ReferenceTarget(t) ==
    LET o == target[t] IN
    /\ At(t, "ReferenceTarget")
    /\ Checked(MayReference(o), "reference",
          /\ refCount' = Incremented(o)
          /\ link' = [link EXCEPT ![object[t]] = o]
          /\ Return(t)
          /\ UNCHANGED <<life, handleCount, permanent, directory, tableVars, holds, bug>>)

-----------------------------------------------------------------------------
(* Handles.                                                                 *)

\* ObInsertObject: the reference of the caller becomes the handle's.
ObInsertObject(t, o) ==
    /\ Runs(t)
    /\ holds[t][o] > 0
    /\ Goto(t, "InsertHandle")
    /\ object' = [object EXCEPT ![t] = o]
    /\ slot' = [slot EXCEPT ![t] = 0]
    /\ UNCHANGED <<objectVars, directory, tableVars, holds, name, target, child, bug>>

\* Mutant: the slot is stored whatever it holds.
AnySlot(entry) == TRUE

\* The comparand of InterlockedCompareExchangePointer.
FreeSlot(entry) == entry = Invalid

\* One turn of ObInsertHandle's loop; past the last slot it fails and the
\* caller keeps its reference.
ObInsertHandle(t) ==
    LET p == ProcessOf[t] IN
    /\ At(t, "InsertHandle")
    /\ \/ /\ slot[t] \in Slots /\ FreeSlot(table[p][slot[t]])
          /\ table' = [table EXCEPT ![p][slot[t]] = object[t]]
          /\ Loses(t, object[t])
          /\ Goto(t, "IncrementHandleCount")
          /\ UNCHANGED callVars
       \/ /\ slot[t] \in Slots /\ ~FreeSlot(table[p][slot[t]])
          /\ slot' = [slot EXCEPT ![t] = @ + 1]
          /\ UNCHANGED <<table, holds, pc, object, name, target, child>>
       \/ /\ slot[t] \notin Slots
          /\ Return(t)
          /\ UNCHANGED <<table, holds>>
    /\ UNCHANGED <<objectVars, directory, created, bug>>

ObIncrementHandleCount(t) ==
    LET o == object[t] IN
    /\ At(t, "IncrementHandleCount")
    /\ Checked(refCount[o] > 0, "count",
          /\ handleCount' = [handleCount EXCEPT ![o] = @ + 1]
          /\ Return(t)
          /\ UNCHANGED <<life, refCount, permanent, link, directory, tableVars, holds, bug>>)

\* ObLookupObjectByHandle.  Callers pass handles that their process was given.
ObReferenceObjectByHandle(t, i) ==
    /\ Runs(t)
    /\ table[ProcessOf[t]][i] \in Objects
    /\ refCount[table[ProcessOf[t]][i]] < MaxRefs
    /\ Goto(t, "ByPointer")
    /\ object' = [object EXCEPT ![t] = table[ProcessOf[t]][i]]
    /\ UNCHANGED <<objectVars, directory, tableVars, holds, name, target, child, slot, bug>>

ObReferenceObjectByPointer(t) ==
    LET o == object[t] IN
    /\ At(t, "ByPointer")
    /\ Checked(MayReference(o), "reference",
          /\ refCount' = Incremented(o)
          /\ Gains(t, o)
          /\ Return(t)
          /\ UNCHANGED <<life, handleCount, permanent, link, directory, tableVars, bug>>)

\* ObClose gives no type, and ObReferenceObjectByPointer asserts that the
\* object's type is the one given: no handle can be closed.
ObClose(t, i) ==
    /\ Runs(t)
    /\ table[ProcessOf[t]][i] \in Objects
    /\ Stops("type")

-----------------------------------------------------------------------------
(* ObAllocateHandleTable for a new process, which inherits all handles if it *)
(* is a clone and the inheritable ones if it is not.                         *)

ObAllocateHandleTable(t, c, loop) ==
    /\ Runs(t)
    /\ ProcessOf[t] = System
    /\ c \notin created /\ \A u \in Threads : child[u] # c
    /\ child' = [child EXCEPT ![t] = c]
    /\ Goto(t, loop)
    /\ slot' = [slot EXCEPT ![t] = 0]
    /\ UNCHANGED <<objectVars, directory, tableVars, holds, object, name, target, bug>>

Inherits(t, o) == pc[t] = "CloneTable" \/ o \in Inheritable

\* Mutant: the object is not referenced for the handle in the new table.
NotReferenced(o) == refCount

\* The count after the reference for the inherited handle.
Inherited(o) == Incremented(o)

\* One turn of the loop: the new table gets entry e, the count of the object
\* becomes count.
CopySlot(t, e, count) ==
    /\ table' = [table EXCEPT ![child[t]][slot[t]] = e]
    /\ refCount' = count
    /\ slot' = [slot EXCEPT ![t] = @ + 1]
    /\ UNCHANGED <<life, handleCount, permanent, link, directory, created, holds, pc,
                   object, name, target, child, bug>>

\* A slot that is empty in the old table is skipped: in the new one it keeps
\* what the page held.
InheritHandle(t) ==
    LET o == table[System][slot[t]] IN
    /\ bug = "none" /\ pc[t] \in {"CloneTable", "InheritTable"}
    /\ slot[t] \in Slots
    /\ \/ /\ o \in Objects /\ Inherits(t, o)
          /\ Checked(MayReference(o), "reference", CopySlot(t, o, Inherited(o)))
       \/ /\ o \in Objects /\ ~Inherits(t, o)
          /\ CopySlot(t, Invalid, refCount)
       \/ /\ o \notin Objects
          /\ \E e \in {Invalid, Garbage} : CopySlot(t, e, refCount)

TableComplete(t) ==
    /\ bug = "none" /\ pc[t] \in {"CloneTable", "InheritTable"}
    /\ slot[t] \notin Slots
    /\ created' = created \cup {child[t]}
    /\ Return(t)
    /\ UNCHANGED <<objectVars, directory, table, holds, bug>>

-----------------------------------------------------------------------------

Next ==
    \E t \in Threads :
        \/ \E u \in Threads, o \in Objects : ObReferenceObject(t, u, o)
        \/ \E o \in Objects :
              ObDereferenceObject(t, o) \/ CreateUnnamed(t, o) \/ ObInsertObject(t, o)
        \/ CheckCount(t) \/ ObRemoveObject(t) \/ CreateLinkFails(t)
        \/ \E n \in Names : LookupTarget(t, n)
        \/ \E o \in Objects, n \in Names : ObCreateObject(t, o, n) \/ CreateLink(t, o, n)
        \/ LookupAgain(t) \/ ObpInsertEntryDirectory(t) \/ Initialise(t) \/ ReferenceTarget(t)
        \/ ObInsertHandle(t) \/ ObIncrementHandleCount(t)
        \/ \E i \in Slots : ObReferenceObjectByHandle(t, i) \/ ObClose(t, i)
        \/ ObReferenceObjectByPointer(t)
        \/ \E c \in Processes, loop \in {"CloneTable", "InheritTable"} :
              ObAllocateHandleTable(t, c, loop)
        \/ InheritHandle(t) \/ TableComplete(t)

Spec == Init /\ [][Next]_vars

-----------------------------------------------------------------------------
(* What the object manager promises.                                        *)

Places == {"run", "CheckCount", "ObRemoveObject", "CreateLink", "LookupAgain", "InsertEntry",
           "Initialise", "ReferenceTarget", "InsertHandle", "IncrementHandleCount", "ByPointer",
           "CloneTable", "InheritTable"}

\* Every variable keeps its type; a thread's loop index stays in the table or
\* one past it.
TypeOK ==
    /\ life \in [Objects -> {"none", "allocated", "live", "freed"}]
    /\ refCount \in [Objects -> Nat]
    /\ handleCount \in [Objects -> Nat]
    /\ permanent \subseteq Objects
    /\ directory \in Seq([name : Names, object : Objects])
    /\ link \in [Objects -> Objects \cup {None}]
    /\ table \in [Processes -> [Slots -> Objects \cup {Invalid, Garbage}]]
    /\ created \subseteq Processes
    /\ holds \in [Threads -> [Objects -> Nat]]
    /\ pc \in [Threads -> Places]
    /\ object \in [Threads -> Objects \cup {None}]
    /\ name \in [Threads -> Names \cup {None}]
    /\ target \in [Threads -> Objects \cup {None}]
    /\ child \in [Threads -> Processes \cup {None}]
    /\ slot \in [Threads -> 0 .. EX_MAX_HANDLE]
    /\ bug \in {"none", "reference", "count", "unnamed", "twice", "removed", "target", "tag", "type"}

\* The references to an object that someone owns: the code of a thread (which
\* numbers its own), a handle, a symbolic link.
Held(o) == UNION {{t} \X (1 .. holds[t][o]) : t \in Threads}
Handles(o) == {e \in Processes \X Slots : table[e[1]][e[2]] = o}
Links(o) == {l \in Objects : link[l] = o}
References(o) == Cardinality(Held(o)) + Cardinality(Handles(o)) + Cardinality(Links(o))

\* RefCount counts the references, through every creation, insertion of a
\* handle, lookup, inheritance and close; a permanent object's is not counted
\* down and may be larger.
RefCountExact ==
    \A o \in Objects : life[o] = "live" =>
        IF o \in permanent THEN refCount[o] >= References(o) ELSE refCount[o] = References(o)

\* An object is removed only when nobody has a reference to it, and an object
\* that was created permanent is not removed.
RemovedUnreferenced ==
    \A o \in Objects : life[o] = "freed" => References(o) = 0 /\ o \notin permanent

\* The ASSERTs on RefCount and OpenHandleCount in ObCloseObject, ObRemoveObject
\* and ObIncrementHandleCount hold if callers release only what they own.
CountAssertsHold == bug # "count"

\* The counts of an object are what creation, lookups, handles, inheritance and
\* links left in it, with every thread between any two of its steps, and no
\* ASSERT about them fails.
CountsExact == TypeOK /\ RefCountExact /\ CountAssertsHold

\* A handle names the same object for as long as the process lives: two threads
\* that insert handles at once never get the same slot.
HandlesStable ==
    [][\A p \in created, i \in Slots :
        table[p][i] \in Objects => table'[p][i] = table[p][i]]_vars
=============================================================================
