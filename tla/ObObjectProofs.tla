------------------------------ MODULE ObObjectProofs ------------------------------
(***************************************************************************)
(* The object manager for every set of threads, processes, objects and     *)
(* names and every size of the handle tables: the reference counts are the *)
(* numbers of references, nothing is removed while it is referenced, and   *)
(* handles are stable.                                                     *)
(***************************************************************************)
EXTENDS ObObject, FiniteSetTheorems, TLAPS

-----------------------------------------------------------------------------
(* The inductive invariant.                                                 *)

\* The counts of an object.  Until it is initialised, and after it is removed, it has none.
ObjectFits(o) ==
    /\ life[o] # "live" => refCount[o] = 0 /\ o \notin permanent
    /\ life[o] \in {"none", "allocated"} => handleCount[o] = 0 /\ link[o] = None
    /\ handleCount[o] # 0 => Handles(o) # {}
    /\ IsFiniteSet(Held(o)) /\ IsFiniteSet(Handles(o)) /\ IsFiniteSet(Links(o))
    /\ IF o \in permanent THEN refCount[o] >= References(o) ELSE refCount[o] = References(o)

\* A thread that creates a named object has it to itself.
Creating == {"LookupAgain", "InsertEntry", "Initialise", "ReferenceTarget"}
Loops == {"CloneTable", "InheritTable"}
Objecting == Creating \cup {"CheckCount", "ObRemoveObject", "InsertHandle", "IncrementHandleCount",
                            "ByPointer"}

ThreadFits(t) ==
    /\ pc[t] # "run" => ProcessOf[t] \in created
    /\ pc[t] \in Objecting => object[t] \in Objects
    /\ pc[t] \in {"CheckCount", "ObRemoveObject"} =>
          object[t] \notin permanent /\ life[object[t]] \in {"live", "freed"}
    /\ pc[t] = "ObRemoveObject" => refCount[object[t]] = 0
    /\ pc[t] \in Creating =>
          /\ link[object[t]] = None /\ life[object[t]] # "none" /\ name[t] \in Names
          /\ \A u \in Threads \ {t} : pc[u] \in Creating => object[u] # object[t]
    /\ pc[t] \in {"LookupAgain", "InsertEntry", "Initialise"} => life[object[t]] = "allocated"
    /\ pc[t] = "ReferenceTarget" => target[t] \in Objects /\ life[object[t]] \in {"live", "freed"}
    /\ pc[t] = "InsertHandle" => holds[t][object[t]] > 0
    /\ pc[t] = "IncrementHandleCount" => Handles(object[t]) # {}

\* A new handle table: what the loop has not reached is empty, and one thread fills it.
TableFits(t) ==
    /\ pc[t] \in Loops <=> child[t] # None
    /\ child[t] # None =>
          /\ child[t] \notin created
          /\ \A u \in Threads \ {t} : child[u] # child[t]
          /\ \A i \in Slots : i >= slot[t] => table[child[t]][i] = Invalid

\* The table of a process that nobody has begun to create.
Untouched(p) ==
    p \notin created /\ (\A t \in Threads : child[t] # p) => \A i \in Slots : table[p][i] = Invalid

CountInv ==
    /\ TypeOK
    /\ System \in created
    /\ bug # "count"
    /\ \A o \in Objects : ObjectFits(o)
    /\ \A t \in Threads : ThreadFits(t) /\ TableFits(t)
    /\ \A p \in Processes : Untouched(p)

-----------------------------------------------------------------------------
(* References.                                                              *)

LEMMA CountTypes ==
    ASSUME CountInv, NEW o \in Objects
    PROVE  /\ Cardinality(Held(o)) \in Nat /\ Cardinality(Handles(o)) \in Nat
           /\ Cardinality(Links(o)) \in Nat /\ References(o) \in Nat /\ refCount[o] \in Nat
BY FS_CardinalityType DEF CountInv, ObjectFits, References, TypeOK

\* What is referenced is live and has a count.
LEMMA ReferencedIsLive ==
    ASSUME CountInv, NEW o \in Objects, Held(o) # {} \/ Handles(o) # {} \/ Links(o) # {}
    PROVE  life[o] = "live" /\ refCount[o] >= 1
<1>1. IsFiniteSet(Held(o)) /\ IsFiniteSet(Handles(o)) /\ IsFiniteSet(Links(o))
  BY DEF CountInv, ObjectFits
<1>2. \/ Cardinality(Held(o)) # 0 \/ Cardinality(Handles(o)) # 0 \/ Cardinality(Links(o)) # 0
  BY <1>1, FS_EmptySet
<1>3. References(o) >= 1
  BY <1>2, CountTypes DEF References
<1>4. refCount[o] >= References(o)
  BY CountTypes DEF CountInv, ObjectFits
<1>5. refCount[o] >= 1
  BY <1>3, <1>4, CountTypes
<1>6. refCount[o] # 0
  BY <1>5, CountTypes
<1>. QED
  BY <1>5, <1>6 DEF CountInv, ObjectFits

\* What is not live is not referenced.
LEMMA UnreferencedIsEmpty ==
    ASSUME CountInv, NEW o \in Objects, life[o] # "live"
    PROVE  /\ refCount[o] = 0 /\ o \notin permanent /\ References(o) = 0
           /\ Held(o) = {} /\ Handles(o) = {} /\ Links(o) = {}
BY ReferencedIsLive DEF CountInv, ObjectFits

\* A thread's references are numbered from 1.
LEMMA HolderReferences ==
    ASSUME CountInv, NEW t \in Threads, NEW o \in Objects, holds[t][o] > 0
    PROVE  life[o] = "live" /\ refCount[o] >= 1
<1>1. holds[t][o] \in Nat
  BY DEF CountInv, TypeOK
<1>2. 1 \in 1 .. holds[t][o]
  BY <1>1
<1>3. <<t, 1>> \in Held(o)
  BY <1>2 DEF Held
<1>. QED
  BY <1>3, ReferencedIsLive

LEMMA InHeld ==
    ASSUME NEW o, NEW x
    PROVE  x \in Held(o) <=> \E t \in Threads : \E k \in 1 .. holds[t][o] : x = <<t, k>>
BY DEF Held

\* A thread gains a reference.
LEMMA HeldGain ==
    ASSUME holds \in [Threads -> [Objects -> Nat]], NEW t \in Threads, NEW o \in Objects,
           Gains(t, o), IsFiniteSet(Held(o))
    PROVE  /\ IsFiniteSet(Held(o)') /\ Cardinality(Held(o)') = Cardinality(Held(o)) + 1
           /\ \A p \in Objects \ {o} : Held(p)' = Held(p)
           /\ holds' \in [Threads -> [Objects -> Nat]]
           /\ \A u \in Threads, p \in Objects : holds'[u][p] >= holds[u][p]
           /\ holds'[t][o] > 0
<1>1. PICK n : n = holds[t][o] + 1
  OBVIOUS
<1>2. n \in Nat \ {0} /\ holds[t][o] = n - 1 /\ holds'[t][o] = n
  <2>1. holds[t][o] \in Nat /\ holds'[t][o] = holds[t][o] + 1
    BY DEF Gains
  <2>. QED
    BY <1>1, <2>1
<1>3. holds' \in [Threads -> [Objects -> Nat]]
  BY DEF Gains
<1>4. \A u \in Threads, p \in Objects : u # t \/ p # o => holds'[u][p] = holds[u][p]
  BY DEF Gains
<1>5. \A p \in Objects \ {o} : Held(p)' = Held(p)
  BY <1>4 DEF Held
<1>6. Held(o)' = Held(o) \cup {<<t, n>>}
  <2>1. 1 .. n = (1 .. n - 1) \cup {n}
    BY <1>2
  <2>2. ASSUME NEW x
        PROVE  x \in Held(o)' <=> x \in Held(o) \/ x = <<t, n>>
    <3>1. x \in Held(o)' <=> \E u \in Threads : \E k \in 1 .. holds'[u][o] : x = <<u, k>>
      BY DEF Held
    <3>2. \A u \in Threads \ {t} : 1 .. holds'[u][o] = 1 .. holds[u][o]
      BY <1>4
    <3>3. 1 .. holds'[t][o] = (1 .. holds[t][o]) \cup {n}
      BY <1>2, <2>1
    <3>4. ASSUME NEW u \in Threads, NEW k, x = <<u, k>>
          PROVE  k \in 1 .. holds'[u][o] <=> k \in 1 .. holds[u][o] \/ x = <<t, n>>
      <4>1. CASE u = t
        BY <4>1, <3>3, <3>4
      <4>2. CASE u # t
        BY <4>2, <3>2, <3>4
      <4>. QED
        BY <4>1, <4>2
    <3>5. x \in Held(o) <=> \E u \in Threads : \E k \in 1 .. holds[u][o] : x = <<u, k>>
      BY InHeld
    <3>6. CASE \E u \in Threads : \E k : x = <<u, k>>
      <4>0. PICK u \in Threads : \E k : x = <<u, k>>
        BY <3>6
      <4>1. PICK k : x = <<u, k>>
        BY <4>0
      <4>2. x \in Held(o) <=> k \in 1 .. holds[u][o]
        BY <4>1, <3>5
      <4>3. x \in Held(o)' <=> k \in 1 .. holds'[u][o]
        BY <4>1, <3>1
      <4>. QED
        BY <4>1, <4>2, <4>3, <3>4
    <3>. QED
      BY <3>1, <3>5, <3>6
  <2>. QED
    BY <2>2
<1>7. <<t, n>> \notin Held(o)
  <2>1. n \notin 1 .. holds[t][o]
    BY <1>2
  <2>. QED
    BY <2>1, InHeld
<1>8. IsFiniteSet(Held(o)') /\ Cardinality(Held(o)') = Cardinality(Held(o)) + 1
  BY <1>6, <1>7, FS_AddElement
<1>9. \A u \in Threads, p \in Objects : holds'[u][p] >= holds[u][p]
  BY DEF Gains
<1>. QED
  BY <1>2, <1>3, <1>5, <1>8, <1>9

\* A thread gives a reference up.
LEMMA HeldLoss ==
    ASSUME holds \in [Threads -> [Objects -> Nat]], NEW t \in Threads, NEW o \in Objects,
           Loses(t, o), holds[t][o] > 0, IsFiniteSet(Held(o))
    PROVE  /\ IsFiniteSet(Held(o)') /\ Cardinality(Held(o)') = Cardinality(Held(o)) - 1
           /\ \A p \in Objects \ {o} : Held(p)' = Held(p)
           /\ holds' \in [Threads -> [Objects -> Nat]]
           /\ \A u \in Threads \ {t}, p \in Objects : holds'[u][p] = holds[u][p]
<1>1. PICK n : n = holds[t][o]
  OBVIOUS
<1>2. n \in Nat \ {0} /\ holds'[t][o] = n - 1
  BY <1>1 DEF Loses
<1>3. holds' \in [Threads -> [Objects -> Nat]]
  <2>1. n - 1 \in Nat
    BY <1>2
  <2>. QED
    BY <2>1, <1>1 DEF Loses
<1>4. \A u \in Threads, p \in Objects : u # t \/ p # o => holds'[u][p] = holds[u][p]
  BY DEF Loses
<1>5. \A p \in Objects \ {o} : Held(p)' = Held(p)
  BY <1>4 DEF Held
<1>6. Held(o)' = Held(o) \ {<<t, n>>}
  <2>1. 1 .. n - 1 = (1 .. n) \ {n}
    BY <1>2
  <2>2. ASSUME NEW x
        PROVE  x \in Held(o)' <=> x \in Held(o) /\ x # <<t, n>>
    <3>1. x \in Held(o)' <=> \E u \in Threads : \E k \in 1 .. holds'[u][o] : x = <<u, k>>
      BY DEF Held
    <3>2. \A u \in Threads \ {t} : 1 .. holds'[u][o] = 1 .. holds[u][o]
      BY <1>4
    <3>3. 1 .. holds'[t][o] = (1 .. holds[t][o]) \ {n}
      BY <1>1, <1>2, <2>1
    <3>4. ASSUME NEW u \in Threads, NEW k, x = <<u, k>>
          PROVE  k \in 1 .. holds'[u][o] <=> k \in 1 .. holds[u][o] /\ x # <<t, n>>
      <4>1. CASE u = t
        BY <4>1, <3>3, <3>4
      <4>2. CASE u # t
        BY <4>2, <3>2, <3>4
      <4>. QED
        BY <4>1, <4>2
    <3>5. x \in Held(o) <=> \E u \in Threads : \E k \in 1 .. holds[u][o] : x = <<u, k>>
      BY InHeld
    <3>6. CASE \E u \in Threads : \E k : x = <<u, k>>
      <4>0. PICK u \in Threads : \E k : x = <<u, k>>
        BY <3>6
      <4>1. PICK k : x = <<u, k>>
        BY <4>0
      <4>2. x \in Held(o) <=> k \in 1 .. holds[u][o]
        BY <4>1, <3>5
      <4>3. x \in Held(o)' <=> k \in 1 .. holds'[u][o]
        BY <4>1, <3>1
      <4>. QED
        BY <4>1, <4>2, <4>3, <3>4
    <3>. QED
      BY <3>1, <3>5, <3>6
  <2>. QED
    BY <2>2
<1>7. <<t, n>> \in Held(o)
  <2>1. n \in 1 .. holds[t][o]
    BY <1>1, <1>2
  <2>. QED
    BY <2>1, InHeld
<1>8. IsFiniteSet(Held(o)') /\ Cardinality(Held(o)') = Cardinality(Held(o)) - 1
  BY <1>6, <1>7, FS_RemoveElement
<1>. QED
  BY <1>3, <1>4, <1>5, <1>8

Stored(p, i, e) == table' = [table EXCEPT ![p][i] = e]

\* A handle is stored where there was none.
LEMMA HandleGain ==
    ASSUME table \in [Processes -> [Slots -> Objects \cup {Invalid, Garbage}]],
           NEW p \in Processes, NEW i \in Slots, NEW e \in Objects \cup {Invalid, Garbage},
           table[p][i] \notin Objects, Stored(p, i, e)
    PROVE  /\ table' \in [Processes -> [Slots -> Objects \cup {Invalid, Garbage}]]
           /\ \A o \in Objects \ {e} : Handles(o)' = Handles(o)
           /\ e \in Objects /\ IsFiniteSet(Handles(e)) =>
                 /\ IsFiniteSet(Handles(e)')
                 /\ Cardinality(Handles(e)') = Cardinality(Handles(e)) + 1
                 /\ Handles(e)' # {}
           /\ \A q \in Processes, j \in Slots : q # p \/ j # i => table'[q][j] = table[q][j]
<1>1. \A q \in Processes, j \in Slots : q # p \/ j # i => table'[q][j] = table[q][j]
  BY DEF Stored
<1>2. table'[p][i] = e
  BY DEF Stored
<1>3. ASSUME NEW o \in Objects \ {e} PROVE Handles(o)' = Handles(o)
  <2>1. ASSUME NEW q \in Processes, NEW j \in Slots
        PROVE  table'[q][j] = o <=> table[q][j] = o
    BY <1>1, <1>2
  <2>. QED
    BY <2>1 DEF Handles
<1>4. ASSUME e \in Objects, IsFiniteSet(Handles(e))
      PROVE  /\ IsFiniteSet(Handles(e)')
             /\ Cardinality(Handles(e)') = Cardinality(Handles(e)) + 1
             /\ Handles(e)' # {}
  <2>1. ASSUME NEW q \in Processes, NEW j \in Slots
        PROVE  table'[q][j] = e <=> table[q][j] = e \/ <<q, j>> = <<p, i>>
    BY <1>1, <1>2
  <2>2. Handles(e)' = Handles(e) \cup {<<p, i>>}
    BY <2>1 DEF Handles
  <2>3. <<p, i>> \notin Handles(e)
    BY <1>4 DEF Handles
  <2>. QED
    BY <2>2, <2>3, <1>4, FS_AddElement
<1>5. table' \in [Processes -> [Slots -> Objects \cup {Invalid, Garbage}]]
  BY DEF Stored
<1>. QED
  BY <1>1, <1>3, <1>4, <1>5

\* A symbolic link gets its target.
LEMMA LinkGain ==
    ASSUME link \in [Objects -> Objects \cup {None}], NEW l \in Objects, NEW o \in Objects,
           link[l] = None, link' = [link EXCEPT ![l] = o], IsFiniteSet(Links(o))
    PROVE  /\ IsFiniteSet(Links(o)') /\ Cardinality(Links(o)') = Cardinality(Links(o)) + 1
           /\ \A p \in Objects \ {o} : Links(p)' = Links(p)
<1>1. None \notin Objects
  BY ObAssumption
<1>2. Links(o)' = Links(o) \cup {l} /\ l \notin Links(o)
  BY <1>1 DEF Links
<1>3. \A p \in Objects \ {o} : Links(p)' = Links(p)
  BY <1>1 DEF Links
<1>. QED
  BY <1>2, <1>3, FS_AddElement

-----------------------------------------------------------------------------
(* What one thread's step may do to the others.                             *)

\* The step of thread t changes no local of another thread.
Elsewhere(t) ==
    \A u \in Threads \ {t} :
        /\ pc'[u] = pc[u] /\ object'[u] = object[u] /\ name'[u] = name[u]
        /\ target'[u] = target[u] /\ child'[u] = child[u] /\ slot'[u] = slot[u]
        /\ \A o \in Objects : holds'[u][o] >= holds[u][o]

\* It stores only where there is no handle, in a table that is complete or the
\* one it fills; it completes only that one, and fills only one that is new.
TableStep(t) ==
    /\ created \subseteq created' /\ created' \subseteq created \cup {child[t]}
    /\ \A p \in Processes, i \in Slots : table'[p][i] # table[p][i] =>
          table[p][i] \notin Objects /\ (p \in created \/ p = child[t])
    /\ \/ child'[t] = child[t]
       \/ child[t] \in created' /\ child'[t] = None
       \/ child[t] = None /\ child'[t] \notin created /\ \A u \in Threads : child[u] # child'[t]

\* An object only goes forward, and changes outside a count only by the thread
\* that creates it.
ObjectStep(t) ==
    /\ \A o \in Objects :
          /\ life[o] \in {"live", "freed"} =>
                /\ life'[o] \in {"live", "freed"}
                /\ o \in permanent' => o \in permanent
                /\ refCount[o] = 0 => refCount'[o] = 0
          /\ life[o] = "allocated" =>
                life'[o] = "allocated" \/ (pc[t] = "Initialise" /\ o = object[t])
          /\ link'[o] = link[o] \/ (pc[t] = "ReferenceTarget" /\ o = object[t])
    /\ pc'[t] \in Creating =>
          \/ pc[t] \in Creating /\ object'[t] = object[t]
          \/ life[object'[t]] = "none"

LocalStep(t) == Elsewhere(t) /\ TableStep(t) /\ ObjectStep(t)

\* Handles are not overwritten.
LEMMA HandlesGrow ==
    ASSUME NEW t, TableStep(t), NEW o \in Objects
    PROVE  Handles(o) \subseteq Handles(o)'
<1>1. ASSUME NEW p \in Processes, NEW i \in Slots, table[p][i] = o
      PROVE  table'[p][i] = o
  BY <1>1 DEF TableStep
<1>. QED
  BY <1>1 DEF Handles

LEMMA OtherThreads ==
    ASSUME CountInv, TypeOK', NEW t \in Threads, LocalStep(t), NEW u \in Threads \ {t}
    PROVE  ThreadFits(u)'
<1>1. ThreadFits(u) /\ ThreadFits(t)
  BY DEF CountInv
<1>2. /\ pc'[u] = pc[u] /\ object'[u] = object[u] /\ name'[u] = name[u] /\ target'[u] = target[u]
      /\ \A o \in Objects : holds'[u][o] >= holds[u][o]
  BY DEF LocalStep, Elsewhere
<1>3. created \subseteq created'
  BY DEF LocalStep, TableStep
<1>4. CASE pc[u] \notin Objecting
  BY <1>1, <1>2, <1>3, <1>4 DEF ThreadFits, Objecting, Creating
<1>5. CASE pc[u] \in Objecting
  <2>1. PICK o \in Objects : o = object[u]
    BY <1>1, <1>5 DEF ThreadFits
  <2>2. /\ life[o] \in {"live", "freed"} =>
              /\ life'[o] \in {"live", "freed"}
              /\ o \in permanent' => o \in permanent
              /\ refCount[o] = 0 => refCount'[o] = 0
        /\ life[o] = "allocated" =>
              life'[o] = "allocated" \/ (pc[t] = "Initialise" /\ o = object[t])
        /\ link'[o] = link[o] \/ (pc[t] = "ReferenceTarget" /\ o = object[t])
    BY DEF LocalStep, ObjectStep
  <2>3. pc[u] \in Creating => o # object[t] \/ pc[t] \notin Creating
    BY <1>1, <2>1 DEF ThreadFits
  <2>4. Handles(o) \subseteq Handles(o)'
    BY HandlesGrow DEF LocalStep
  <2>5. holds'[u][o] >= holds[u][o] /\ holds[u][o] \in Nat /\ holds'[u][o] \in Int
    BY <1>2 DEF CountInv, TypeOK
  <2>6. pc[u] \in Creating =>
            /\ link'[o] = None /\ life'[o] # "none"
            /\ pc[u] # "ReferenceTarget" => life'[o] = "allocated"
            /\ pc[u] = "ReferenceTarget" => life'[o] \in {"live", "freed"}
    BY <1>1, <2>1, <2>2, <2>3 DEF ThreadFits, Creating
  <2>7. ASSUME pc[u] \in Creating, NEW v \in Threads \ {u}, pc'[v] \in Creating
        PROVE  object'[v] # o
    <3>1. CASE v # t
      BY <3>1, <2>7, <2>1, <1>1 DEF LocalStep, Elsewhere, ThreadFits
    <3>2. CASE v = t
      <4>1. life[o] # "none"
        BY <1>1, <2>1, <2>7 DEF ThreadFits
      <4>2. (pc[t] \in Creating /\ object'[t] = object[t]) \/ life[object'[t]] = "none"
        BY <2>7, <3>2 DEF LocalStep, ObjectStep
      <4>. QED
        BY <4>1, <4>2, <2>3, <2>7, <3>2
    <3>. QED
      BY <3>1, <3>2
  <2>8. holds[u][o] > 0 => holds'[u][o] > 0
    BY <2>5
  <2>9. pc[u] = "InsertHandle" => holds'[u][o] > 0
    BY <1>1, <2>1, <2>8 DEF ThreadFits
  <2>10. pc[u] = "IncrementHandleCount" => Handles(object[u])' # {}
    BY <1>1, <1>2, <2>1, <2>4 DEF ThreadFits, Handles
  <2>11. /\ pc'[u] # "run" => ProcessOf[u] \in created'
         /\ pc'[u] \in Objecting => object'[u] \in Objects
    BY <1>1, <1>2, <1>3 DEF ThreadFits
  <2>12. /\ pc'[u] \in {"CheckCount", "ObRemoveObject"} =>
                object'[u] \notin permanent' /\ life'[object'[u]] \in {"live", "freed"}
         /\ pc'[u] = "ObRemoveObject" => refCount'[object'[u]] = 0
    BY <1>1, <1>2, <2>1, <2>2 DEF ThreadFits
  <2>13. pc'[u] \in Creating =>
            /\ link'[object'[u]] = None /\ life'[object'[u]] # "none" /\ name'[u] \in Names
            /\ \A v \in Threads \ {u} : pc'[v] \in Creating => object'[v] # object'[u]
    BY <1>1, <1>2, <2>1, <2>6, <2>7 DEF ThreadFits
  <2>14. /\ pc'[u] \in {"LookupAgain", "InsertEntry", "Initialise"} => life'[object'[u]] = "allocated"
         /\ pc'[u] = "ReferenceTarget" =>
               target'[u] \in Objects /\ life'[object'[u]] \in {"live", "freed"}
         /\ pc'[u] = "InsertHandle" => holds'[u][object'[u]] > 0
    BY <1>1, <1>2, <2>1, <2>6, <2>9 DEF ThreadFits, Creating
  <2>. QED
    BY <1>2, <2>10, <2>11, <2>12, <2>13, <2>14 DEF ThreadFits
<1>. QED
  BY <1>4, <1>5

LEMMA OtherTables ==
    ASSUME CountInv, NEW t \in Threads, LocalStep(t)
    PROVE  /\ \A u \in Threads \ {t} : TableFits(u)'
           /\ \A p \in Processes : Untouched(p)'
<1>0. /\ child \in [Threads -> Processes \cup {None}] /\ None \notin Processes
      /\ table \in [Processes -> [Slots -> Objects \cup {Invalid, Garbage}]]
      /\ created \subseteq Processes
  BY ObAssumption DEF CountInv, TypeOK
<1>1. ASSUME NEW u \in Threads \ {t} PROVE TableFits(u)'
  <2>1. TableFits(u) /\ TableFits(t)
    BY DEF CountInv
  <2>2. pc'[u] = pc[u] /\ child'[u] = child[u] /\ slot'[u] = slot[u]
    BY DEF LocalStep, Elsewhere
  <2>3. ASSUME child[u] # None PROVE child[u] \notin created' /\ child'[t] # child[u]
    BY <2>1, <2>3 DEF LocalStep, TableStep, TableFits
  <2>4. \A v \in Threads \ {u, t} : child'[v] = child[v]
    BY DEF LocalStep, Elsewhere
  <2>5. ASSUME child[u] # None, NEW i \in Slots
        PROVE  table'[child[u]][i] = table[child[u]][i]
    <3>1. child[u] \in Processes /\ child[u] \notin created /\ child[t] # child[u]
      BY <2>5, <2>1, <1>0 DEF TableFits
    <3>. QED
      BY <3>1 DEF LocalStep, TableStep
  <2>. QED
    BY <2>1, <2>2, <2>3, <2>4, <2>5 DEF TableFits
<1>2. ASSUME NEW p \in Processes PROVE Untouched(p)'
  <2>1. SUFFICES ASSUME p \notin created', \A u \in Threads : child'[u] # p, NEW i \in Slots
                 PROVE  table'[p][i] = Invalid
    BY DEF Untouched
  <2>2. p \notin created /\ \A u \in Threads \ {t} : child[u] # p
    BY <2>1 DEF LocalStep, TableStep, Elsewhere
  <2>3. child[t] # p
    BY <2>1, <1>0 DEF LocalStep, TableStep
  <2>4. table[p][i] = Invalid
    BY <2>2, <2>3 DEF CountInv, Untouched
  <2>5. table'[p][i] = table[p][i]
    BY <2>2, <2>3 DEF LocalStep, TableStep
  <2>. QED
    BY <2>4, <2>5
<1>. QED
  BY <1>1, <1>2

\* What a step of thread t has to show.
LEMMA StepKeeps ==
    ASSUME CountInv, NEW t \in Threads, LocalStep(t), TypeOK', bug' # "count",
           \A o \in Objects : ObjectFits(o)', ThreadFits(t)', TableFits(t)'
    PROVE  CountInv'
<1>1. System \in created'
  BY DEF CountInv, LocalStep, TableStep
<1>2. ASSUME NEW u \in Threads PROVE ThreadFits(u)' /\ TableFits(u)'
  <2>1. CASE u = t
    BY <2>1
  <2>2. CASE u # t
    BY <2>2, OtherThreads, OtherTables
  <2>. QED
    BY <2>1, <2>2
<1>3. \A p \in Processes : Untouched(p)'
  BY OtherTables
<1>. QED
  BY <1>1, <1>2, <1>3 DEF CountInv

\* An object whose fields and references stay.
LEMMA ObjectSame ==
    ASSUME NEW o, ObjectFits(o), life'[o] = life[o], refCount'[o] = refCount[o],
           handleCount'[o] = handleCount[o], o \in permanent' <=> o \in permanent,
           link'[o] = link[o] \/ life[o] \in {"live", "freed"},
           Held(o)' = Held(o), Handles(o)' = Handles(o), Links(o)' = Links(o)
    PROVE  ObjectFits(o)'
BY DEF ObjectFits, References

\* A step that changes no object and no reference.
LEMMA ObjectsSame ==
    ASSUME CountInv, UNCHANGED <<objectVars, holds, table>>
    PROVE  \A o \in Objects : ObjectFits(o)'
<1>1. ASSUME NEW o \in Objects PROVE ObjectFits(o)'
  <2>1. ObjectFits(o)
    BY DEF CountInv
  <2>2. Held(o)' = Held(o) /\ Handles(o)' = Handles(o) /\ Links(o)' = Links(o)
    BY DEF objectVars, Held, Handles, Links
  <2>. QED
    BY <2>1, <2>2, ObjectSame DEF objectVars
<1>. QED
  BY <1>1

\* An assertion other than the ones about counts.
LEMMA StopKeeps ==
    ASSUME CountInv,
           NEW a \in {"none", "reference", "unnamed", "twice", "removed", "target", "tag", "type"},
           Stops(a)
    PROVE  CountInv'
<1>1. UNCHANGED <<life, refCount, handleCount, permanent, link, directory, table, created, holds, pc,
                  object, name, target, child, slot>>
  BY DEF Stops, objectVars, tableVars, callVars
<1>2. TypeOK' /\ bug' # "count"
  BY <1>1 DEF Stops, CountInv, TypeOK
<1>3. \A o \in Objects : ObjectFits(o)'
  BY <1>1, ObjectsSame DEF objectVars
<1>4. ASSUME NEW t \in Threads PROVE ThreadFits(t)' /\ TableFits(t)'
  BY <1>1 DEF CountInv, ThreadFits, TableFits, Handles
<1>5. \A p \in Processes : Untouched(p)'
  BY <1>1 DEF CountInv, Untouched
<1>. QED
  BY <1>1, <1>2, <1>3, <1>4, <1>5 DEF CountInv

\* A thread that returns.
LEMMA ReturnFits ==
    ASSUME TypeOK, NEW t \in Threads, Return(t)
    PROVE  /\ ThreadFits(t)' /\ TableFits(t)'
           /\ pc' \in [Threads -> Places] /\ object' \in [Threads -> Objects \cup {None}]
           /\ name' \in [Threads -> Names \cup {None}]
           /\ target' \in [Threads -> Objects \cup {None}]
           /\ child' \in [Threads -> Processes \cup {None}]
           /\ slot' \in [Threads -> 0 .. EX_MAX_HANDLE]
           /\ pc'[t] = "run" /\ child'[t] = None
           /\ \A u \in Threads \ {t} :
                 /\ pc'[u] = pc[u] /\ object'[u] = object[u] /\ name'[u] = name[u]
                 /\ target'[u] = target[u] /\ child'[u] = child[u] /\ slot'[u] = slot[u]
<1>1. /\ pc' \in [Threads -> Places] /\ object' \in [Threads -> Objects \cup {None}]
      /\ name' \in [Threads -> Names \cup {None}]
      /\ target' \in [Threads -> Objects \cup {None}]
      /\ child' \in [Threads -> Processes \cup {None}]
  BY DEF TypeOK, Return, Goto, Places
<1>2. slot' \in [Threads -> 0 .. EX_MAX_HANDLE]
  BY ObAssumption DEF TypeOK, Return
<1>3. pc'[t] = "run" /\ child'[t] = None
  BY DEF TypeOK, Return, Goto
<1>4. \A u \in Threads \ {t} :
          /\ pc'[u] = pc[u] /\ object'[u] = object[u] /\ name'[u] = name[u]
          /\ target'[u] = target[u] /\ child'[u] = child[u] /\ slot'[u] = slot[u]
  BY DEF TypeOK, Return, Goto
<1>5. ThreadFits(t)'
  BY <1>3 DEF ThreadFits, Objecting, Creating
<1>6. TableFits(t)'
  BY <1>3 DEF TableFits, Loops
<1>. QED
  BY <1>1, <1>2, <1>3, <1>4, <1>5, <1>6

\* The references to a live object change, and its count by as much, or by more
\* if it is permanent.
LEMMA CountMoves ==
    ASSUME CountInv, NEW o \in Objects, life[o] = "live", life'[o] = "live",
           handleCount'[o] = handleCount[o], o \in permanent' <=> o \in permanent,
           Handles(o) \subseteq Handles(o)',
           IsFiniteSet(Held(o)'), IsFiniteSet(Handles(o)'), IsFiniteSet(Links(o)'),
           \/ refCount'[o] - refCount[o] = References(o)' - References(o)
           \/ o \in permanent /\ refCount'[o] - refCount[o] >= References(o)' - References(o),
           refCount'[o] \in Nat
    PROVE  ObjectFits(o)'
<1>1. References(o)' \in Nat
  BY FS_CardinalityType DEF References
<1>2. IF o \in permanent THEN refCount[o] >= References(o) ELSE refCount[o] = References(o)
  BY DEF CountInv, ObjectFits
<1>3. IF o \in permanent THEN refCount'[o] >= References(o)' ELSE refCount'[o] = References(o)'
  BY <1>1, <1>2, CountTypes
<1>4. handleCount'[o] # 0 => Handles(o)' # {}
  BY DEF CountInv, ObjectFits
<1>. QED
  BY <1>3, <1>4 DEF ObjectFits

\* Outside the loops a thread has no child.
LEMMA Childless ==
    ASSUME CountInv, NEW t \in Threads, pc[t] \notin Loops
    PROVE  child[t] = None
BY DEF CountInv, TableFits

\* A thread in its own code.
LEMMA RunFits ==
    ASSUME NEW t \in Threads, pc'[t] = "run", child'[t] = None
    PROVE  ThreadFits(t)' /\ TableFits(t)'
BY DEF ThreadFits, TableFits, Objecting, Creating, Loops

\* A step that leaves the tables alone.
LEMMA TablesSame ==
    ASSUME CountInv, NEW t \in Threads, table' = table, created' = created,
           child'[t] = child[t]
    PROVE  TableStep(t)
BY DEF TableStep

\* A step that leaves the objects alone.
LEMMA ObjectsAlone ==
    ASSUME UNCHANGED <<life, refCount, permanent, link>>, NEW t \in Threads,
           pc'[t] \in Creating => pc[t] \in Creating /\ object'[t] = object[t]
    PROVE  ObjectStep(t)
BY DEF ObjectStep

-----------------------------------------------------------------------------
(* References.                                                              *)

\* Someone takes another reference.
LEMMA OneMoreReference ==
    ASSUME CountInv, NEW t \in Threads, NEW u \in Threads, NEW o \in Objects, life[o] = "live",
           refCount' = Incremented(o), Gains(u, o),
           UNCHANGED <<life, handleCount, permanent, link, table>>
    PROVE  \A p \in Objects : ObjectFits(p)'
<1>1. ASSUME NEW p \in Objects PROVE ObjectFits(p)'
  <2>0. ObjectFits(p) /\ Handles(p)' = Handles(p) /\ Links(p)' = Links(p)
    BY DEF CountInv, Handles, Links
  <2>1. CASE p = o
    <3>1. IsFiniteSet(Held(o)') /\ Cardinality(Held(o)') = Cardinality(Held(o)) + 1
      BY HeldGain, <2>0, <2>1 DEF CountInv, TypeOK, ObjectFits
    <3>2. refCount'[o] = refCount[o] + 1 /\ refCount[o] \in Nat
      BY DEF Incremented, CountInv, TypeOK
    <3>3. References(o)' = References(o) + 1
      BY <2>0, <2>1, <3>1, CountTypes DEF References
    <3>4. refCount'[o] - refCount[o] = References(o)' - References(o) /\ refCount'[o] \in Nat
      BY <3>2, <3>3, CountTypes
    <3>5. IsFiniteSet(Handles(o)') /\ IsFiniteSet(Links(o)') /\ Handles(o) \subseteq Handles(o)'
      BY <2>0, <2>1 DEF ObjectFits
    <3>. QED
      BY <2>1, <3>1, <3>4, <3>5, CountMoves
  <2>2. CASE p # o
    <3>1. Held(p)' = Held(p)
      BY <2>2, HeldGain DEF CountInv, TypeOK, ObjectFits
    <3>2. refCount'[p] = refCount[p]
      BY <2>2 DEF Incremented, CountInv, TypeOK
    <3>. QED
      BY <2>0, <3>1, <3>2, ObjectSame
  <2>. QED
    BY <2>1, <2>2
<1>. QED
  BY <1>1

LEMMA KeepsReference ==
    ASSUME CountInv, NEW t \in Threads, NEW u \in Threads, NEW o \in Objects,
           ObReferenceObject(t, u, o)
    PROVE  CountInv' /\ (LocalStep(t) \/ table' = table)
<1>0. bug = "none" /\ pc[t] = "run" /\ life[o] = "live" /\ refCount[o] >= 1
  BY HolderReferences DEF ObReferenceObject, Runs, At
<1>1. CASE MayReference(o)
  <2>1. /\ refCount' = Incremented(o) /\ Gains(u, o)
        /\ UNCHANGED <<life, handleCount, permanent, link, directory, table, created, pc, object, name,
                       target, child, slot, bug>>
    BY <1>1 DEF ObReferenceObject, Checked, tableVars, callVars
  <2>2. /\ holds' \in [Threads -> [Objects -> Nat]]
        /\ \A v \in Threads, p \in Objects : holds'[v][p] >= holds[v][p]
    BY <2>1, HeldGain DEF CountInv, TypeOK, ObjectFits
  <2>3. refCount' \in [Objects -> Nat]
    BY <2>1 DEF Incremented, CountInv, TypeOK
  <2>4. TypeOK' /\ bug' # "count"
    BY <2>1, <2>2, <2>3 DEF CountInv, TypeOK
  <2>5. \A p \in Objects : ObjectFits(p)'
    BY <1>0, <2>1, OneMoreReference
  <2>6. ThreadFits(t)' /\ TableFits(t)'
    BY <1>0, <2>1, Childless, RunFits DEF Loops
  <2>7. Elsewhere(t) /\ TableStep(t)
    <3>1. Elsewhere(t)
      BY <2>1, <2>2 DEF Elsewhere
    <3>2. TableStep(t)
      BY <2>1, TablesSame
    <3>. QED
      BY <3>1, <3>2
  <2>8. ASSUME NEW p \in Objects, refCount[p] = 0 PROVE refCount'[p] = 0
    <3>1. p # o
      BY <1>0, <2>8
    <3>. QED
      BY <3>1, <2>1, <2>8 DEF Incremented, CountInv, TypeOK
  <2>9. ObjectStep(t)
    BY <2>1, <2>8, <1>0 DEF ObjectStep, Creating
  <2>. QED
    BY <2>4, <2>5, <2>6, <2>7, <2>9, StepKeeps DEF LocalStep
<1>2. CASE ~MayReference(o)
  <2>1. Stops("reference")
    BY <1>2 DEF ObReferenceObject, Checked
  <2>. QED
    BY <2>1, StopKeeps DEF Stops, tableVars
<1>. QED
  BY <1>1, <1>2

LEMMA KeepsByPointer ==
    ASSUME CountInv, NEW t \in Threads, ObReferenceObjectByPointer(t)
    PROVE  CountInv' /\ (LocalStep(t) \/ table' = table)
<1>0. bug = "none" /\ pc[t] = "ByPointer"
  BY DEF ObReferenceObjectByPointer, At
<1>. PICK o \in Objects : o = object[t]
  BY <1>0 DEF CountInv, ThreadFits, Objecting
<1>1. CASE MayReference(o)
  <2>1. /\ refCount' = Incremented(o) /\ Gains(t, o) /\ Return(t)
        /\ UNCHANGED <<life, handleCount, permanent, link, directory, table, created, bug>>
    BY <1>1 DEF ObReferenceObjectByPointer, Checked, tableVars
  <2>2. /\ holds' \in [Threads -> [Objects -> Nat]]
        /\ \A v \in Threads, p \in Objects : holds'[v][p] >= holds[v][p]
    BY <2>1, HeldGain DEF CountInv, TypeOK, ObjectFits
  <2>3. refCount' \in [Objects -> Nat]
    BY <2>1 DEF Incremented, CountInv, TypeOK
  <2>a. /\ ThreadFits(t)' /\ TableFits(t)'
        /\ pc' \in [Threads -> Places] /\ object' \in [Threads -> Objects \cup {None}]
        /\ name' \in [Threads -> Names \cup {None}]
        /\ target' \in [Threads -> Objects \cup {None}]
        /\ child' \in [Threads -> Processes \cup {None}]
        /\ slot' \in [Threads -> 0 .. EX_MAX_HANDLE]
        /\ pc'[t] = "run" /\ child'[t] = None
        /\ \A u \in Threads \ {t} :
              /\ pc'[u] = pc[u] /\ object'[u] = object[u] /\ name'[u] = name[u]
              /\ target'[u] = target[u] /\ child'[u] = child[u] /\ slot'[u] = slot[u]
    BY <2>1, ReturnFits DEF CountInv
  <2>4. TypeOK' /\ bug' # "count"
    BY <2>1, <2>2, <2>3, <2>a DEF CountInv, TypeOK
  <2>5. life[o] = "live" /\ refCount[o] # 0
    BY <1>1 DEF MayReference, CountInv, ObjectFits
  <2>6. \A p \in Objects : ObjectFits(p)'
    BY <2>5, <2>1, OneMoreReference
  <2>7. child[t] = None
    BY <1>0, Childless DEF Loops
  <2>8. Elsewhere(t) /\ TableStep(t)
    BY <2>1, <2>2, <2>7, <2>a, TablesSame DEF Elsewhere
  <2>9. ASSUME NEW p \in Objects, refCount[p] = 0 PROVE refCount'[p] = 0
    BY <2>1, <2>5, <2>9 DEF Incremented, CountInv, TypeOK
  <2>10. ObjectStep(t)
    BY <2>1, <2>9, <2>a DEF ObjectStep, Creating
  <2>. QED
    BY <2>4, <2>a, <2>6, <2>8, <2>10, StepKeeps DEF LocalStep
<1>2. CASE ~MayReference(o)
  <2>1. Stops("reference")
    BY <1>2 DEF ObReferenceObjectByPointer, Checked
  <2>. QED
    BY <2>1, StopKeeps DEF Stops, tableVars
<1>. QED
  BY <1>1, <1>2

\* Someone gives a reference up, and the count goes down unless it is permanent.
LEMMA OneLessReference ==
    ASSUME CountInv, NEW t \in Threads, NEW o \in Objects, holds[t][o] > 0, Loses(t, o),
           refCount' = IF o \in permanent THEN refCount ELSE [refCount EXCEPT ![o] = @ - 1],
           UNCHANGED <<life, handleCount, permanent, link, table>>
    PROVE  \A p \in Objects : ObjectFits(p)'
<1>1. ASSUME NEW p \in Objects PROVE ObjectFits(p)'
  <2>0. ObjectFits(p) /\ Handles(p)' = Handles(p) /\ Links(p)' = Links(p)
    BY DEF CountInv, Handles, Links
  <2>1. CASE p = o
    <3>1. IsFiniteSet(Held(o)') /\ Cardinality(Held(o)') = Cardinality(Held(o)) - 1
      BY HeldLoss, <2>0, <2>1 DEF CountInv, TypeOK, ObjectFits
    <3>2. References(o)' = References(o) - 1
      BY <2>0, <2>1, <3>1, CountTypes DEF References
    <3>3. refCount[o] \in Nat /\ refCount[o] >= 1 /\ life[o] = "live"
      BY HolderReferences DEF CountInv, TypeOK
    <3>4. /\ refCount'[o] \in Nat
          /\ \/ refCount'[o] - refCount[o] = References(o)' - References(o)
             \/ o \in permanent /\ refCount'[o] - refCount[o] >= References(o)' - References(o)
      <4>1. refCount'[o] = IF o \in permanent THEN refCount[o] ELSE refCount[o] - 1
        BY DEF CountInv, TypeOK
      <4>. QED
        BY <4>1, <3>2, <3>3, CountTypes
    <3>5. IsFiniteSet(Handles(o)') /\ IsFiniteSet(Links(o)') /\ Handles(o) \subseteq Handles(o)'
      BY <2>0, <2>1 DEF ObjectFits
    <3>. QED
      BY <2>1, <3>1, <3>3, <3>4, <3>5, CountMoves
  <2>2. CASE p # o
    <3>1. Held(p)' = Held(p)
      BY <2>2, HeldLoss DEF CountInv, TypeOK, ObjectFits
    <3>2. refCount'[p] = refCount[p]
      BY <2>2 DEF CountInv, TypeOK
    <3>. QED
      BY <2>0, <3>1, <3>2, ObjectSame
  <2>. QED
    BY <2>1, <2>2
<1>. QED
  BY <1>1

LEMMA KeepsDereference ==
    ASSUME CountInv, NEW t \in Threads, NEW o \in Objects, ObDereferenceObject(t, o)
    PROVE  CountInv' /\ (LocalStep(t) \/ table' = table)
<1>0. /\ bug = "none" /\ pc[t] = "run" /\ holds[t][o] > 0 /\ life[o] = "live" /\ refCount[o] >= 1
      /\ ProcessOf[t] \in created
  BY HolderReferences DEF ObDereferenceObject, Runs, At
<1>1. \/ o \in permanent /\ KeepPermanent(t, o)
      \/ o \notin permanent /\ Decrement(t, o)
  BY <1>0 DEF ObDereferenceObject, Checked
<1>a. child[t] = None
  BY <1>0, Childless DEF Loops
<1>2. CASE o \in permanent /\ Loses(t, o) /\ UNCHANGED <<objectVars, directory, tableVars, pc, callVars, bug>>
  <2>1. UNCHANGED <<life, refCount, handleCount, permanent, link, directory, table, created, pc, object,
                    name, target, child, slot, bug>>
    BY <1>2 DEF objectVars, tableVars, callVars
  <2>2. /\ holds' \in [Threads -> [Objects -> Nat]]
        /\ \A v \in Threads \ {t}, p \in Objects : holds'[v][p] = holds[v][p]
    BY <1>0, <1>2, HeldLoss DEF CountInv, TypeOK, ObjectFits
  <2>3. TypeOK' /\ bug' # "count"
    BY <2>1, <2>2 DEF CountInv, TypeOK
  <2>5. \A p \in Objects : ObjectFits(p)'
    BY <1>0, <1>2, <2>1, OneLessReference
  <2>6. ThreadFits(t)' /\ TableFits(t)'
    BY <1>0, <1>a, <2>1, RunFits
  <2>7. Elsewhere(t) /\ TableStep(t) /\ ObjectStep(t)
    <3>1. \A v \in Threads \ {t}, p \in Objects : holds'[v][p] >= holds[v][p]
      BY <2>2 DEF CountInv, TypeOK
    <3>. QED
      <4>1. Elsewhere(t)
        BY <2>1, <3>1 DEF Elsewhere
      <4>2. TableStep(t)
        BY <2>1, TablesSame
      <4>3. ObjectStep(t)
        BY <1>0, <2>1, ObjectsAlone DEF Creating
      <4>. QED
        BY <4>1, <4>2, <4>3
  <2>. QED
    BY <2>3, <2>5, <2>6, <2>7, StepKeeps DEF LocalStep
<1>3. CASE o \notin permanent /\ Decrement(t, o)
  <2>1. /\ refCount' = [refCount EXCEPT ![o] = @ - 1] /\ Loses(t, o)
        /\ pc' = [pc EXCEPT ![t] = "CheckCount"] /\ object' = [object EXCEPT ![t] = o]
        /\ UNCHANGED <<life, handleCount, permanent, link, directory, table, created, name, target,
                       child, slot, bug>>
    BY <1>3 DEF Decrement, Goto, tableVars
  <2>2. /\ holds' \in [Threads -> [Objects -> Nat]]
        /\ \A v \in Threads \ {t}, p \in Objects : holds'[v][p] = holds[v][p]
    BY <1>0, <2>1, HeldLoss DEF CountInv, TypeOK, ObjectFits
  <2>a. refCount' \in [Objects -> Nat]
    <3>1. refCount[o] - 1 \in Nat
      BY <1>0 DEF CountInv, TypeOK
    <3>. QED
      BY <3>1, <2>1 DEF CountInv, TypeOK
  <2>3. TypeOK' /\ bug' # "count"
    BY <2>1, <2>2, <2>a DEF CountInv, TypeOK, Places
  <2>5. \A p \in Objects : ObjectFits(p)'
    BY <1>0, <1>3, <2>1, OneLessReference
  <2>b. pc'[t] = "CheckCount" /\ object'[t] = o /\ child'[t] = None
    BY <2>1, <1>a DEF CountInv, TypeOK
  <2>6. ThreadFits(t)' /\ TableFits(t)'
    BY <1>0, <1>3, <2>1, <2>b DEF ThreadFits, TableFits, Creating, Loops
  <2>7. Elsewhere(t) /\ TableStep(t)
    <3>1. \A v \in Threads \ {t}, p \in Objects : holds'[v][p] >= holds[v][p]
      BY <2>2 DEF CountInv, TypeOK
    <3>2. Elsewhere(t)
      BY <2>1, <3>1 DEF Elsewhere, CountInv, TypeOK
    <3>3. TableStep(t)
      BY <2>1, TablesSame
    <3>. QED
      BY <3>2, <3>3
  <2>8. ASSUME NEW p \in Objects, refCount[p] = 0 PROVE refCount'[p] = 0
    <3>1. p # o
      BY <1>0, <2>8
    <3>. QED
      BY <3>1, <2>1, <2>8 DEF CountInv, TypeOK
  <2>9. ObjectStep(t)
    BY <2>1, <2>b, <2>8 DEF ObjectStep, Creating
  <2>. QED
    BY <2>3, <2>5, <2>6, <2>7, <2>9, StepKeeps DEF LocalStep
<1>4. CASE Stops("unnamed")
  BY <1>4, StopKeeps DEF Stops, tableVars
<1>. QED
  BY <1>1, <1>2, <1>3, <1>4 DEF KeepPermanent, Checked

-----------------------------------------------------------------------------
(* Steps that only move a thread.                                           *)

\* The locals of the other threads stay.
OthersStay(t) ==
    \A u \in Threads \ {t} :
        /\ pc'[u] = pc[u] /\ object'[u] = object[u] /\ name'[u] = name[u]
        /\ target'[u] = target[u] /\ child'[u] = child[u] /\ slot'[u] = slot[u]

LEMMA MoveKeeps ==
    ASSUME CountInv, NEW t \in Threads, TypeOK', bug' # "count", OthersStay(t), TableStep(t),
           UNCHANGED <<life, refCount, handleCount, permanent, link, table, holds>>,
           pc'[t] \in Creating => pc[t] \in Creating /\ object'[t] = object[t],
           ThreadFits(t)', TableFits(t)'
    PROVE  CountInv' /\ LocalStep(t)
<1>1. Elsewhere(t)
  BY DEF OthersStay, Elsewhere, CountInv, TypeOK
<1>2. ObjectStep(t)
  BY ObjectsAlone
<1>3. \A o \in Objects : ObjectFits(o)'
  BY ObjectsSame DEF objectVars
<1>. QED
  BY <1>1, <1>2, <1>3, StepKeeps DEF LocalStep

\* A thread returns and has changed nothing.
LEMMA ReturnKeeps ==
    ASSUME CountInv, NEW t \in Threads, Return(t), bug = "none", pc[t] \notin Loops,
           UNCHANGED <<objectVars, directory, tableVars, holds, bug>>
    PROVE  CountInv' /\ LocalStep(t)
<1>1. UNCHANGED <<life, refCount, handleCount, permanent, link, directory, table, created, holds, bug>>
  BY DEF objectVars, tableVars
<1>2. TypeOK' /\ bug' # "count"
  BY <1>1, ReturnFits DEF CountInv, TypeOK
<1>3. OthersStay(t) /\ ThreadFits(t)' /\ TableFits(t)' /\ pc'[t] = "run" /\ child'[t] = None
  BY ReturnFits DEF OthersStay, CountInv
<1>4. TableStep(t)
  BY <1>1, <1>3, Childless, TablesSame
<1>5. pc'[t] \notin Creating
  BY <1>3 DEF Creating
<1>. QED
  BY <1>1, <1>2, <1>3, <1>4, <1>5, MoveKeeps

LEMMA KeepsCheckCount ==
    ASSUME CountInv, NEW t \in Threads, CheckCount(t)
    PROVE  CountInv' /\ LocalStep(t)
<1>0. bug = "none" /\ pc[t] = "CheckCount" /\ UNCHANGED <<objectVars, directory, tableVars, holds, bug>>
  BY DEF CheckCount, At
<1>1. CASE ReachedZero(object[t]) /\ Goto(t, "ObRemoveObject") /\ UNCHANGED callVars
  <2>1. /\ pc' = [pc EXCEPT ![t] = "ObRemoveObject"]
        /\ UNCHANGED <<life, refCount, handleCount, permanent, link, directory, table, created, holds,
                       object, name, target, child, slot, bug>>
    BY <1>0, <1>1 DEF Goto, objectVars, tableVars, callVars
  <2>2. TypeOK' /\ bug' # "count"
    BY <1>0, <2>1 DEF CountInv, TypeOK, Places
  <2>3. pc'[t] = "ObRemoveObject" /\ OthersStay(t)
    BY <2>1 DEF OthersStay, CountInv, TypeOK
  <2>4. TableStep(t)
    BY <2>1, TablesSame
  <2>5. /\ object[t] \in Objects /\ object[t] \notin permanent
        /\ life[object[t]] \in {"live", "freed"} /\ ProcessOf[t] \in created
    BY <1>0 DEF CountInv, ThreadFits, Objecting
  <2>6. refCount[object[t]] = 0
    BY <1>1, <2>5 DEF ReachedZero, CountInv, TypeOK
  <2>7. ThreadFits(t)'
    BY <2>1, <2>3, <2>5, <2>6 DEF ThreadFits, Creating
  <2>8. TableFits(t)'
    BY <1>0, <2>1, <2>3, Childless DEF TableFits, Loops
  <2>9. pc'[t] \notin Creating
    BY <2>3 DEF Creating
  <2>. QED
    BY <2>1, <2>2, <2>3, <2>4, <2>7, <2>8, <2>9, MoveKeeps
<1>2. CASE Return(t)
  BY <1>0, <1>2, ReturnKeeps DEF Loops
<1>. QED
  BY <1>1, <1>2 DEF CheckCount

LEMMA KeepsCreateLinkFails ==
    ASSUME CountInv, NEW t \in Threads, CreateLinkFails(t)
    PROVE  CountInv' /\ LocalStep(t)
BY ReturnKeeps DEF CreateLinkFails, At, Loops

\* A thread goes on to a place with an object it knows.
LEMMA KeepsInsertObject ==
    ASSUME CountInv, NEW t \in Threads, NEW o \in Objects, ObInsertObject(t, o)
    PROVE  CountInv' /\ LocalStep(t)
<1>1. /\ bug = "none" /\ pc[t] = "run" /\ ProcessOf[t] \in created /\ holds[t][o] > 0
      /\ pc' = [pc EXCEPT ![t] = "InsertHandle"] /\ object' = [object EXCEPT ![t] = o]
      /\ slot' = [slot EXCEPT ![t] = 0]
      /\ UNCHANGED <<life, refCount, handleCount, permanent, link, directory, table, created, holds,
                     name, target, child, bug>>
  BY DEF ObInsertObject, Runs, At, Goto, objectVars, tableVars
<1>2. TypeOK' /\ bug' # "count"
  BY <1>1, ObAssumption DEF CountInv, TypeOK, Places
<1>3. pc'[t] = "InsertHandle" /\ object'[t] = o /\ OthersStay(t)
  BY <1>1 DEF OthersStay, CountInv, TypeOK
<1>4. TableStep(t)
  BY <1>1, TablesSame
<1>5. ThreadFits(t)'
  BY <1>1, <1>3 DEF ThreadFits, Creating
<1>6. TableFits(t)'
  BY <1>1, <1>3, Childless DEF TableFits, Loops
<1>7. pc'[t] \notin Creating
  BY <1>3 DEF Creating
<1>. QED
  BY <1>1, <1>2, <1>3, <1>4, <1>5, <1>6, <1>7, MoveKeeps

LEMMA KeepsByHandle ==
    ASSUME CountInv, NEW t \in Threads, NEW i \in Slots, ObReferenceObjectByHandle(t, i)
    PROVE  CountInv' /\ LocalStep(t)
<1>. PICK o : o = table[ProcessOf[t]][i]
  OBVIOUS
<1>1. /\ bug = "none" /\ pc[t] = "run" /\ ProcessOf[t] \in created /\ o \in Objects
      /\ pc' = [pc EXCEPT ![t] = "ByPointer"] /\ object' = [object EXCEPT ![t] = o]
      /\ UNCHANGED <<life, refCount, handleCount, permanent, link, directory, table, created, holds,
                     name, target, child, slot, bug>>
  BY DEF ObReferenceObjectByHandle, Runs, At, Goto, objectVars, tableVars
<1>2. TypeOK' /\ bug' # "count"
  BY <1>1 DEF CountInv, TypeOK, Places
<1>3. pc'[t] = "ByPointer" /\ object'[t] = o /\ OthersStay(t)
  BY <1>1 DEF OthersStay, CountInv, TypeOK
<1>4. TableStep(t)
  BY <1>1, TablesSame
<1>5. ThreadFits(t)'
  BY <1>1, <1>3 DEF ThreadFits, Creating
<1>6. TableFits(t)'
  BY <1>1, <1>3, Childless DEF TableFits, Loops
<1>7. pc'[t] \notin Creating
  BY <1>3 DEF Creating
<1>. QED
  BY <1>1, <1>2, <1>3, <1>4, <1>5, <1>6, <1>7, MoveKeeps

-----------------------------------------------------------------------------
(* Names.                                                                   *)

NatLess == {e \in Nat \X Nat : e[1] < e[2]}

LEMMA NatLessWellFounded == IsWellFoundedOn(NatLess, Nat)
BY NatLessThanWellFounded DEF NatLess, OpToRel

\* The entry that a lookup takes is one of those that match.
LEMMA LookupIsObject ==
    ASSUME TypeOK, NEW n, Matches(n) # {}
    PROVE  Lookup(n) \in Objects
<1>1. Matches(n) \subseteq Nat
  BY DEF Matches, TypeOK
<1>2. PICK i \in Matches(n) : \A j \in Matches(n) : ~(<<j, i>> \in NatLess)
  BY <1>1, NatLessWellFounded, WFMin
<1>3. ASSUME NEW j \in Matches(n) PROVE i <= j
  <2>1. i \in Nat /\ j \in Nat
    BY <1>1, <1>2
  <2>2. j < i => <<j, i>> \in NatLess
    BY <2>1 DEF NatLess
  <2>. QED
    BY <1>2, <2>1, <2>2
<1>4. PICK k : k = CHOOSE i_1 \in Matches(n) : \A j \in Matches(n) : i_1 <= j
  OBVIOUS
<1>5. k \in Matches(n)
  BY <1>2, <1>3, <1>4
<1>6. k \in 1 .. Len(directory)
  BY <1>5 DEF Matches, TypeOK
<1>7. directory[k].object \in Objects
  <2>1. directory[k] \in [name : Names, object : Objects]
    <3>1. PICK S : S = [name : Names, object : Objects]
      OBVIOUS
    <3>2. directory \in Seq(S)
      BY <3>1 DEF TypeOK
    <3>3. directory[k] \in S
      BY <3>2, <1>6
    <3>. QED
      BY <3>1, <3>3
  <2>. QED
    BY <2>1
<1>. QED
  BY <1>4, <1>7 DEF Lookup

LEMMA KeepsLookupTarget ==
    ASSUME CountInv, NEW t \in Threads, NEW n \in Names, LookupTarget(t, n)
    PROVE  CountInv' /\ (LocalStep(t) \/ table' = table)
<1>1. CASE Stops("removed") \/ Stops("target")
  BY <1>1, StopKeeps DEF Stops, tableVars
<1>2. CASE FindsObject(n) /\ ~Stops("removed") /\ ~Stops("target")
  <2>1. /\ bug = "none" /\ pc[t] = "run" /\ ProcessOf[t] \in created
        /\ pc' = [pc EXCEPT ![t] = "CreateLink"] /\ target' = [target EXCEPT ![t] = Lookup(n)]
        /\ UNCHANGED <<life, refCount, handleCount, permanent, link, directory, table, created, holds,
                       object, name, child, slot, bug>>
    BY <1>2 DEF LookupTarget, Runs, At, Goto, objectVars, tableVars
  <2>a. Lookup(n) \in Objects
    BY <1>2, LookupIsObject DEF FindsObject, CountInv
  <2>2. TypeOK' /\ bug' # "count"
    BY <2>1, <2>a DEF CountInv, TypeOK, Places
  <2>3. pc'[t] = "CreateLink" /\ OthersStay(t)
    BY <2>1 DEF OthersStay, CountInv, TypeOK
  <2>4. TableStep(t)
    BY <2>1, TablesSame
  <2>5. ThreadFits(t)'
    BY <2>1, <2>3 DEF ThreadFits, Creating, Objecting
  <2>6. TableFits(t)'
    BY <2>1, <2>3, Childless DEF TableFits, Loops
  <2>7. pc'[t] \notin Creating
    BY <2>3 DEF Creating
  <2>. QED
    BY <2>1, <2>2, <2>3, <2>4, <2>5, <2>6, <2>7, MoveKeeps
<1>. QED
  BY <1>1, <1>2 DEF LookupTarget

\* A creating thread goes on with its object.
LEMMA CreatorMoves ==
    ASSUME CountInv, NEW t \in Threads, bug = "none",
           pc[t] \in {"LookupAgain", "InsertEntry"}, NEW place \in {"InsertEntry", "Initialise"},
           pc' = [pc EXCEPT ![t] = place], directory' \in Seq([name : Names, object : Objects]),
           UNCHANGED <<life, refCount, handleCount, permanent, link, table, created, holds,
                       object, name, target, child, slot, bug>>
    PROVE  CountInv' /\ LocalStep(t)
<1>2. TypeOK' /\ bug' # "count"
  BY DEF CountInv, TypeOK, Places
<1>3. pc'[t] = place /\ OthersStay(t)
  BY DEF OthersStay, CountInv, TypeOK
<1>4. TableStep(t)
  BY TablesSame
<1>5. ThreadFits(t)'
  <2>1. ThreadFits(t)
    BY DEF CountInv
  <2>2. /\ ProcessOf[t] \in created /\ object[t] \in Objects /\ link[object[t]] = None
        /\ life[object[t]] = "allocated" /\ name[t] \in Names
        /\ \A u \in Threads \ {t} : pc[u] \in Creating => object[u] # object[t]
    BY <2>1 DEF ThreadFits, Creating, Objecting
  <2>3. \A u \in Threads \ {t} : pc'[u] \in Creating => object[u] # object[t]
    BY <2>2, <1>3 DEF OthersStay
  <2>. QED
    BY <1>3, <2>2, <2>3 DEF ThreadFits, Creating
<1>6. TableFits(t)'
  BY <1>3, Childless DEF TableFits, Loops
<1>7. pc[t] \in Creating
  BY DEF Creating
<1>. QED
  BY <1>2, <1>3, <1>4, <1>5, <1>6, <1>7, MoveKeeps

LEMMA KeepsLookupAgain ==
    ASSUME CountInv, NEW t \in Threads, LookupAgain(t)
    PROVE  CountInv' /\ (LocalStep(t) \/ table' = table)
<1>1. CASE Stops("removed") \/ Stops("tag")
  BY <1>1, StopKeeps DEF Stops, tableVars
<1>2. CASE /\ Goto(t, IF Matches(name[t]) = {} THEN "InsertEntry" ELSE "Initialise")
           /\ UNCHANGED <<objectVars, directory, tableVars, holds, callVars, bug>>
  <2>1. PICK place \in {"InsertEntry", "Initialise"} : pc' = [pc EXCEPT ![t] = place]
    BY <1>2 DEF Goto
  <2>2. bug = "none" /\ pc[t] = "LookupAgain"
    BY DEF LookupAgain, At
  <2>3. UNCHANGED <<life, refCount, handleCount, permanent, link, directory, table, created, holds,
                    object, name, target, child, slot, bug>>
    BY <1>2 DEF objectVars, tableVars, callVars
  <2>4. directory' \in Seq([name : Names, object : Objects])
    BY <2>3 DEF CountInv, TypeOK
  <2>. QED
    BY <2>1, <2>2, <2>3, <2>4, CreatorMoves
<1>. QED
  BY <1>1, <1>2 DEF LookupAgain

LEMMA KeepsInsertEntry ==
    ASSUME CountInv, NEW t \in Threads, ObpInsertEntryDirectory(t)
    PROVE  CountInv' /\ LocalStep(t)
<1>1. /\ bug = "none" /\ pc[t] = "InsertEntry" /\ pc' = [pc EXCEPT ![t] = "Initialise"]
      /\ directory' = Append(directory, [name |-> name[t], object |-> object[t]])
      /\ UNCHANGED <<life, refCount, handleCount, permanent, link, table, created, holds,
                     object, name, target, child, slot, bug>>
  BY DEF ObpInsertEntryDirectory, At, Goto, objectVars, tableVars, callVars
<1>2. name[t] \in Names /\ object[t] \in Objects
  BY <1>1 DEF CountInv, ThreadFits, Creating, Objecting
<1>3. directory' \in Seq([name : Names, object : Objects])
  BY <1>1, <1>2 DEF CountInv, TypeOK
<1>. QED
  BY <1>1, <1>3, CreatorMoves

-----------------------------------------------------------------------------
(* Creation and removal.                                                    *)

\* The first lookup and the allocation.
LEMMA KeepsLookupName ==
    ASSUME CountInv, NEW t \in Threads, NEW o \in Objects, NEW n \in Names,
           NEW lnk \in Objects \cup {None}, bug = "none", pc[t] \in {"run", "CreateLink"},
           ProcessOf[t] \in created, LookupName(t, o, n, lnk)
    PROVE  CountInv' /\ (LocalStep(t) \/ table' = table)
<1>1. CASE Stops("removed")
  BY <1>1, StopKeeps DEF Stops, tableVars
<1>2. CASE ~Stops("removed")
  <2>1. /\ life[o] = "none" /\ life' = [life EXCEPT ![o] = "allocated"]
        /\ pc' = [pc EXCEPT ![t] = "LookupAgain"] /\ object' = [object EXCEPT ![t] = o]
        /\ name' = [name EXCEPT ![t] = n] /\ target' = [target EXCEPT ![t] = lnk]
        /\ UNCHANGED <<refCount, handleCount, permanent, link, directory, table, created, holds,
                       child, slot, bug>>
    BY <1>2 DEF LookupName, Goto, tableVars
  <2>2. TypeOK' /\ bug' # "count"
    BY <2>1 DEF CountInv, TypeOK, Places
  <2>3. /\ pc'[t] = "LookupAgain" /\ object'[t] = o /\ name'[t] = n
        /\ OthersStay(t) /\ life'[o] = "allocated" /\ \A p \in Objects \ {o} : life'[p] = life[p]
    BY <2>1 DEF OthersStay, CountInv, TypeOK
  <2>4. TableStep(t)
    BY <2>1, TablesSame
  <2>5. Elsewhere(t)
    BY <2>1, <2>3 DEF OthersStay, Elsewhere, CountInv, TypeOK
  <2>6. ObjectStep(t)
    BY <2>1, <2>3 DEF ObjectStep
  <2>7. ASSUME NEW p \in Objects PROVE ObjectFits(p)'
    <3>1. ObjectFits(p)
      BY DEF CountInv
    <3>2. Held(p)' = Held(p) /\ Handles(p)' = Handles(p) /\ Links(p)' = Links(p)
      BY <2>1 DEF Held, Handles, Links
    <3>3. References(p)' = References(p)
      BY <3>2 DEF References
    <3>4. CASE p # o
      BY <3>1, <3>2, <3>4, <2>1, <2>3, ObjectSame
    <3>5. CASE p = o
      BY <3>1, <3>2, <3>3, <3>5, <2>1, <2>3 DEF ObjectFits
    <3>. QED
      BY <3>4, <3>5
  <2>8. ThreadFits(t)'
    <3>1. link[o] = None
      BY <2>1 DEF CountInv, ObjectFits
    <3>2. ASSUME NEW u \in Threads \ {t}, pc'[u] \in Creating PROVE object'[u] # o
      <4>1. pc[u] \in Creating /\ object'[u] = object[u]
        BY <2>3, <3>2 DEF OthersStay
      <4>2. life[object[u]] # "none"
        BY <4>1 DEF CountInv, ThreadFits
      <4>. QED
        BY <4>1, <4>2, <2>1
    <3>. QED
      BY <2>1, <2>3, <3>1, <3>2 DEF ThreadFits, Creating
  <2>9. TableFits(t)'
    BY <2>1, <2>3, Childless DEF TableFits, Loops
  <2>. QED
    BY <2>2, <2>4, <2>5, <2>6, <2>7, <2>8, <2>9, StepKeeps DEF LocalStep
<1>. QED
  BY <1>1, <1>2

LEMMA KeepsCreateObject ==
    ASSUME CountInv, NEW t \in Threads, NEW o \in Objects, NEW n \in Names,
           ObCreateObject(t, o, n) \/ CreateLink(t, o, n)
    PROVE  CountInv' /\ (LocalStep(t) \/ table' = table)
<1>1. CASE ObCreateObject(t, o, n)
  BY <1>1, KeepsLookupName DEF ObCreateObject, Runs, At
<1>2. CASE CreateLink(t, o, n)
  <2>1. bug = "none" /\ pc[t] = "CreateLink" /\ LookupName(t, o, n, target[t])
    BY <1>2 DEF CreateLink, At
  <2>2. target[t] \in Objects \cup {None}
    BY DEF CountInv, TypeOK
  <2>3. ProcessOf[t] \in created
    BY <2>1 DEF CountInv, ThreadFits
  <2>. QED
    BY <2>1, <2>2, <2>3, KeepsLookupName
<1>. QED
  BY <1>1, <1>2

\* An object gets its first reference.
LEMMA FirstReference ==
    ASSUME CountInv, NEW t \in Threads, NEW o \in Objects, life[o] \in {"none", "allocated"},
           life' = [life EXCEPT ![o] = "live"], refCount' = [refCount EXCEPT ![o] = 1],
           handleCount'[o] = 0, \A p \in Objects \ {o} : handleCount'[p] = handleCount[p],
           \A p \in Objects \ {o} : p \in permanent' <=> p \in permanent,
           Gains(t, o), UNCHANGED <<link, table>>
    PROVE  \A p \in Objects : ObjectFits(p)'
<1>1. ASSUME NEW p \in Objects PROVE ObjectFits(p)'
  <2>1. ObjectFits(p) /\ Handles(p)' = Handles(p) /\ Links(p)' = Links(p)
    BY DEF CountInv, Handles, Links
  <2>2. CASE p # o
    <3>1. Held(p)' = Held(p)
      BY <2>2, HeldGain DEF CountInv, TypeOK, ObjectFits
    <3>2. life'[p] = life[p] /\ refCount'[p] = refCount[p]
      BY <2>2 DEF CountInv, TypeOK
    <3>. QED
      BY <2>1, <2>2, <3>1, <3>2, ObjectSame
  <2>3. CASE p = o
    <3>1. IsFiniteSet(Held(o)') /\ Cardinality(Held(o)') = Cardinality(Held(o)) + 1
      BY HeldGain, <2>1, <2>3 DEF CountInv, TypeOK, ObjectFits
    <3>2. References(o) = 0
      BY UnreferencedIsEmpty
    <3>3. References(o)' = 1
      BY <2>1, <2>3, <3>1, <3>2, CountTypes DEF References
    <3>4. life'[o] = "live" /\ refCount'[o] = 1
      BY DEF CountInv, TypeOK
    <3>5. refCount'[o] >= References(o)'
      BY <3>3, <3>4
    <3>. QED
      BY <2>1, <2>3, <3>1, <3>3, <3>4, <3>5 DEF ObjectFits
  <2>. QED
    BY <2>2, <2>3
<1>. QED
  BY <1>1

LEMMA KeepsCreateUnnamed ==
    ASSUME CountInv, NEW t \in Threads, NEW o \in Objects, CreateUnnamed(t, o)
    PROVE  CountInv' /\ LocalStep(t)
<1>1. /\ bug = "none" /\ pc[t] = "run" /\ life[o] = "none"
      /\ life' = [life EXCEPT ![o] = "live"] /\ refCount' = [refCount EXCEPT ![o] = 1] /\ Gains(t, o)
      /\ UNCHANGED <<handleCount, permanent, link, directory, table, created, pc, object, name,
                     target, child, slot, bug>>
  BY DEF CreateUnnamed, Runs, At, tableVars, callVars
<1>2. /\ holds' \in [Threads -> [Objects -> Nat]]
      /\ \A v \in Threads, p \in Objects : holds'[v][p] >= holds[v][p]
  BY <1>1, HeldGain DEF CountInv, TypeOK, ObjectFits
<1>3. TypeOK' /\ bug' # "count"
  BY <1>1, <1>2 DEF CountInv, TypeOK
<1>4. handleCount'[o] = 0
  BY <1>1 DEF CountInv, ObjectFits
<1>5. \A p \in Objects : ObjectFits(p)'
  BY <1>1, <1>4, FirstReference
<1>6. child'[t] = None /\ pc'[t] = "run"
  BY <1>1, Childless DEF Loops
<1>7. ThreadFits(t)' /\ TableFits(t)'
  BY <1>6, RunFits
<1>8. Elsewhere(t)
  BY <1>1, <1>2 DEF Elsewhere
<1>9. TableStep(t)
  BY <1>1, TablesSame
<1>10. ASSUME NEW p \in Objects
       PROVE  (life'[p] = life[p] /\ refCount'[p] = refCount[p]) \/ p = o
  BY <1>1 DEF CountInv, TypeOK
<1>11. ObjectStep(t)
  BY <1>1, <1>6, <1>10 DEF ObjectStep, Creating
<1>. QED
  BY <1>3, <1>5, <1>7, <1>8, <1>9, <1>11, StepKeeps DEF LocalStep

LEMMA KeepsInitialise ==
    ASSUME CountInv, NEW t \in Threads, Initialise(t)
    PROVE  CountInv' /\ LocalStep(t)
<1>0. bug = "none" /\ pc[t] = "Initialise"
  BY DEF Initialise, At
<1>. PICK o \in Objects : o = object[t]
  BY <1>0 DEF CountInv, ThreadFits, Objecting, Creating
<1>1. /\ life' = [life EXCEPT ![o] = "live"] /\ refCount' = [refCount EXCEPT ![o] = 1]
      /\ handleCount' = [handleCount EXCEPT ![o] = 0] /\ Gains(t, o)
      /\ permanent' \in {permanent, permanent \cup {o}}
      /\ UNCHANGED <<link, directory, table, created, bug>>
      /\ \/ target[t] = None /\ Return(t)
         \/ target[t] # None /\ Goto(t, "ReferenceTarget") /\ UNCHANGED callVars
  BY DEF Initialise, tableVars
<1>2. /\ life[o] = "allocated" /\ link[o] = None /\ name[t] \in Names /\ ProcessOf[t] \in created
      /\ \A u \in Threads \ {t} : pc[u] \in Creating => object[u] # o
  BY <1>0 DEF CountInv, ThreadFits, Creating
<1>3. /\ holds' \in [Threads -> [Objects -> Nat]]
      /\ \A v \in Threads, p \in Objects : holds'[v][p] >= holds[v][p]
  BY <1>1, HeldGain DEF CountInv, TypeOK, ObjectFits
<1>4. child[t] = None
  BY <1>0, Childless DEF Loops
<1>5. /\ pc' \in [Threads -> Places] /\ object' \in [Threads -> Objects \cup {None}]
      /\ name' \in [Threads -> Names \cup {None}]
      /\ target' \in [Threads -> Objects \cup {None}]
      /\ child' \in [Threads -> Processes \cup {None}]
      /\ slot' \in [Threads -> 0 .. EX_MAX_HANDLE]
      /\ child'[t] = None /\ OthersStay(t)
      /\ pc'[t] = "run" \/ (pc'[t] = "ReferenceTarget" /\ target[t] # None /\ UNCHANGED callVars)
  <2>1. CASE Return(t)
    BY <2>1, ReturnFits DEF OthersStay, CountInv
  <2>2. CASE target[t] # None /\ Goto(t, "ReferenceTarget") /\ UNCHANGED callVars
    BY <2>2, <1>4 DEF OthersStay, Goto, callVars, CountInv, TypeOK, Places
  <2>. QED
    BY <1>1, <2>1, <2>2
<1>6. /\ life' \in [Objects -> {"none", "allocated", "live", "freed"}]
      /\ refCount' \in [Objects -> Nat] /\ handleCount' \in [Objects -> Nat]
      /\ permanent' \subseteq Objects
  BY <1>1 DEF CountInv, TypeOK
<1>7. TypeOK' /\ bug' # "count"
  BY <1>0, <1>1, <1>3, <1>5, <1>6 DEF CountInv, TypeOK
<1>8. \A p \in Objects : ObjectFits(p)'
  <2>1. handleCount'[o] = 0 /\ \A p \in Objects \ {o} : handleCount'[p] = handleCount[p]
    BY <1>1 DEF CountInv, TypeOK
  <2>. QED
    BY <1>1, <1>2, <2>1, FirstReference
<1>9. Elsewhere(t)
  BY <1>3, <1>5 DEF OthersStay, Elsewhere
<1>10. TableStep(t)
  BY <1>1, <1>4, <1>5, TablesSame
<1>11. ASSUME NEW p \in Objects
       PROVE  (life'[p] = life[p] /\ refCount'[p] = refCount[p]) \/ p = o
  BY <1>1 DEF CountInv, TypeOK
<1>12. pc'[t] \in Creating => object'[t] = object[t] /\ pc[t] \in Creating
  BY <1>0, <1>5 DEF Creating, callVars
<1>13. ObjectStep(t)
  BY <1>0, <1>1, <1>2, <1>11, <1>12 DEF ObjectStep
<1>14. ThreadFits(t)' /\ TableFits(t)'
  <2>1. CASE pc'[t] = "run"
    BY <2>1, <1>5, RunFits
  <2>2. CASE pc'[t] = "ReferenceTarget" /\ target[t] # None /\ UNCHANGED callVars
    <3>1. object'[t] = o /\ target'[t] \in Objects /\ name'[t] \in Names
      BY <2>2, <1>2 DEF callVars, CountInv, TypeOK
    <3>2. life'[o] = "live" /\ link'[o] = None
      BY <1>1, <1>2 DEF CountInv, TypeOK
    <3>3. ASSUME NEW u \in Threads \ {t}, pc'[u] \in Creating PROVE object'[u] # o
      BY <3>3, <1>2, <1>5 DEF OthersStay
    <3>4. ThreadFits(t)'
      BY <2>2, <3>1, <3>2, <3>3, <1>1, <1>2 DEF ThreadFits, Creating
    <3>5. TableFits(t)'
      BY <2>2, <1>5 DEF TableFits, Loops
    <3>. QED
      BY <3>4, <3>5
  <2>. QED
    BY <1>5, <2>1, <2>2
<1>. QED
  BY <1>7, <1>8, <1>9, <1>10, <1>13, <1>14, StepKeeps DEF LocalStep

\* The references to an object, and its count, go up together.
LEMMA CountUp ==
    ASSUME CountInv, NEW o \in Objects, life[o] = "live", life'[o] = "live",
           handleCount'[o] = handleCount[o], o \in permanent' <=> o \in permanent,
           Handles(o) \subseteq Handles(o)', Held(o)' = Held(o),
           IsFiniteSet(Handles(o)'), IsFiniteSet(Links(o)'),
           \/ /\ Cardinality(Handles(o)') = Cardinality(Handles(o)) + 1
              /\ Links(o)' = Links(o)
           \/ /\ Cardinality(Links(o)') = Cardinality(Links(o)) + 1
              /\ Handles(o)' = Handles(o),
           refCount'[o] = refCount[o] + 1
    PROVE  ObjectFits(o)'
<1>1. IsFiniteSet(Held(o)')
  BY DEF CountInv, ObjectFits
<1>2. References(o)' = References(o) + 1
  <2>1. /\ Cardinality(Held(o)) \in Nat /\ Cardinality(Handles(o)) \in Nat
        /\ Cardinality(Links(o)) \in Nat
    BY CountTypes
  <2>. QED
    BY <2>1 DEF References
<1>3. refCount'[o] - refCount[o] = References(o)' - References(o) /\ refCount'[o] \in Nat
  BY <1>2, CountTypes
<1>. QED
  BY <1>1, <1>3, CountMoves

LEMMA KeepsReferenceTarget ==
    ASSUME CountInv, NEW t \in Threads, ReferenceTarget(t)
    PROVE  CountInv' /\ (LocalStep(t) \/ table' = table)
<1>0. bug = "none" /\ pc[t] = "ReferenceTarget"
  BY DEF ReferenceTarget, At
<1>. PICK o \in Objects : o = target[t]
  BY <1>0 DEF CountInv, ThreadFits
<1>. PICK l \in Objects : l = object[t]
  BY <1>0 DEF CountInv, ThreadFits, Objecting, Creating
<1>1. CASE MayReference(o)
  <2>1. /\ refCount' = Incremented(o) /\ link' = [link EXCEPT ![l] = o] /\ Return(t)
        /\ UNCHANGED <<life, handleCount, permanent, directory, table, created, holds, bug>>
    BY <1>1 DEF ReferenceTarget, Checked, tableVars
  <2>2. life[o] = "live" /\ refCount[o] # 0
    BY <1>1 DEF MayReference, CountInv, ObjectFits
  <2>3. link[l] = None /\ life[l] \in {"live", "freed"}
    BY <1>0 DEF CountInv, ThreadFits, Creating
  <2>4. /\ ThreadFits(t)' /\ TableFits(t)'
        /\ pc' \in [Threads -> Places] /\ object' \in [Threads -> Objects \cup {None}]
        /\ name' \in [Threads -> Names \cup {None}]
        /\ target' \in [Threads -> Objects \cup {None}]
        /\ child' \in [Threads -> Processes \cup {None}]
        /\ slot' \in [Threads -> 0 .. EX_MAX_HANDLE]
        /\ pc'[t] = "run" /\ child'[t] = None /\ OthersStay(t)
    BY <2>1, ReturnFits DEF CountInv, OthersStay
  <2>5. refCount' \in [Objects -> Nat] /\ link' \in [Objects -> Objects \cup {None}]
    BY <2>1 DEF Incremented, CountInv, TypeOK
  <2>6. TypeOK' /\ bug' # "count"
    BY <1>0, <2>1, <2>4, <2>5 DEF CountInv, TypeOK
  <2>7. /\ IsFiniteSet(Links(o)') /\ Cardinality(Links(o)') = Cardinality(Links(o)) + 1
        /\ \A p \in Objects \ {o} : Links(p)' = Links(p)
    BY <2>1, <2>3, LinkGain DEF CountInv, TypeOK, ObjectFits
  <2>8. ASSUME NEW p \in Objects PROVE ObjectFits(p)'
    <3>1. ObjectFits(p) /\ Held(p)' = Held(p) /\ Handles(p)' = Handles(p)
      BY <2>1 DEF CountInv, Held, Handles
    <3>2. CASE p = o
      <4>1. refCount'[o] = refCount[o] + 1
        BY <2>1 DEF Incremented, CountInv, TypeOK
      <4>2. IsFiniteSet(Handles(o)')
        BY <3>1, <3>2 DEF ObjectFits
      <4>. QED
        BY <2>1, <2>2, <2>7, <3>1, <3>2, <4>1, <4>2, CountUp
    <3>3. CASE p # o
      <4>1. refCount'[p] = refCount[p]
        BY <2>1, <3>3 DEF Incremented, CountInv, TypeOK
      <4>2. link'[p] = link[p] \/ life[p] \in {"live", "freed"}
        BY <2>1, <2>3 DEF CountInv, TypeOK
      <4>. QED
        BY <2>1, <2>7, <3>1, <3>3, <4>1, <4>2, ObjectSame
    <3>. QED
      BY <3>2, <3>3
  <2>9. Elsewhere(t)
    BY <2>1, <2>4 DEF OthersStay, Elsewhere, CountInv, TypeOK
  <2>10. TableStep(t)
    BY <1>0, <2>1, <2>4, Childless, TablesSame DEF Loops
  <2>11. ASSUME NEW p \in Objects
         PROVE  (refCount[p] = 0 => refCount'[p] = 0) /\ (link'[p] = link[p] \/ p = l)
    BY <2>1, <2>2 DEF Incremented, CountInv, TypeOK
  <2>12. ObjectStep(t)
    BY <1>0, <2>1, <2>4, <2>11 DEF ObjectStep, Creating
  <2>. QED
    BY <2>4, <2>6, <2>8, <2>9, <2>10, <2>12, StepKeeps DEF LocalStep
<1>2. CASE ~MayReference(o)
  <2>1. Stops("reference")
    BY <1>2 DEF ReferenceTarget, Checked
  <2>. QED
    BY <2>1, StopKeeps DEF Stops, tableVars
<1>. QED
  BY <1>1, <1>2

LEMMA KeepsRemove ==
    ASSUME CountInv, NEW t \in Threads, ObRemoveObject(t)
    PROVE  CountInv' /\ (LocalStep(t) \/ table' = table)
<1>0. bug = "none" /\ pc[t] = "ObRemoveObject"
  BY DEF ObRemoveObject, At
<1>. PICK o \in Objects : o = object[t]
  BY <1>0 DEF CountInv, ThreadFits, Objecting
<1>1. CASE life[o] = "freed"
  <2>1. Stops("twice")
    BY <1>1 DEF ObRemoveObject
  <2>. QED
    BY <2>1, StopKeeps DEF Stops, tableVars
<1>2. CASE life[o] # "freed"
  <2>1. life[o] = "live" /\ o \notin permanent /\ refCount[o] = 0
    BY <1>0, <1>2 DEF CountInv, ThreadFits
  <2>2. Handles(o) = {}
    <3>1. ~(refCount[o] >= 1)
      BY <2>1
    <3>. QED
      BY <3>1, ReferencedIsLive
  <2>3. handleCount[o] = 0
    BY <2>2 DEF CountInv, ObjectFits
  <2>4. /\ life' = [life EXCEPT ![o] = "freed"] /\ Return(t)
        /\ UNCHANGED <<refCount, handleCount, permanent, link, directory, table, created, holds, bug>>
    BY <1>2, <2>1, <2>3 DEF ObRemoveObject, Checked, tableVars
  <2>5. /\ ThreadFits(t)' /\ TableFits(t)'
        /\ pc' \in [Threads -> Places] /\ object' \in [Threads -> Objects \cup {None}]
        /\ name' \in [Threads -> Names \cup {None}]
        /\ target' \in [Threads -> Objects \cup {None}]
        /\ child' \in [Threads -> Processes \cup {None}]
        /\ slot' \in [Threads -> 0 .. EX_MAX_HANDLE]
        /\ pc'[t] = "run" /\ child'[t] = None /\ OthersStay(t)
    BY <2>4, ReturnFits DEF CountInv, OthersStay
  <2>6. TypeOK' /\ bug' # "count"
    BY <1>0, <2>4, <2>5 DEF CountInv, TypeOK
  <2>7. ASSUME NEW p \in Objects PROVE (life'[p] = life[p]) \/ (p = o /\ life'[p] = "freed")
    BY <2>4 DEF CountInv, TypeOK
  <2>8. ASSUME NEW p \in Objects PROVE ObjectFits(p)'
    <3>1. ObjectFits(p) /\ Held(p)' = Held(p) /\ Handles(p)' = Handles(p) /\ Links(p)' = Links(p)
      BY <2>4 DEF CountInv, Held, Handles, Links
    <3>2. References(p)' = References(p)
      BY <3>1 DEF References
    <3>3. CASE life'[p] = life[p]
      BY <2>4, <3>1, <3>3, ObjectSame
    <3>4. CASE p = o /\ life'[p] = "freed"
      BY <2>1, <2>4, <3>1, <3>2, <3>4 DEF ObjectFits
    <3>. QED
      BY <2>7, <3>3, <3>4
  <2>9. Elsewhere(t)
    BY <2>4, <2>5 DEF OthersStay, Elsewhere, CountInv, TypeOK
  <2>10. TableStep(t)
    BY <1>0, <2>4, <2>5, Childless, TablesSame DEF Loops
  <2>11. ObjectStep(t)
    BY <2>1, <2>4, <2>5, <2>7 DEF ObjectStep, Creating
  <2>. QED
    BY <2>5, <2>6, <2>8, <2>9, <2>10, <2>11, StepKeeps DEF LocalStep
<1>. QED
  BY <1>1, <1>2

-----------------------------------------------------------------------------
(* Handles.                                                                 *)

LEMMA KeepsInsertHandle ==
    ASSUME CountInv, NEW t \in Threads, ObInsertHandle(t)
    PROVE  CountInv' /\ LocalStep(t)
<1>0. /\ bug = "none" /\ pc[t] = "InsertHandle"
      /\ UNCHANGED <<life, refCount, handleCount, permanent, link, directory, created, bug>>
  BY DEF ObInsertHandle, At, objectVars
<1>. PICK o \in Objects : o = object[t]
  BY <1>0 DEF CountInv, ThreadFits, Objecting
<1>. PICK p \in Processes : p = ProcessOf[t]
  BY ObAssumption
<1>1. child[t] = None /\ p \in created /\ holds[t][o] > 0
  BY <1>0, Childless DEF Loops, CountInv, ThreadFits
<1>2. CASE /\ slot[t] \in Slots /\ FreeSlot(table[p][slot[t]])
           /\ table' = [table EXCEPT ![p][slot[t]] = o]
           /\ Loses(t, o) /\ Goto(t, "IncrementHandleCount") /\ UNCHANGED callVars
  <2>. PICK i \in Slots : i = slot[t]
    BY <1>2
  <2>1. /\ pc' = [pc EXCEPT ![t] = "IncrementHandleCount"]
        /\ table' = [table EXCEPT ![p][i] = o] /\ table[p][i] \notin Objects
        /\ UNCHANGED <<object, name, target, child, slot>>
    BY <1>2, ObAssumption DEF Goto, callVars, FreeSlot
  <2>2. /\ table' \in [Processes -> [Slots -> Objects \cup {Invalid, Garbage}]]
        /\ \A q \in Objects \ {o} : Handles(q)' = Handles(q)
        /\ IsFiniteSet(Handles(o)') /\ Cardinality(Handles(o)') = Cardinality(Handles(o)) + 1
        /\ Handles(o)' # {}
        /\ \A q \in Processes, j \in Slots : q # p \/ j # i => table'[q][j] = table[q][j]
    <3>1. /\ table \in [Processes -> [Slots -> Objects \cup {Invalid, Garbage}]]
          /\ IsFiniteSet(Handles(o)) /\ o \in Objects \cup {Invalid, Garbage}
      BY DEF CountInv, TypeOK, ObjectFits
    <3>2. Stored(p, i, o)
      BY <2>1 DEF Stored
    <3>. QED
      BY <2>1, <3>1, <3>2, HandleGain
  <2>3. /\ IsFiniteSet(Held(o)') /\ Cardinality(Held(o)') = Cardinality(Held(o)) - 1
        /\ \A q \in Objects \ {o} : Held(q)' = Held(q)
        /\ holds' \in [Threads -> [Objects -> Nat]]
        /\ \A u \in Threads \ {t}, q \in Objects : holds'[u][q] = holds[u][q]
    BY <1>1, <1>2, HeldLoss DEF CountInv, TypeOK, ObjectFits
  <2>4. TypeOK' /\ bug' # "count"
    BY <1>0, <2>1, <2>2, <2>3 DEF CountInv, TypeOK, Places
  <2>5. pc'[t] = "IncrementHandleCount" /\ object'[t] = o /\ OthersStay(t)
    BY <2>1 DEF OthersStay, CountInv, TypeOK
  <2>6. Elsewhere(t)
    BY <2>3, <2>5 DEF OthersStay, Elsewhere, CountInv, TypeOK
  <2>7. TableStep(t)
    BY <1>0, <1>1, <2>1, <2>2 DEF TableStep
  <2>8. ObjectStep(t)
    BY <1>0, <2>5, ObjectsAlone DEF Creating
  <2>9. ASSUME NEW q \in Objects PROVE ObjectFits(q)'
    <3>1. ObjectFits(q) /\ Links(q)' = Links(q)
      BY <1>0 DEF CountInv, Links
    <3>2. CASE q = o
      <4>1. References(o)' = References(o)
        BY <3>1, <3>2, <2>2, <2>3, CountTypes DEF References
      <4>2. refCount'[o] - refCount[o] = References(o)' - References(o) /\ refCount'[o] \in Nat
        BY <4>1, <1>0, CountTypes
      <4>3. life[o] = "live"
        BY <1>1, HolderReferences
      <4>4. Handles(o) \subseteq Handles(o)'
        BY <2>7, HandlesGrow
      <4>5. IsFiniteSet(Links(o)')
        BY <3>1, <3>2 DEF ObjectFits
      <4>. QED
        BY <1>0, <2>2, <2>3, <3>2, <4>2, <4>3, <4>4, <4>5, CountMoves
    <3>3. CASE q # o
      BY <1>0, <2>2, <2>3, <3>1, <3>3, ObjectSame
    <3>. QED
      BY <3>2, <3>3
  <2>10. ThreadFits(t)'
    BY <1>0, <1>1, <2>2, <2>5 DEF ThreadFits, Creating, Handles
  <2>11. TableFits(t)'
    BY <1>1, <2>1, <2>5 DEF TableFits, Loops
  <2>. QED
    BY <2>4, <2>6, <2>7, <2>8, <2>9, <2>10, <2>11, StepKeeps DEF LocalStep
<1>3. CASE /\ slot[t] \in Slots /\ slot' = [slot EXCEPT ![t] = @ + 1]
           /\ UNCHANGED <<table, holds, pc, object, name, target, child>>
  <2>1. slot' \in [Threads -> 0 .. EX_MAX_HANDLE]
    <3>1. slot[t] + 1 \in 0 .. EX_MAX_HANDLE
      BY <1>3, ObAssumption DEF Slots
    <3>. QED
      BY <3>1, <1>3 DEF CountInv, TypeOK
  <2>2. TypeOK' /\ bug' # "count"
    BY <1>0, <1>3, <2>1 DEF CountInv, TypeOK
  <2>3. OthersStay(t)
    BY <1>3 DEF OthersStay, CountInv, TypeOK
  <2>4. TableStep(t)
    BY <1>0, <1>3, TablesSame
  <2>5. ThreadFits(t)'
    BY <1>0, <1>3 DEF CountInv, ThreadFits, Creating
  <2>6. TableFits(t)'
    BY <1>0, <1>1, <1>3 DEF TableFits, Loops
  <2>7. pc'[t] \notin Creating
    BY <1>0, <1>3 DEF Creating
  <2>. QED
    BY <1>0, <1>3, <2>2, <2>3, <2>4, <2>5, <2>6, <2>7, MoveKeeps
<1>4. CASE Return(t) /\ UNCHANGED <<table, holds>>
  BY <1>0, <1>4, ReturnKeeps DEF Loops, objectVars, tableVars
<1>. QED
  BY <1>2, <1>3, <1>4 DEF ObInsertHandle

LEMMA KeepsIncrementHandleCount ==
    ASSUME CountInv, NEW t \in Threads, ObIncrementHandleCount(t)
    PROVE  CountInv' /\ LocalStep(t)
<1>0. bug = "none" /\ pc[t] = "IncrementHandleCount"
  BY DEF ObIncrementHandleCount, At
<1>. PICK o \in Objects : o = object[t]
  BY <1>0 DEF CountInv, ThreadFits, Objecting
<1>1. Handles(o) # {}
  BY <1>0 DEF CountInv, ThreadFits
<1>2. life[o] = "live" /\ refCount[o] >= 1 /\ refCount[o] \in Nat
  BY <1>1, ReferencedIsLive DEF CountInv, TypeOK
<1>3. /\ handleCount' = [handleCount EXCEPT ![o] = @ + 1] /\ Return(t)
      /\ UNCHANGED <<life, refCount, permanent, link, directory, table, created, holds, bug>>
  <2>1. refCount[o] > 0
    BY <1>2
  <2>. QED
    BY <2>1 DEF ObIncrementHandleCount, Checked, tableVars
<1>4. /\ ThreadFits(t)' /\ TableFits(t)'
      /\ pc' \in [Threads -> Places] /\ object' \in [Threads -> Objects \cup {None}]
      /\ name' \in [Threads -> Names \cup {None}]
      /\ target' \in [Threads -> Objects \cup {None}]
      /\ child' \in [Threads -> Processes \cup {None}]
      /\ slot' \in [Threads -> 0 .. EX_MAX_HANDLE]
      /\ pc'[t] = "run" /\ child'[t] = None /\ OthersStay(t)
  BY <1>3, ReturnFits DEF CountInv, OthersStay
<1>5. handleCount' \in [Objects -> Nat]
  BY <1>3 DEF CountInv, TypeOK
<1>6. TypeOK' /\ bug' # "count"
  BY <1>0, <1>3, <1>4, <1>5 DEF CountInv, TypeOK
<1>7. ASSUME NEW p \in Objects PROVE ObjectFits(p)'
  <2>1. ObjectFits(p) /\ Held(p)' = Held(p) /\ Handles(p)' = Handles(p) /\ Links(p)' = Links(p)
    BY <1>3 DEF CountInv, Held, Handles, Links
  <2>2. References(p)' = References(p)
    BY <2>1 DEF References
  <2>3. CASE p = o
    BY <1>1, <1>2, <1>3, <2>1, <2>2, <2>3 DEF ObjectFits
  <2>4. CASE p # o
    <3>1. handleCount'[p] = handleCount[p]
      BY <1>3, <2>4 DEF CountInv, TypeOK
    <3>. QED
      BY <1>3, <2>1, <3>1, ObjectSame
  <2>. QED
    BY <2>3, <2>4
<1>8. Elsewhere(t)
  BY <1>3, <1>4 DEF OthersStay, Elsewhere, CountInv, TypeOK
<1>9. TableStep(t)
  BY <1>0, <1>3, <1>4, Childless, TablesSame DEF Loops
<1>10. ObjectStep(t)
  BY <1>3, <1>4, ObjectsAlone DEF Creating
<1>. QED
  BY <1>4, <1>6, <1>7, <1>8, <1>9, <1>10, StepKeeps DEF LocalStep

-----------------------------------------------------------------------------
(* Handle tables of new processes.                                          *)

LEMMA KeepsAllocateHandleTable ==
    ASSUME CountInv, NEW t \in Threads, NEW c \in Processes, NEW loop \in Loops,
           ObAllocateHandleTable(t, c, loop)
    PROVE  CountInv' /\ LocalStep(t)
<1>1. /\ bug = "none" /\ pc[t] = "run" /\ ProcessOf[t] \in created
      /\ c \notin created /\ \A u \in Threads : child[u] # c
      /\ child' = [child EXCEPT ![t] = c] /\ pc' = [pc EXCEPT ![t] = loop]
      /\ slot' = [slot EXCEPT ![t] = 0]
      /\ UNCHANGED <<life, refCount, handleCount, permanent, link, directory, table, created, holds,
                     object, name, target, bug>>
  BY DEF ObAllocateHandleTable, Runs, At, Goto, objectVars, tableVars
<1>2. TypeOK' /\ bug' # "count"
  BY <1>1, ObAssumption DEF CountInv, TypeOK, Places, Loops
<1>3. pc'[t] = loop /\ child'[t] = c /\ slot'[t] = 0 /\ OthersStay(t)
  BY <1>1 DEF OthersStay, CountInv, TypeOK
<1>4. child[t] = None
  BY <1>1, Childless DEF Loops
<1>5. TableStep(t)
  BY <1>1, <1>3, <1>4 DEF TableStep
<1>6. ThreadFits(t)'
  BY <1>1, <1>3 DEF ThreadFits, Creating, Objecting, Loops
<1>7. TableFits(t)'
  <2>1. \A i \in Slots : table[c][i] = Invalid
    BY <1>1 DEF CountInv, Untouched
  <2>2. c # None
    BY ObAssumption
  <2>3. \A u \in Threads \ {t} : child'[u] # c
    BY <1>1, <1>3 DEF OthersStay
  <2>. QED
    BY <1>1, <1>3, <2>1, <2>2, <2>3 DEF TableFits
<1>8. pc'[t] \notin Creating
  BY <1>3 DEF Creating, Loops
<1>. QED
  BY <1>1, <1>2, <1>3, <1>5, <1>6, <1>7, <1>8, MoveKeeps

\* The loop stores entry e, and the count of the object it names goes up.
LEMMA KeepsCopySlot ==
    ASSUME CountInv, NEW t \in Threads, bug = "none", pc[t] \in Loops, slot[t] \in Slots,
           NEW e \in Objects \cup {Invalid, Garbage}, NEW count, CopySlot(t, e, count),
           e \in Objects => life[e] = "live" /\ refCount[e] # 0 /\ count = Incremented(e),
           e \notin Objects => count = refCount
    PROVE  CountInv' /\ LocalStep(t)
<1>. PICK i \in Slots : i = slot[t]
  OBVIOUS
<1>0. child[t] # None /\ ProcessOf[t] \in created
  BY DEF CountInv, TableFits, ThreadFits, Loops
<1>. PICK c \in Processes : c = child[t]
  BY <1>0 DEF CountInv, TypeOK
<1>1. /\ table' = [table EXCEPT ![c][i] = e] /\ refCount' = count /\ slot' = [slot EXCEPT ![t] = i + 1]
      /\ UNCHANGED <<life, handleCount, permanent, link, directory, created, holds, pc,
                     object, name, target, child, bug>>
  BY DEF CopySlot
<1>2. /\ c \notin created /\ (\A u \in Threads \ {t} : child[u] # c)
      /\ \A j \in Slots : j >= i => table[c][j] = Invalid
  BY <1>0 DEF CountInv, TableFits
<1>3. i \in Nat /\ i + 1 \in 0 .. EX_MAX_HANDLE /\ i >= i
  BY ObAssumption DEF Slots
<1>4. table[c][i] = Invalid /\ table[c][i] \notin Objects
  BY <1>2, <1>3, ObAssumption
<1>5. /\ table' \in [Processes -> [Slots -> Objects \cup {Invalid, Garbage}]]
      /\ \A o \in Objects \ {e} : Handles(o)' = Handles(o)
      /\ e \in Objects =>
            IsFiniteSet(Handles(e)') /\ Cardinality(Handles(e)') = Cardinality(Handles(e)) + 1
      /\ \A q \in Processes, j \in Slots : q # c \/ j # i => table'[q][j] = table[q][j]
  <2>1. /\ table \in [Processes -> [Slots -> Objects \cup {Invalid, Garbage}]]
        /\ e \in Objects => IsFiniteSet(Handles(e))
    BY DEF CountInv, TypeOK, ObjectFits
  <2>2. Stored(c, i, e)
    BY <1>1 DEF Stored
  <2>. QED
    BY <1>4, <2>1, <2>2, HandleGain
<1>6. /\ refCount' \in [Objects -> Nat]
      /\ \A o \in Objects \ {e} : refCount'[o] = refCount[o]
      /\ e \in Objects => refCount'[e] = refCount[e] + 1
  <2>1. CASE e \in Objects
    <3>1. refCount' = [refCount EXCEPT ![e] = @ + 1] /\ refCount \in [Objects -> Nat]
      BY <1>1, <2>1 DEF Incremented, CountInv, TypeOK
    <3>. QED
      BY <2>1, <3>1
  <2>2. CASE e \notin Objects
    BY <1>1, <2>2 DEF CountInv, TypeOK
  <2>. QED
    BY <2>1, <2>2
<1>7. slot' \in [Threads -> 0 .. EX_MAX_HANDLE] /\ slot'[t] = i + 1
  BY <1>1, <1>3 DEF CountInv, TypeOK
<1>8. TypeOK' /\ bug' # "count"
  BY <1>1, <1>5, <1>6, <1>7 DEF CountInv, TypeOK
<1>9. OthersStay(t)
  BY <1>1 DEF OthersStay, CountInv, TypeOK
<1>10. Elsewhere(t)
  BY <1>1, <1>9 DEF OthersStay, Elsewhere, CountInv, TypeOK
<1>11. TableStep(t)
  BY <1>1, <1>4, <1>5 DEF TableStep
<1>12. ObjectStep(t)
  BY <1>1, <1>6 DEF ObjectStep, Creating, Loops
<1>13. ASSUME NEW o \in Objects PROVE ObjectFits(o)'
  <2>1. ObjectFits(o) /\ Held(o)' = Held(o) /\ Links(o)' = Links(o)
    BY <1>1 DEF CountInv, Held, Links
  <2>2. CASE o = e
    <3>1. IsFiniteSet(Links(o)')
      BY <2>1 DEF ObjectFits
    <3>2. Handles(o) \subseteq Handles(o)'
      BY <1>11, HandlesGrow
    <3>. QED
      BY <1>1, <1>5, <1>6, <2>1, <2>2, <3>1, <3>2, CountUp
  <2>3. CASE o # e
    BY <1>1, <1>5, <1>6, <2>1, <2>3, ObjectSame
  <2>. QED
    BY <2>2, <2>3
<1>14. ThreadFits(t)'
  BY <1>0, <1>1 DEF ThreadFits, Creating, Objecting, Loops
<1>15. TableFits(t)'
  <2>1. ASSUME NEW j \in Slots, j >= i + 1 PROVE table'[c][j] = Invalid
    <3>1. j \in Nat /\ j # i /\ j >= i
      BY <2>1, <1>3 DEF Slots
    <3>. QED
      BY <3>1, <1>2, <1>5
  <2>. QED
    BY <1>0, <1>1, <1>2, <1>7, <2>1 DEF TableFits
<1>. QED
  BY <1>8, <1>10, <1>11, <1>12, <1>13, <1>14, <1>15, StepKeeps DEF LocalStep

LEMMA KeepsInheritHandle ==
    ASSUME CountInv, NEW t \in Threads, InheritHandle(t)
    PROVE  CountInv' /\ (LocalStep(t) \/ table' = table)
<1>. PICK o : o = table[System][slot[t]]
  OBVIOUS
<1>0. bug = "none" /\ pc[t] \in Loops /\ slot[t] \in Slots
  BY DEF InheritHandle, Loops
<1>1. \/ o \in Objects /\ Checked(MayReference(o), "reference", CopySlot(t, o, Inherited(o)))
      \/ CopySlot(t, Invalid, refCount)
      \/ \E e \in {Invalid, Garbage} : CopySlot(t, e, refCount)
  BY DEF InheritHandle
<1>2. CASE o \in Objects /\ MayReference(o) /\ CopySlot(t, o, Inherited(o))
  <2>1. life[o] = "live" /\ refCount[o] # 0
    BY <1>2 DEF MayReference, CountInv, ObjectFits
  <2>2. o \in Objects \cup {Invalid, Garbage} /\ Inherited(o) = Incremented(o)
    BY <1>2 DEF Inherited
  <2>3. CopySlot(t, o, Incremented(o))
    BY <1>2 DEF Inherited
  <2>. QED
    BY <1>0, <1>2, <2>1, <2>2, <2>3, KeepsCopySlot
<1>3. CASE Stops("reference")
  BY <1>3, StopKeeps DEF Stops, tableVars
<1>4. CASE \E e \in {Invalid, Garbage} : CopySlot(t, e, refCount)
  <2>1. PICK e \in {Invalid, Garbage} : CopySlot(t, e, refCount)
    BY <1>4
  <2>2. e \notin Objects /\ e \in Objects \cup {Invalid, Garbage}
    BY ObAssumption
  <2>. QED
    BY <1>0, <2>1, <2>2, KeepsCopySlot
<1>. QED
  BY <1>1, <1>2, <1>3, <1>4 DEF Checked

LEMMA KeepsTableComplete ==
    ASSUME CountInv, NEW t \in Threads, TableComplete(t)
    PROVE  CountInv' /\ LocalStep(t)
<1>1. /\ bug = "none" /\ pc[t] \in Loops /\ created' = created \cup {child[t]} /\ Return(t)
      /\ UNCHANGED <<life, refCount, handleCount, permanent, link, directory, table, holds, bug>>
  BY DEF TableComplete, Loops, objectVars
<1>2. child[t] \in Processes
  BY <1>1 DEF CountInv, TableFits, TypeOK
<1>3. TypeOK' /\ bug' # "count"
  BY <1>1, <1>2, ReturnFits DEF CountInv, TypeOK
<1>4. OthersStay(t) /\ ThreadFits(t)' /\ TableFits(t)' /\ pc'[t] = "run" /\ child'[t] = None
  BY <1>1, ReturnFits DEF OthersStay, CountInv
<1>5. TableStep(t)
  BY <1>1, <1>4 DEF TableStep
<1>6. pc'[t] \notin Creating
  BY <1>4 DEF Creating
<1>. QED
  BY <1>1, <1>3, <1>4, <1>5, <1>6, MoveKeeps

-----------------------------------------------------------------------------
(* The theorems.                                                            *)

LEMMA CountInit == Init => CountInv
<1>. SUFFICES ASSUME Init PROVE CountInv
  OBVIOUS
<1>1. /\ life = [o \in Objects |-> "none"] /\ refCount = [o \in Objects |-> 0]
      /\ handleCount = [o \in Objects |-> 0] /\ permanent = {} /\ directory = <<>>
      /\ link = [o \in Objects |-> None] /\ table = [p \in Processes |-> [i \in Slots |-> Invalid]]
      /\ created = {System} /\ holds = [t \in Threads |-> [o \in Objects |-> 0]]
      /\ pc = [t \in Threads |-> "run"] /\ object = [t \in Threads |-> None]
      /\ name = [t \in Threads |-> None] /\ target = [t \in Threads |-> None]
      /\ child = [t \in Threads |-> None] /\ slot = [t \in Threads |-> 0] /\ bug = "none"
  BY DEF Init
<1>2. TypeOK
  <2>1. directory \in Seq([name : Names, object : Objects])
    BY <1>1
  <2>2. table \in [Processes -> [Slots -> Objects \cup {Invalid, Garbage}]]
    BY <1>1
  <2>3. slot \in [Threads -> 0 .. EX_MAX_HANDLE] /\ created \subseteq Processes
    BY <1>1, ObAssumption
  <2>. QED
    BY <1>1, <2>1, <2>2, <2>3 DEF TypeOK, Places
<1>3. ASSUME NEW o \in Objects PROVE ObjectFits(o)
  <2>1. Held(o) = {}
    <3>1. \A t \in Threads : holds[t][o] = 0
      BY <1>1
    <3>2. \A t \in Threads : 1 .. holds[t][o] = {}
      BY <3>1
    <3>. QED
      BY <3>2 DEF Held
  <2>2. Handles(o) = {}
    <3>1. \A p \in Processes, i \in Slots : table[p][i] # o
      BY <1>1, ObAssumption
    <3>. QED
      BY <3>1 DEF Handles
  <2>3. Links(o) = {}
    BY <1>1, ObAssumption DEF Links
  <2>4. References(o) = 0
    BY <2>1, <2>2, <2>3, FS_EmptySet DEF References
  <2>. QED
    BY <1>1, <2>1, <2>2, <2>3, <2>4, FS_EmptySet DEF ObjectFits
<1>4. ASSUME NEW t \in Threads PROVE ThreadFits(t) /\ TableFits(t)
  BY <1>1 DEF ThreadFits, TableFits, Objecting, Creating, Loops
<1>5. ASSUME NEW p \in Processes PROVE Untouched(p)
  BY <1>1 DEF Untouched
<1>. QED
  BY <1>1, <1>2, <1>3, <1>4, <1>5 DEF CountInv

\* A step keeps the invariant and, as it is a thread's or stops the machine,
\* every handle.
LEMMA CountNext ==
    ASSUME CountInv, Next
    PROVE  CountInv' /\ ((\E t \in Threads : TableStep(t)) \/ table' = table)
<1>1. PICK t \in Threads :
        \/ \E u \in Threads, o \in Objects : ObReferenceObject(t, u, o)
        \/ \E o \in Objects :
              ObDereferenceObject(t, o) \/ CreateUnnamed(t, o) \/ ObInsertObject(t, o)
        \/ CheckCount(t) \/ ObRemoveObject(t) \/ CreateLinkFails(t)
        \/ \E n \in Names : LookupTarget(t, n)
        \/ \E o \in Objects, n \in Names : ObCreateObject(t, o, n) \/ CreateLink(t, o, n)
        \/ LookupAgain(t) \/ ObpInsertEntryDirectory(t) \/ Initialise(t) \/ ReferenceTarget(t)
        \/ ObInsertHandle(t) \/ ObIncrementHandleCount(t)
        \/ \E i \in Slots : ObReferenceObjectByHandle(t, i) \/ ObClose(t, i)
        \/ ObReferenceObjectByPointer(t)
        \/ \E c \in Processes, loop \in Loops : ObAllocateHandleTable(t, c, loop)
        \/ InheritHandle(t) \/ TableComplete(t)
  BY DEF Next, Loops
<1>2. CASE \E u \in Threads, o \in Objects : ObReferenceObject(t, u, o)
  BY <1>2, KeepsReference DEF LocalStep
<1>3. CASE \E o \in Objects :
              ObDereferenceObject(t, o) \/ CreateUnnamed(t, o) \/ ObInsertObject(t, o)
  BY <1>3, KeepsDereference, KeepsCreateUnnamed, KeepsInsertObject DEF LocalStep
<1>4. CASE CheckCount(t) \/ ObRemoveObject(t) \/ CreateLinkFails(t)
  BY <1>4, KeepsCheckCount, KeepsRemove, KeepsCreateLinkFails DEF LocalStep
<1>5. CASE \E n \in Names : LookupTarget(t, n)
  BY <1>5, KeepsLookupTarget DEF LocalStep
<1>6. CASE \E o \in Objects, n \in Names : ObCreateObject(t, o, n) \/ CreateLink(t, o, n)
  BY <1>6, KeepsCreateObject DEF LocalStep
<1>7. CASE LookupAgain(t) \/ ObpInsertEntryDirectory(t) \/ Initialise(t) \/ ReferenceTarget(t)
  BY <1>7, KeepsLookupAgain, KeepsInsertEntry, KeepsInitialise, KeepsReferenceTarget DEF LocalStep
<1>8. CASE ObInsertHandle(t) \/ ObIncrementHandleCount(t)
  BY <1>8, KeepsInsertHandle, KeepsIncrementHandleCount DEF LocalStep
<1>9. CASE \E i \in Slots : ObReferenceObjectByHandle(t, i) \/ ObClose(t, i)
  <2>1. CASE \E i \in Slots : ObReferenceObjectByHandle(t, i)
    BY <2>1, KeepsByHandle DEF LocalStep
  <2>2. CASE \E i \in Slots : ObClose(t, i)
    <3>1. Stops("type")
      BY <2>2 DEF ObClose
    <3>. QED
      BY <3>1, StopKeeps DEF Stops, tableVars
  <2>. QED
    BY <1>9, <2>1, <2>2
<1>10. CASE ObReferenceObjectByPointer(t)
  BY <1>10, KeepsByPointer DEF LocalStep
<1>11. CASE \E c \in Processes, loop \in Loops : ObAllocateHandleTable(t, c, loop)
  BY <1>11, KeepsAllocateHandleTable DEF LocalStep
<1>12. CASE InheritHandle(t) \/ TableComplete(t)
  BY <1>12, KeepsInheritHandle, KeepsTableComplete DEF LocalStep
<1>. QED
  BY <1>1, <1>2, <1>3, <1>4, <1>5, <1>6, <1>7, <1>8, <1>9, <1>10, <1>11, <1>12

LEMMA CountStutter == CountInv /\ UNCHANGED vars => CountInv'
<1>. SUFFICES ASSUME CountInv, UNCHANGED vars PROVE CountInv'
  OBVIOUS
<1>1. bug' = bug /\ Stops(bug)
  BY DEF vars, Stops
<1>2. UNCHANGED <<life, refCount, handleCount, permanent, link, directory, table, created, holds, pc,
                  object, name, target, child, slot, bug>>
  BY DEF vars, objectVars, tableVars, callVars
<1>3. TypeOK'
  BY <1>2 DEF CountInv, TypeOK
<1>4. \A o \in Objects : ObjectFits(o)'
  BY <1>2, ObjectsSame DEF objectVars
<1>5. ASSUME NEW t \in Threads PROVE ThreadFits(t)' /\ TableFits(t)'
  BY <1>2 DEF CountInv, ThreadFits, TableFits, Handles
<1>6. \A p \in Processes : Untouched(p)'
  BY <1>2 DEF CountInv, Untouched
<1>. QED
  BY <1>2, <1>3, <1>4, <1>5, <1>6 DEF CountInv

LEMMA CountInvariant == Spec => []CountInv
<1>1. CountInv /\ [Next]_vars => CountInv'
  BY CountNext, CountStutter
<1>. QED
  BY CountInit, <1>1, PTL DEF Spec

\* RefCount is the number of references that threads, handles and symbolic
\* links have to an object, at every point where another thread can run, and no
\* ASSERT of ob_core.c about a count fails, as long as callers release only what
\* they own.
THEOREM ReferencesAreCounted == Spec => []CountsExact
<1>1. CountInv => CountsExact
  BY DEF CountInv, CountsExact, RefCountExact, CountAssertsHold, ObjectFits
<1>. QED
  BY <1>1, CountInvariant, PTL

\* ObRemoveObject frees no object that a thread, a handle or a symbolic link
\* still refers to, and no permanent object, although the count is read again
\* after the interlocked decrement.
THEOREM NothingReferencedIsRemoved == Spec => []RemovedUnreferenced
<1>1. CountInv => RemovedUnreferenced
  <2>. SUFFICES ASSUME CountInv, NEW o \in Objects, life[o] = "freed"
                PROVE  References(o) = 0 /\ o \notin permanent
    BY DEF RemovedUnreferenced
  <2>1. life[o] # "live"
    OBVIOUS
  <2>. QED
    BY <2>1, UnreferencedIsEmpty
<1>. QED
  BY <1>1, CountInvariant, PTL

\* A handle names the same object for ever: ObInsertHandle and the loops of
\* ObAllocateHandleTable store only where there is no handle.
THEOREM HandlesAreStable == Spec => HandlesStable
<1>1. CountInv /\ [Next]_vars =>
        [\A p \in created, i \in Slots : table[p][i] \in Objects => table'[p][i] = table[p][i]]_vars
  <2>. SUFFICES ASSUME CountInv, Next, NEW p \in created, NEW i \in Slots, table[p][i] \in Objects
                PROVE  table'[p][i] = table[p][i]
    OBVIOUS
  <2>1. p \in Processes
    BY DEF CountInv, TypeOK
  <2>2. (\E t \in Threads : TableStep(t)) \/ table' = table
    BY CountNext
  <2>. QED
    BY <2>1, <2>2 DEF TableStep
<1>. QED
  BY <1>1, CountInvariant, PTL DEF Spec, HandlesStable

=============================================================================
