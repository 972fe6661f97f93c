----------------------------- MODULE FileStore -----------------------------
(***************************************************************************)
(* What a file system promises its callers, with no sectors, clusters or   *)
(* caches: a path names nothing, a directory or a file, which is a         *)
(* sequence of bytes; a handle is a path and a position.                   *)
(*                                                                         *)
(* A call says, when it starts, which paths it may change, and takes       *)
(* effect when it returns.  A power failure spares every path that was     *)
(* synced and that the call in progress may not change; between calls it   *)
(* spares all that was synced.  A call that would not fit is refused and   *)
(* changes nothing a caller can see, except that a write or a seek may     *)
(* stop short.                                                             *)
(***************************************************************************)
EXTENDS Integers, Sequences, SequencesExt

CONSTANTS Paths, Handles, Amounts, Payload(_, _), HoleByte

VARIABLES
    content,    \* what each path names
    handle,     \* the open handles
    got,        \* the bytes the last read delivered
    dirty,      \* the files changed since they were last synced
    changing,     \* the paths the call in progress may change
    up

svars == <<content, handle, got, dirty, changing, up>>

Nothing == [kind |-> "none", data |-> <<>>]
Directory == [kind |-> "dir", data |-> <<>>]
File(d) == [kind |-> "file", data |-> d]

Shut == [open |-> FALSE]
At(p, o) == [open |-> TRUE, path |-> p, off |-> o]

Data(h) == content[handle[h].path].data

\* A call that may change the paths of T returns, the handle being open; afterwards none is in progress
Returns(T) == up /\ changing = T /\ changing' = {} /\ up' = up
Opened(h) == handle[h].open

SInit ==
    /\ content = [p \in Paths |-> Nothing]
    /\ handle = [h \in Handles |-> Shut]
    /\ got = <<>> /\ dirty = {} /\ changing = {} /\ up = TRUE

\* A call starts that may change the paths of T
Begin(T) ==
    /\ up /\ changing = {} /\ changing' = T
    /\ UNCHANGED <<content, handle, got, dirty, up>>

Refuse == Returns(changing) /\ got' = <<>> /\ UNCHANGED <<content, handle, dirty>>

Open(h, p) ==
    /\ Returns({p}) /\ ~Opened(h)
    /\ \/ content[p].kind = "file" /\ UNCHANGED <<content, dirty>>
       \/ /\ content[p].kind # "dir"
          /\ \E q \in Paths \cup {<<>>} : q = Front(p) /\ (q # <<>> => content[q].kind = "dir")
          /\ content' = [content EXCEPT ![p] = File(<<>>)]
          /\ dirty' = dirty \cup {p}
    /\ handle' = [handle EXCEPT ![h] = At(p, 0)]
    /\ got' = <<>>

Read(h, n) ==
    /\ Returns({}) /\ Opened(h)
    /\ LET o == handle[h].off
           k == IF n < Len(Data(h)) - o THEN n ELSE Len(Data(h)) - o
       IN /\ got' = SubSeq(Data(h), o + 1, o + k)
          /\ handle' = [handle EXCEPT ![h].off = o + k]
    /\ UNCHANGED <<content, dirty>>

\* k of the n bytes fitted
Write(h, n) ==
    /\ Opened(h) /\ Returns({handle[h].path})
    /\ \E k \in 0 .. n :
        LET o == handle[h].off
            d == Data(h)
            m == IF o + k > Len(d) THEN o + k ELSE Len(d)
        IN /\ content' = [content EXCEPT ![handle[h].path] =
                File([j \in 1 .. m |-> IF j \in o + 1 .. o + k THEN Payload(h, j - 1) ELSE d[j]])]
           /\ handle' = [handle EXCEPT ![h].off = o + k]
    /\ dirty' = dirty \cup {handle[h].path}
    /\ got' = <<>>

\* A seek inside the file lands where it was told; one behind its end stretches the file or stops short
Seek(h, ofs) ==
    /\ Opened(h) /\ Returns({handle[h].path})
    /\ LET d == Data(h)
       IN \/ /\ \E o \in {ofs, Len(d)} : o <= Len(d) /\ o <= ofs /\ handle' = [handle EXCEPT ![h].off = o]
             /\ UNCHANGED <<content, dirty>>
          \/ \E o \in Len(d) + 1 .. ofs :
                /\ handle' = [handle EXCEPT ![h].off = o]
                /\ content' = [content EXCEPT ![handle[h].path] =
                        File([j \in 1 .. o |-> IF j <= Len(d) THEN d[j] ELSE HoleByte])]
                /\ dirty' = dirty \cup {handle[h].path}
    /\ got' = <<>>

Truncate(h) ==
    /\ Opened(h) /\ Returns({handle[h].path})
    /\ content' = [content EXCEPT ![handle[h].path] = File(SubSeq(@.data, 1, handle[h].off))]
    /\ dirty' = dirty \cup {handle[h].path}
    /\ got' = <<>> /\ UNCHANGED handle

\* Only the path this handle holds becomes clean
Sync(h) ==
    /\ Returns({}) /\ Opened(h)
    /\ dirty' \in {dirty, dirty \ {handle[h].path}}
    /\ handle' \in {handle, [handle EXCEPT ![h] = Shut]}
    /\ got' = <<>> /\ UNCHANGED content

Children(p) == {q \in Paths : IsStrictPrefix(p, q)}

Unlink(p) ==
    /\ Returns({p}) /\ \A q \in Children(p) : content[q] = Nothing
    /\ content' = [content EXCEPT ![p] = Nothing]
    /\ got' = <<>> /\ UNCHANGED <<handle, dirty>>

Mkdir(p) ==
    /\ Returns({p}) /\ content[p] = Nothing
    /\ content' = [content EXCEPT ![p] = Directory]
    /\ got' = <<>> /\ UNCHANGED <<handle, dirty>>

\* The whole subtree moves
Moved(p, old, new) == old \o SubSeq(p, Len(new) + 1, Len(p))
Rename(old, new) ==
    /\ Returns({old, new}) /\ content[old] # Nothing /\ content[new] = Nothing
    /\ content' = [p \in Paths |->
            IF IsPrefix(old, p) THEN Nothing
            ELSE IF IsPrefix(new, p) THEN (IF Moved(p, old, new) \in Paths THEN content[Moved(p, old, new)] ELSE Nothing)
            ELSE content[p]]
    /\ got' = <<>> /\ UNCHANGED <<handle, dirty>>

\* The power fails in a call or between calls.  What was there, clean and not below a path the call may
\* change is still there to the last byte; what was not there has not appeared, unless the call was
\* filling the same directory.
Crash ==
    /\ up /\ up' = FALSE
    /\ \A p \in Paths \ dirty :
        \/ content'[p] = content[p]
        \/ content[p] # Nothing /\ \E t \in changing : IsPrefix(t, p)
        \/ content[p] = Nothing /\ \E t \in changing : IsPrefix(Front(t), p)
    /\ handle' = [h \in Handles |-> Shut]
    /\ got' = <<>> /\ dirty' = {} /\ changing' = {}

SNext ==
    \/ Refuse
    \/ \E h \in Handles, p \in Paths : Open(h, p)
    \/ \E h \in Handles : Truncate(h) \/ Sync(h)
    \/ \E h \in Handles, n \in Amounts : Read(h, n) \/ Write(h, n) \/ Seek(h, n)
    \/ \E p \in Paths : Unlink(p) \/ Mkdir(p)
    \/ \E p, q \in Paths : Begin({p, q}) \/ Rename(p, q)
    \/ Crash

SSpec == SInit /\ [][SNext]_svars
=============================================================================
