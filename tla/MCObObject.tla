----------------------------- MODULE MCObObject -----------------------------
(* Instances of ObObject for TLC: threads of the system process and, in some, *)
(* one of a process that inherits its handles.                                *)
EXTENDS ObObject

CONSTANT Children  \* the threads of the other process

MCProcessOf ==
    [t \in Threads |-> IF t \in Children THEN CHOOSE p \in Processes : p # System ELSE System]
=============================================================================
