SPECIFICATION Spec
CONSTANTS
    Threads = {t, u}
    Children = {}
    Processes = {sys, child}
    System = sys
    ProcessOf <- MCProcessOf
    Objects = {a, b}
    Names = {m, n}
    Permanent = {n}
    Inheritable = {a}
    EX_MAX_HANDLE = 1
    MaxRefs = 2
    Invalid = invalid
    Garbage = garbage
    None = none
INVARIANTS
    CountsExact
    RemovedUnreferenced
PROPERTIES
    HandlesStable
CHECK_DEADLOCK FALSE
