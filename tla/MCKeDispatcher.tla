--------------------------- MODULE MCKeDispatcher ---------------------------
(* Small instances of KeDispatcher: the first system thread, the idle thread *)
(* and the workers of the configuration, all at the priority their process   *)
(* gives them.                                                               *)
EXTENDS KeDispatcher

MCPriority == [t \in Threads |-> IF t = Idle THEN PROCESS_PRIORITY_IDLE ELSE PROCESS_PRIORITY_NORMAL]
MCCount == [s \in Semaphores |-> 1]
MCLimit == [s \in Semaphores |-> 1]

\* PspAllocateThread passes one argument to KeInitDispatcherHeader; the type and
\* the signal state are whatever the stack held.
MCHeaderGood == {<<"ThreadObject", 0>>}
MCHeaderAny == {<<"ThreadObject", 0>>, <<"ThreadObject", 1>>, <<"ThreadObject", -1>>,
                <<"ThreadObject", MaxSignal>>, <<"other", 0>>}
=============================================================================
