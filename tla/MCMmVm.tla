------------------------------- MODULE MCMmVm -------------------------------
(* Instances of MmVm for TLC: one program that may be started, and one      *)
(* process it can be cloned into (or the other way round once it is gone).  *)
EXTENDS MmVm
=============================================================================
