------------------------------- MODULE MCIde -------------------------------
(* Model checking of Ide.                                                   *)
EXTENDS Ide

Places2 == {<<0, 0>>, <<0, 1>>, <<1, 0>>}
============================================================================
