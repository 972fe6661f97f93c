------------------------------ MODULE MCMmPool ------------------------------
(* Instances of MmPool for TLC, with the constants of the code.             *)
EXTENDS MmPool

MCHeader == 28
MCPad == 56
MCMinFree == 512
MCWord == 65536   \* stands for 2^32: larger than any pool in the runs

\* With the padding, the rounding and the header, 16 bytes take 100 and 116
\* bytes take 200: requests in units of 100.
MCUnits == {16, 116}

\* 100 bytes become a block of 156; 96 bytes need 152.
MCNear == {96, 100}
=============================================================================
