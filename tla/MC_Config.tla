------------------------------ MODULE MC_Config ------------------------------
(* Two faults and two shared-memory handles, as model values.              *)
EXTENDS Config

CONSTANTS Triple, GP, Shm1, Shm2

MCFault == {Triple, GP}
MCHandles == {Shm1, Shm2}

=============================================================================
