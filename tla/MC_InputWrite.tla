---------------------------- MODULE MC_InputWrite ----------------------------
(* TLC's inputs: bytes 1 and 2 over a canary of 7, so both the data and   *)
(* the zero padding differ from untouched memory.                         *)
EXTENDS InputWrite

=============================================================================
