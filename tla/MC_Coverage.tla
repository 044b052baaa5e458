----------------------------- MODULE MC_Coverage -----------------------------
(* Program counters for TLC: branch addresses whose edge hashes fall on    *)
(* different bytes of an 8-byte map, and the top of the register range,   *)
(* where pc << 8 wraps.  TLC's integers stop at 2^31, so the register is  *)
(* 20 bits wide here; the hash only keeps bits below the map length, which *)
(* the wrap of the high bits does not reach.                              *)
EXTENDS Coverage

MCPCs == {256, 272, 304, 2^20 - 1}

=============================================================================
