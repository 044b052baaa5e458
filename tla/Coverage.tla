------------------------------ MODULE Coverage ------------------------------
(***************************************************************************)
(* The coverage map the harness shares with the fuzzer: its fill in        *)
(* ModuleCtx::try_new, the edge hash of ModuleCtx::log called for every    *)
(* traced branch, and the Reset of handle_stop, which restores the guest   *)
(* but touches neither the map nor prev_loc.  Beside the code's map runs   *)
(* the reference encoder of the spec (AFL hit counts), fed the same        *)
(* program counters, so that the two can be compared.                     *)
(***************************************************************************)
EXTENDS Naturals, Bitwise

CONSTANTS
    MapLen,     \* writer.len(), a power of two
    PCs,        \* program counters the trace callback may pass to log()
    MaxHits,    \* bound on the number of traced branches
    PcBits      \* width of pc and prev_loc: 64 in the code (u64)

ASSUME MapLenAssumption == \E k \in 0..16 : MapLen = 2^k
ASSUME PcBitsAssumption == PcBits \in Nat /\ 2^PcBits >= 256 * MapLen
ASSUME PCsAssumption == PCs \subseteq 0..(2^PcBits - 1) /\ PCs # {}
ASSUME MaxHitsAssumption == MaxHits \in Nat

VARIABLES
    map,        \* the shared bytes, as the code leaves them
    prev_loc,   \* ModuleCtx.prev_loc
    err,        \* some call of log() returned an Err
    ref,        \* the bytes as the reference encoder leaves them
    refPrev,    \* the reference encoder's prev_loc
    hits,       \* branches traced so far
    last        \* the last operation: "fill", "log" or "reset"

vars == <<map, prev_loc, err, ref, refPrev, hits, last>>

Index == 0..(MapLen - 1)
Byte == 0..255
U64 == 2^PcBits

TypeOK ==
    /\ map \in [Index -> Byte]
    /\ prev_loc \in Index
    /\ err \in BOOLEAN
    /\ ref \in [Index -> Byte]
    /\ refPrev \in Index
    /\ hits \in 0..MaxHits
    /\ last \in {"fill", "log", "reset"}

\* The byte try_new writes at offset i: (i % u8::MAX as usize) as u8, and
\* u8::MAX is 255.
FillByte(i) == i % 255

\* The pattern of spec section 4.1, which the reference starts from.
RefFillByte(i) == i % 256

\* try_new fills every byte of the fresh map before sending SharedMem.
Init ==
    /\ map = [i \in Index |-> FillByte(i)]
    /\ prev_loc = 0
    /\ err = FALSE
    /\ ref = [i \in Index |-> RefFillByte(i)]
    /\ refPrev = 0
    /\ hits = 0
    /\ last = "fill"

\* Mutant: the mask with len - 1 dropped.
CurLocUnmasked(pc) == (pc \div 16) ^^ ((pc * 256) % U64)

\* cur_loc = ((pc >> 4) ^ (pc << 8)) & (len - 1), in u64 arithmetic.
CurLoc(pc) == ((pc \div 16) ^^ ((pc * 256) % U64)) & (MapLen - 1)

\* The reference encoder of spec section 4.7 in HitCount mode, with its own
\* edge hash: the byte at cur ^ prev counts up, wrapping at 256, and prev
\* becomes cur >> 1.
RefLog(pc) ==
    LET cur == ((pc \div 16) ^^ ((pc * 256) % U64)) & (MapLen - 1)
        at == cur ^^ refPrev
    IN  /\ ref' = [ref EXCEPT ![at] = (@ + 1) % 256]
        /\ refPrev' = cur \div 2

\* Mutant: prev_loc set from cur_loc shifted the wrong way.
LogPrevShiftLeft(pc) ==
    LET cur == CurLoc(pc)
        at == cur ^^ prev_loc
    IN  /\ hits < MaxHits
        /\ IF cur \in Index /\ at \in Index
             THEN /\ map' = [map EXCEPT ![at] = map[cur]]
                  /\ prev_loc' = (cur * 2) % U64
                  /\ UNCHANGED err
             ELSE /\ err' = TRUE
                  /\ UNCHANGED <<map, prev_loc>>
        /\ RefLog(pc)
        /\ hits' = hits + 1
        /\ last' = "log"

\* log(pc): read the byte at cur_loc and write it at cur_loc ^ prev_loc
\* (read_byte and write_at return an Err past the end, and log returns it
\* before the shift), then prev_loc >>= 1.
Log(pc) ==
    LET cur == CurLoc(pc)
        at == cur ^^ prev_loc
    IN  /\ hits < MaxHits
        /\ IF cur \in Index /\ at \in Index
             THEN /\ map' = [map EXCEPT ![at] = map[cur]]
                  /\ prev_loc' = prev_loc \div 2
                  /\ UNCHANGED err
             ELSE /\ err' = TRUE
                  /\ UNCHANGED <<map, prev_loc>>
        /\ RefLog(pc)
        /\ hits' = hits + 1
        /\ last' = "log"

\* FuzzerEvent::Reset in handle_stop: VT_restore_micro_checkpoint(0) and
\* CORE_discard_future() act on the simulation only; the shared map and
\* prev_loc are left as they are.  The reference zeroes its prev_loc.
Reset ==
    /\ hits > 0
    /\ refPrev' = 0
    /\ last' = "reset"
    /\ UNCHANGED <<map, prev_loc, err, ref, hits>>

Next ==
    \/ \E pc \in PCs : Log(pc)
    \/ Reset

Spec == Init /\ [][Next]_vars

(***************************************************************************)
(* Properties.                                                             *)
(***************************************************************************)

\* Spec section 8 invariant 6: every write of log() lands inside the map,
\* so no call returns an Err from write_at.  It rests on cur_loc being
\* masked and on prev_loc staying below the map length across calls.
WritesInBounds == ~err

\* Spec section 4.7: after the same branches, the shared map holds what the
\* AFL edge-count encoder would have recorded.
CoverageMatchesReference == map = ref

\* Spec section 4.1: the fresh map holds i mod 256 at every offset i, the
\* pattern the fuzzer checks to verify the wiring.
FillPattern == last = "fill" => \A i \in Index : map[i] = RefFillByte(i)

=============================================================================
