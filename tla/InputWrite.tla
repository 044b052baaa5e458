----------------------------- MODULE InputWrite -----------------------------
(***************************************************************************)
(* The write of a Run input into guest memory, the loop every Run branch   *)
(* of ModuleCtx::handle_stop runs before it resumes the simulation: the    *)
(* input is cut into chunks of 8 bytes, each chunk is zero-padded into a   *)
(* little-endian u64, and SIM_write_phys_memory writes chunk.len() bytes   *)
(* of it at buffer_address + 8 * i.  The guest is an x86 target, so the   *)
(* simulator stores those bytes of the value lowest first.  The address   *)
(* buffer_address + (i * 8) as u64 is a u64 sum: near the top of the      *)
(* address space it wraps in a release build and panics (aborting the     *)
(* simulator inside the callback) where overflow checks are on.  The       *)
(* address space is scaled down to AddrBits bits.                          *)
(***************************************************************************)
EXTENDS Naturals, Sequences

CONSTANTS
    Bytes,      \* byte values an input may hold
    MaxLen,     \* bound on the input length
    Bases,      \* buffer addresses the guest may advertise in rsi
    Sizes,      \* buffer capacities the guest may advertise in rdi
    AddrBits,   \* width of a physical address (64 in the code)
    Canary      \* what guest memory holds before the write

ASSUME BytesAssumption == Bytes \subseteq 0..255 /\ Bytes # {}
ASSUME MaxLenAssumption == MaxLen \in Nat
ASSUME AddrBitsAssumption == AddrBits \in Nat \ {0}
\* 2^AddrBits addresses: a positive natural (the provers know nothing of ^).
ASSUME AddrSpaceAssumption == 2^AddrBits \in Nat \ {0}
ASSUME BasesAssumption == Bases \subseteq 0..(2^AddrBits - 1) /\ Bases # {}
ASSUME SizesAssumption == Sizes \subseteq Nat /\ Sizes # {}
ASSUME CanaryAssumption == Canary \in 0..255

VARIABLES
    input,      \* the bytes of FuzzerEvent::Run(input)
    base,       \* self.buffer_address
    size,       \* self.buffer_size
    mem,        \* guest physical memory
    writes,     \* the SIM_write_phys_memory calls made, in order
    done,       \* the loop has ended
    aborted     \* it ended in an overflow panic, not in resume_simulation()

vars == <<input, base, size, mem, writes, done, aborted>>

\* The whole physical address space.
AddrSpace == 2^AddrBits
Addr == 0..(AddrSpace - 1)

\* Inputs of every length up to the bound.
Inputs == UNION {[1..n -> Bytes] : n \in 0..MaxLen}

\* A u64 as its 8 bytes, least significant first.
Word == [0..7 -> 0..255]

\* The write calls: address, value and width.
Call == [addr : Nat, val : Word, width : 1..8]

TypeOK ==
    /\ input \in Inputs
    /\ base \in Bases
    /\ size \in Sizes
    /\ mem \in [Addr -> 0..255]
    /\ writes \in Seq(Call)
    /\ done \in BOOLEAN
    /\ aborted \in BOOLEAN

\* input.chunks(8): the number of chunks and the k-th of them (from 0).
NChunks(in) == (Len(in) + 7) \div 8
Chunk(in, k) ==
    SubSeq(in, 8 * k + 1, IF 8 * k + 8 <= Len(in) THEN 8 * k + 8 ELSE Len(in))

\* data = [0; 8] with the chunk copied to its front, read by
\* u64::from_le_bytes: byte j of the value is data[j].
ChunkWord(c) == [j \in 0..7 |-> IF j < Len(c) THEN c[j + 1] ELSE 0]

\* The address of the k-th chunk overflows the u64 sum.
Overflows(b, k) == b + k * 8 >= AddrSpace

\* Mutant: the address computed in a type one bit narrower.
ChunkCallNarrowAddr(in, b, k) ==
    [addr |-> (b + k * 8) % (AddrSpace \div 2), val |-> ChunkWord(Chunk(in, k)),
     width |-> Len(Chunk(in, k))]

\* The k-th call: SIM_write_phys_memory(cpu, buffer_address + (k * 8) as u64,
\* val, chunk.len()), the sum wrapping modulo the address space.
ChunkCall(in, b, k) ==
    [addr |-> (b + k * 8) % AddrSpace, val |-> ChunkWord(Chunk(in, k)),
     width |-> Len(Chunk(in, k))]

\* Mutant: the loop runs one chunk past the end (0..=n instead of 0..n).
CallsOneTooMany(in, b) == [i \in 1..(NChunks(in) + 1) |-> ChunkCall(in, b, i - 1)]

\* The calls of the whole loop, in order.
Calls(in, b) == [i \in 1..NChunks(in) |-> ChunkCall(in, b, i - 1)]

\* With overflow checks on, the loop panics computing the address of the
\* first chunk that overflows: the calls before it are made.
CallsBeforePanic(in, b) ==
    LET over == {k \in 0..(NChunks(in) - 1) : Overflows(b, k)}
        n == IF over = {} THEN NChunks(in)
             ELSE CHOOSE k \in over : \A j \in over : k <= j
    IN  [i \in 1..n |-> ChunkCall(in, b, i - 1)]

\* SIM_write_phys_memory(cpu, c.addr, c.val, c.width) stores a byte at a:
\* the low `width` bytes of the value go to addr, addr + 1, ... on a
\* little-endian target (bytes past the top are not memory).
Covers(c, a) == a >= c.addr /\ a < c.addr + c.width

\* Guest memory after the calls cs, made in order: each byte holds what the
\* last call that covers it stored, or what it held before.
MemAfter(m, cs) ==
    [a \in DOMAIN m |->
        LET ws == {i \in 1..Len(cs) : Covers(cs[i], a)}
            i == CHOOSE i \in ws : \A j \in ws : j <= i
        IN  IF ws = {} THEN m[a] ELSE cs[i].val[a - cs[i].addr]]

\* Any input and any rsi and rdi the guest may leave at the start magic:
\* handle_stop checks neither, so a buffer may run past the top of the
\* address space.  Guest memory untouched.
Init ==
    /\ input \in Inputs
    /\ base \in Bases
    /\ size \in Sizes
    /\ mem = [a \in Addr |-> Canary]
    /\ writes = <<>>
    /\ done = FALSE
    /\ aborted = FALSE

\* The Run branch: write every chunk, then resume_simulation(); built with
\* overflow checks, the loop may panic part way instead.
Write ==
    /\ ~done
    /\ \E cs \in {Calls(input, base), CallsBeforePanic(input, base)} :
          /\ writes' = cs
          /\ mem' = MemAfter(mem, cs)
          /\ aborted' = (Len(cs) < NChunks(input))
    /\ done' = TRUE
    /\ UNCHANGED <<input, base, size>>

Next == Write

Spec == Init /\ [][Next]_vars

(***************************************************************************)
(* Properties.                                                             *)
(***************************************************************************)

\* Spec section 8 invariant 7 and its boundary cases: after the write of an
\* input that ends below the top of the address space, wherever the guest
\* put the buffer (unaligned, or flush with the top), the loop did not
\* panic, guest memory holds the input byte for byte from buffer_address on
\* and nothing else was touched (neither the zero padding of the last chunk
\* nor anything wrapped round to low memory); an empty input makes no call,
\* and the last call's width is |I| mod 8 when that is not 0.  The loop
\* never looks at buffer_size, so the size plays no part (InputFitsBuffer).
InputWrittenExactly ==
    done /\ base + Len(input) <= AddrSpace =>
        /\ ~aborted
        /\ \A a \in Addr :
              mem[a] = IF a >= base /\ a < base + Len(input)
                         THEN input[a - base + 1] ELSE Canary
        /\ Len(input) = 0 => writes = <<>>
        /\ Len(input) % 8 # 0 =>
              writes[Len(writes)].width = Len(input) % 8

=============================================================================
