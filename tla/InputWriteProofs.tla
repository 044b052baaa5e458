--------------------------- MODULE InputWriteProofs ---------------------------
(***************************************************************************)
(* Proofs about the copy of a Run input into guest memory, for every byte  *)
(* set, length bound, buffer and address width: the loop's calls and guest *)
(* memory stay well typed whichever build runs it, and an input the buffer *)
(* holds lands in guest memory byte for byte and nothing else is touched.  *)
(***************************************************************************)
EXTENDS InputWrite, SequenceTheorems, WellFoundedInduction, TLAPS

USE BytesAssumption, MaxLenAssumption, SizesAssumption, CanaryAssumption

(***************************************************************************)
(* Arithmetic of the chunking.                                             *)
(***************************************************************************)

\* An integer between two bounds lies in their interval (stated once: the
\* SMT backend does not find it when the integer is the length of a
\* sequence, Zenon does from this lemma).
LEMMA InInterval ==
    ASSUME NEW n \in Int, NEW lo \in Int, NEW hi \in Int, lo <= n, n <= hi
    PROVE  n \in lo..hi
OBVIOUS

\* The address space is a positive natural and every base lies in it.
LEMMA SpaceFacts ==
    /\ AddrSpace \in Nat \ {0}
    /\ Bases \subseteq 0..(AddrSpace - 1)
BY AddrSpaceAssumption, BasesAssumption DEF AddrSpace

\* An input is a sequence of bytes of at most MaxLen bytes.
LEMMA InputsSeq ==
    ASSUME NEW in \in Inputs
    PROVE  /\ in \in Seq(Bytes)
           /\ Len(in) \in 0..MaxLen
<1>1. PICK n \in 0..MaxLen : in \in [1..n -> Bytes]
    BY DEF Inputs
<1>2. in \in Seq(Bytes) /\ Len(in) = n
    BY <1>1
<1>3. QED
    BY <1>1, <1>2

\* input.chunks(8) has ceil(len / 8) chunks: none for an empty input, and
\* every chunk starts inside the input.
LEMMA NChunksFacts ==
    ASSUME NEW L \in Nat
    PROVE  /\ (L + 7) \div 8 \in Nat
           /\ L = 0 <=> (L + 7) \div 8 = 0
           /\ \A k \in 0..((L + 7) \div 8 - 1) : 8 * k + 1 <= L
           /\ L <= 8 * ((L + 7) \div 8)
BY SMT

\* The k-th chunk: its length is that of the rest of the input, at most 8,
\* and its j-th byte is byte 8k + j of the input.
LEMMA ChunkFacts ==
    ASSUME NEW in \in Seq(Bytes), NEW k \in 0..(NChunks(in) - 1)
    PROVE  /\ Chunk(in, k) \in Seq(Bytes)
           /\ Len(Chunk(in, k)) =
                 IF 8 * k + 8 <= Len(in) THEN 8 ELSE Len(in) - 8 * k
           /\ 1 <= Len(Chunk(in, k)) /\ Len(Chunk(in, k)) <= 8
           /\ \A j \in 1..Len(Chunk(in, k)) : Chunk(in, k)[j] = in[8 * k + j]
<1> DEFINE e == IF 8 * k + 8 <= Len(in) THEN 8 * k + 8 ELSE Len(in)
<1>0. Len(in) \in Nat /\ \A i \in 1..Len(in) : in[i] \in Bytes
    BY LenProperties
<1>a. k \in Nat /\ 8 * k + 1 <= Len(in)
    BY <1>0 DEF NChunks
<1>1. /\ Len(in) \in Nat /\ k \in Nat /\ 8 * k + 1 <= Len(in)
      /\ e \in Int /\ 8 * k + 1 <= e /\ e <= Len(in)
      /\ e - 8 * k = IF 8 * k + 8 <= Len(in) THEN 8 ELSE Len(in) - 8 * k
    <2>1. CASE 8 * k + 8 <= Len(in)
        BY <1>0, <1>a, <2>1
    <2>2. CASE ~(8 * k + 8 <= Len(in))
        BY <1>0, <1>a, <2>2
    <2>3. QED
        BY <2>1, <2>2
<1>2. \A i \in (8 * k + 1)..e : in[i] \in Bytes
    BY <1>0, <1>1
<1>3. /\ SubSeq(in, 8 * k + 1, e) \in Seq(Bytes)
      /\ Len(SubSeq(in, 8 * k + 1, e)) = IF 8 * k + 1 <= e THEN e - 8 * k ELSE 0
      /\ \A i \in 1..(e - 8 * k) : SubSeq(in, 8 * k + 1, e)[i] = in[8 * k + 1 + i - 1]
    BY <1>1, <1>2, SubSeqProperties
<1>4. Chunk(in, k) = SubSeq(in, 8 * k + 1, e)
    BY DEF Chunk
<1>5. Len(Chunk(in, k)) = e - 8 * k
    BY <1>1, <1>3, <1>4
<1>6. 1 <= Len(Chunk(in, k)) /\ Len(Chunk(in, k)) <= 8
    BY <1>1, <1>5
<1>7. \A j \in 1..Len(Chunk(in, k)) : Chunk(in, k)[j] = in[8 * k + j]
    BY <1>3, <1>4, <1>5
<1>8. QED
    BY <1>1, <1>3, <1>4, <1>5, <1>6, <1>7

\* A record of an address, a word and a width of 1 to 8 bytes is a call.
LEMMA CallIntro ==
    ASSUME NEW a \in Nat, NEW v \in Word, NEW w \in 1..8
    PROVE  [addr |-> a, val |-> v, width |-> w] \in Call
BY DEF Call

\* The k-th call writes the k-th chunk's bytes, little-endian, at the
\* wrapped address, and is a well-formed call.
LEMMA CallFacts ==
    ASSUME NEW in \in Seq(Bytes), NEW b \in Nat, NEW k \in 0..(NChunks(in) - 1)
    PROVE  /\ ChunkCall(in, b, k) \in Call
           /\ ChunkCall(in, b, k).addr = (b + k * 8) % AddrSpace
           /\ ChunkCall(in, b, k).width = Len(Chunk(in, k))
           /\ \A j \in 0..(Len(Chunk(in, k)) - 1) :
                 ChunkCall(in, b, k).val[j] = in[8 * k + j + 1]
<1> DEFINE c == Chunk(in, k)
<1>0. k \in Nat
    BY LenProperties DEF NChunks
<1>1. c \in Seq(Bytes) /\ 1 <= Len(c) /\ Len(c) <= 8
    BY ChunkFacts
<1>1b. \A j \in 1..Len(c) : c[j] = in[8 * k + j]
    BY ChunkFacts
<1>2. \A j \in 1..Len(c) : c[j] \in 0..255
    <2>1. c \in [1..Len(c) -> Bytes]
        BY <1>1, LenProperties
    <2>2. QED
        BY <2>1
<1>3. ChunkWord(c) \in Word
    <2>1. ASSUME NEW j \in 0..7
          PROVE  (IF j < Len(c) THEN c[j + 1] ELSE 0) \in 0..255
        <3>1. CASE j < Len(c)
            <4>1. j + 1 \in 1..Len(c)
                BY <3>1, <1>1
            <4>2. QED
                BY <3>1, <4>1, <1>2
        <3>2. CASE ~(j < Len(c))
            BY <3>2
        <3>3. QED
            BY <3>1, <3>2
    <2>2. QED
        BY <2>1 DEF ChunkWord, Word
<1>4. (b + k * 8) % AddrSpace \in Nat
    BY SpaceFacts DEF NChunks
<1>5. \A j \in 0..(Len(c) - 1) : ChunkWord(c)[j] = in[8 * k + j + 1]
    <2> SUFFICES ASSUME NEW j \in 0..(Len(c) - 1)
                 PROVE  ChunkWord(c)[j] = in[8 * k + j + 1]
        OBVIOUS
    <2>1. j \in 0..7 /\ j < Len(c) /\ j + 1 \in 1..Len(c)
        BY <1>1
    <2>2. ChunkWord(c)[j] = c[j + 1]
        BY <2>1 DEF ChunkWord
    <2>3. QED
        BY <1>0, <1>1b, <2>1, <2>2
<1>6. Len(c) \in 1..8
    <2>1. Len(c) \in Int /\ 1 \in Int /\ 8 \in Int
        BY <1>1, LenProperties
    <2>2. QED
        BY <1>1, <2>1, InInterval, Zenon
<1>7. ChunkCall(in, b, k) = [addr |-> (b + k * 8) % AddrSpace,
                             val |-> ChunkWord(c), width |-> Len(c)]
    BY DEF ChunkCall
<1>8. ChunkCall(in, b, k) \in Call
    BY <1>3, <1>4, <1>6, <1>7, CallIntro, Zenon
<1>9. QED
    BY <1>5, <1>7, <1>8

\* The loop's calls: one per chunk, in order.
LEMMA CallsFacts ==
    ASSUME NEW in \in Seq(Bytes), NEW b \in Nat
    PROVE  /\ Calls(in, b) \in Seq(Call)
           /\ Len(Calls(in, b)) = NChunks(in)
           /\ \A i \in 1..NChunks(in) : Calls(in, b)[i] = ChunkCall(in, b, i - 1)
<1>1. NChunks(in) \in Nat
    BY LenProperties DEF NChunks
<1>2. \A i \in 1..NChunks(in) : ChunkCall(in, b, i - 1) \in Call
    BY <1>1, CallFacts
<1>3. Calls(in, b) \in [1..NChunks(in) -> Call]
    BY <1>2 DEF Calls
<1>4. QED
    BY <1>1, <1>3 DEF Calls

\* The chunks whose address overflows, and the number of calls the
\* overflow-checked loop makes before it panics.
Over(in, b) == {k \in 0..(NChunks(in) - 1) : Overflows(b, k)}
PanicAt(in, b) ==
    IF Over(in, b) = {} THEN NChunks(in)
    ELSE CHOOSE k \in Over(in, b) : \A j \in Over(in, b) : k <= j

\* The chunks that overflow are those from ceil((AddrSpace - b) / 8) on,
\* so the first of them exists whenever one does.
LEMMA FirstOverflow ==
    ASSUME NEW in \in Seq(Bytes), NEW b \in 0..(AddrSpace - 1), Over(in, b) # {}
    PROVE  \E k \in Over(in, b) : \A j \in Over(in, b) : k <= j
<1> DEFINE k0 == (AddrSpace - b + 7) \div 8
<1>1. AddrSpace \in Nat \ {0} /\ NChunks(in) \in Nat
    BY SpaceFacts, LenProperties DEF NChunks
<1>2. PICK j0 \in Over(in, b) : TRUE
    OBVIOUS
<1>3. k0 \in Over(in, b)
    BY <1>1, <1>2 DEF Over, Overflows
<1>4. \A j \in Over(in, b) : k0 <= j
    BY <1>1 DEF Over, Overflows
<1>5. QED
    BY <1>3, <1>4

\* With overflow checks the loop makes the calls of the chunks before the
\* first overflowing one: well-formed calls, and all of them when no chunk
\* overflows.
LEMMA PanicFacts ==
    ASSUME NEW in \in Seq(Bytes), NEW b \in 0..(AddrSpace - 1)
    PROVE  /\ CallsBeforePanic(in, b) \in Seq(Call)
           /\ Len(CallsBeforePanic(in, b)) = PanicAt(in, b)
           /\ PanicAt(in, b) \in 0..NChunks(in)
           /\ Over(in, b) = {} => CallsBeforePanic(in, b) = Calls(in, b)
<1>1. NChunks(in) \in Nat
    BY LenProperties DEF NChunks
<1>2. CallsBeforePanic(in, b) = [i \in 1..PanicAt(in, b) |-> ChunkCall(in, b, i - 1)]
    BY DEF CallsBeforePanic, PanicAt, Over
<1>3. PanicAt(in, b) \in 0..NChunks(in)
    <2>1. CASE Over(in, b) = {}
        BY <1>1, <2>1 DEF PanicAt
    <2>2. CASE Over(in, b) # {}
        <3>1. PanicAt(in, b) \in Over(in, b)
            BY <2>2, FirstOverflow DEF PanicAt
        <3>2. QED
            BY <1>1, <3>1 DEF Over
    <2>3. QED
        BY <2>1, <2>2
<1>4. \A i \in 1..PanicAt(in, b) : ChunkCall(in, b, i - 1) \in Call
    BY <1>1, <1>3, CallFacts, SpaceFacts
<1>5. CallsBeforePanic(in, b) \in Seq(Call)
      /\ Len(CallsBeforePanic(in, b)) = PanicAt(in, b)
    BY <1>2, <1>3, <1>4
<1>6. Over(in, b) = {} => CallsBeforePanic(in, b) = Calls(in, b)
    BY <1>2 DEF PanicAt, Calls
<1>7. QED
    BY <1>3, <1>5, <1>6

(***************************************************************************)
(* Guest memory after the calls.                                           *)
(***************************************************************************)

\* A non-empty set of call indices has a last one (from the well-foundedness
\* of < on Nat, applied to the distances from n).
LEMMA LastExists ==
    ASSUME NEW n \in Nat, NEW T \in SUBSET (1..n), T # {}
    PROVE  \E i \in T : \A j \in T : j <= i
<1> DEFINE U == {n - i : i \in T}
<1>1. U \subseteq Nat /\ U # {}
    <2>1. \A i \in T : n - i \in Nat
        OBVIOUS
    <2>2. PICK t \in T : TRUE
        OBVIOUS
    <2>3. n - t \in U
        BY <2>2
    <2>4. QED
        BY <2>1, <2>3
<1>2. \E x \in U : \A y \in U : ~(<<y, x>> \in OpToRel(<, Nat))
    BY <1>1, WFMin, NatLessThanWellFounded, Zenon
<1>3. PICK x \in U : \A y \in U : ~(<<y, x>> \in OpToRel(<, Nat))
    BY <1>2
<1>4. \A y \in U : ~(y < x)
    BY <1>1, <1>3 DEF OpToRel
<1>5. PICK i \in T : x = n - i
    OBVIOUS
<1>6. \A j \in T : j <= i
    <2> SUFFICES ASSUME NEW j \in T PROVE j <= i
        OBVIOUS
    <2>1. n - j \in U
        OBVIOUS
    <2>2. ~(n - j < x)
        BY <1>4, <2>1
    <2>3. QED
        BY <1>5, <2>2
<1>7. QED
    BY <1>6

\* The byte a call stores at an address it covers is a byte of its word.
LEMMA StoredByte ==
    ASSUME NEW c \in Call, NEW a \in Nat, Covers(c, a)
    PROVE  a - c.addr \in 0..7 /\ c.val[a - c.addr] \in 0..255
<1>1. c.addr \in Nat /\ c.width \in 1..8 /\ c.val \in [0..7 -> 0..255]
    BY DEF Call, Word
<1>2. a - c.addr \in 0..7
    BY <1>1 DEF Covers
<1>3. QED
    BY <1>1, <1>2

\* Guest memory stays a map from addresses to bytes, whatever the calls.
LEMMA MemAfterType ==
    ASSUME NEW m \in [Addr -> 0..255], NEW cs \in Seq(Call)
    PROVE  MemAfter(m, cs) \in [Addr -> 0..255]
<1> SUFFICES ASSUME NEW a \in Addr
             PROVE  MemAfter(m, cs)[a] \in 0..255
    BY DEF MemAfter
<1> DEFINE ws == {i \in 1..Len(cs) : Covers(cs[i], a)}
           last == CHOOSE i \in ws : \A j \in ws : j <= i
<1>1. a \in Nat /\ Len(cs) \in Nat
    BY SpaceFacts, LenProperties DEF Addr
<1>2. MemAfter(m, cs)[a] = IF ws = {} THEN m[a] ELSE cs[last].val[a - cs[last].addr]
    BY DEF MemAfter
<1>3. CASE ws = {}
    BY <1>2, <1>3
<1>4. CASE ws # {}
    <2>1. last \in ws
        BY <1>1, <1>4, LastExists
    <2>2. cs[last] \in Call /\ Covers(cs[last], a)
        BY <2>1, LenProperties
    <2>3. QED
        BY <1>1, <1>2, <1>4, <2>2, StoredByte
<1>5. QED
    BY <1>3, <1>4

(***************************************************************************)
(* An input that fits in s addresses from b, below the top, never overflows. *)
(***************************************************************************)

\* Guest memory before the write.
Blank == [a \in Addr |-> Canary]

\* The width of the k-th chunk.
Width(in, k) == IF 8 * k + 8 <= Len(in) THEN 8 ELSE Len(in) - 8 * k

\* No chunk of an input that fits a buffer inside the address space
\* overflows the address sum.
LEMMA NoOverflow ==
    ASSUME NEW in \in Seq(Bytes), NEW b \in Nat, NEW s \in Nat,
           b + s <= AddrSpace, Len(in) <= s
    PROVE  Over(in, b) = {}
<1>1. \A k \in 0..(NChunks(in) - 1) : 8 * k + 1 <= Len(in)
    BY LenProperties DEF NChunks
<1>2. QED
    BY <1>1, LenProperties, SpaceFacts DEF Over, Overflows

\* With no overflow, the call of chunk k is at b + 8k, as wide as the chunk,
\* and stores its bytes.
LEMMA CallAt ==
    ASSUME NEW in \in Seq(Bytes), NEW b \in Nat, NEW s \in Nat,
           b + s <= AddrSpace, Len(in) <= s,
           NEW k \in 0..(NChunks(in) - 1)
    PROVE  /\ Calls(in, b)[k + 1].addr = b + 8 * k
           /\ Calls(in, b)[k + 1].width = Width(in, k)
           /\ \A j \in 0..(Width(in, k) - 1) :
                 Calls(in, b)[k + 1].val[j] = in[8 * k + j + 1]
<1>1. k \in Nat /\ 8 * k + 1 <= Len(in) /\ AddrSpace \in Nat \ {0}
    BY LenProperties, SpaceFacts DEF NChunks
<1>2. Calls(in, b)[k + 1] = ChunkCall(in, b, k)
    BY <1>1, CallsFacts
<1>3. Len(Chunk(in, k)) = Width(in, k)
    BY ChunkFacts DEF Width
<1>4. (b + k * 8) % AddrSpace = b + 8 * k
    BY <1>1
<1>5. /\ ChunkCall(in, b, k).addr = (b + k * 8) % AddrSpace
      /\ ChunkCall(in, b, k).width = Len(Chunk(in, k))
      /\ \A j \in 0..(Len(Chunk(in, k)) - 1) :
            ChunkCall(in, b, k).val[j] = in[8 * k + j + 1]
    BY CallFacts
<1>6. QED
    BY <1>2, <1>3, <1>4, <1>5

\* Chunk k covers the offsets 8k to 8k + Width(in, k) - 1 of the buffer:
\* an address is covered by exactly the chunk of its offset when it lies in
\* the input's span, and by none otherwise.
LEMMA ChunkSpan ==
    ASSUME NEW in \in Seq(Bytes), NEW b \in Nat, NEW a \in Nat,
           NEW k \in 0..(NChunks(in) - 1)
    PROVE  (b + 8 * k <= a /\ a < b + 8 * k + Width(in, k))
              <=> (b <= a /\ a < b + Len(in) /\ k = (a - b) \div 8)
<1>1. Len(in) \in Nat /\ k \in Nat /\ 8 * k + 1 <= Len(in)
    BY LenProperties DEF NChunks
<1>2. CASE 8 * k + 8 <= Len(in)
    BY <1>1, <1>2 DEF Width
<1>3. CASE ~(8 * k + 8 <= Len(in))
    BY <1>1, <1>3 DEF Width
<1>4. QED
    BY <1>2, <1>3

\* The offset of an address in the input's span names one of its chunks.
LEMMA SpanChunk ==
    ASSUME NEW in \in Seq(Bytes), NEW b \in Nat, NEW a \in Nat,
           b <= a, a < b + Len(in)
    PROVE  (a - b) \div 8 \in 0..(NChunks(in) - 1)
BY LenProperties DEF NChunks

\* The calls that cover an address: the one of its chunk inside the
\* input's span, none outside.
LEMMA Covering ==
    ASSUME NEW in \in Seq(Bytes), NEW b \in Nat, NEW s \in Nat,
           b + s <= AddrSpace, Len(in) <= s, NEW a \in Nat
    PROVE  LET ws == {i \in 1..Len(Calls(in, b)) : Covers(Calls(in, b)[i], a)}
           IN  /\ b <= a /\ a < b + Len(in) => ws = {(a - b) \div 8 + 1}
               /\ ~(b <= a /\ a < b + Len(in)) => ws = {}
<1> DEFINE cs == Calls(in, b)
           ws == {i \in 1..Len(cs) : Covers(cs[i], a)}
<1>1. Len(cs) = NChunks(in) /\ NChunks(in) \in Nat
    BY CallsFacts, LenProperties DEF NChunks
<1>2. \A i \in 1..NChunks(in) :
         Covers(cs[i], a) <=> (b + 8 * (i - 1) <= a
                               /\ a < b + 8 * (i - 1) + Width(in, i - 1))
    <2> SUFFICES ASSUME NEW i \in 1..NChunks(in)
                 PROVE  Covers(cs[i], a) <=> (b + 8 * (i - 1) <= a
                               /\ a < b + 8 * (i - 1) + Width(in, i - 1))
        OBVIOUS
    <2>1. i - 1 \in 0..(NChunks(in) - 1) /\ i - 1 + 1 = i
        BY <1>1
    <2>2. cs[i].addr = b + 8 * (i - 1) /\ cs[i].width = Width(in, i - 1)
        BY <2>1, CallAt
    <2>3. QED
        BY <2>2 DEF Covers
<1>3. \A i \in 1..NChunks(in) :
         Covers(cs[i], a) <=> (b <= a /\ a < b + Len(in) /\ i - 1 = (a - b) \div 8)
    <2> SUFFICES ASSUME NEW i \in 1..NChunks(in)
                 PROVE  Covers(cs[i], a) <=>
                          (b <= a /\ a < b + Len(in) /\ i - 1 = (a - b) \div 8)
        OBVIOUS
    <2>1. i - 1 \in 0..(NChunks(in) - 1)
        BY <1>1
    <2>2. (b + 8 * (i - 1) <= a /\ a < b + 8 * (i - 1) + Width(in, i - 1))
              <=> (b <= a /\ a < b + Len(in) /\ i - 1 = (a - b) \div 8)
        BY <2>1, ChunkSpan
    <2>3. QED
        BY <1>2, <2>2
<1>4. ASSUME b <= a, a < b + Len(in) PROVE ws = {(a - b) \div 8 + 1}
    <2>0. (a - b) \div 8 \in 0..(NChunks(in) - 1)
        BY <1>4, SpanChunk
    <2>1. (a - b) \div 8 + 1 \in 1..NChunks(in)
        BY <1>1, <2>0
    <2>2. QED
        BY <1>1, <1>3, <1>4, <2>1
<1>5. ASSUME ~(b <= a /\ a < b + Len(in)) PROVE ws = {}
    BY <1>1, <1>3, <1>5
<1>6. QED
    BY <1>4, <1>5

\* After the loop every address in the input's span holds its input byte,
\* and every other address what it held before.
LEMMA MemWritten ==
    ASSUME NEW in \in Seq(Bytes), NEW b \in Nat, NEW s \in Nat,
           b + s <= AddrSpace, Len(in) <= s, NEW a \in Addr
    PROVE  MemAfter(Blank, Calls(in, b))[a] =
              IF a >= b /\ a < b + Len(in) THEN in[a - b + 1] ELSE Canary
<1> DEFINE cs == Calls(in, b)
           ws == {i \in 1..Len(cs) : Covers(cs[i], a)}
           last == CHOOSE i \in ws : \A j \in ws : j <= i
<1>0. Len(in) \in Nat
    BY LenProperties
<1>1. a \in Nat
    BY SpaceFacts DEF Addr
<1>2. MemAfter(Blank, cs)[a] =
         IF ws = {} THEN Canary ELSE cs[last].val[a - cs[last].addr]
    BY DEF MemAfter, Blank
<1>3. CASE b <= a /\ a < b + Len(in)
    <2> DEFINE k == (a - b) \div 8
    <2>1. ws = {k + 1}
        BY <1>1, <1>3, Covering
    <2>2. last = k + 1
        BY <2>1
    <2>3. k \in 0..(NChunks(in) - 1)
        BY <1>1, <1>3, SpanChunk
    <2>4. /\ cs[k + 1].addr = b + 8 * k
          /\ cs[k + 1].width = Width(in, k)
          /\ \A j \in 0..(Width(in, k) - 1) : cs[k + 1].val[j] = in[8 * k + j + 1]
        BY <2>3, CallAt
    <2>5. a - b - 8 * k \in 0..(Width(in, k) - 1)
        <3>1. b + 8 * k <= a /\ a < b + 8 * k + Width(in, k)
            BY <1>1, <1>3, <2>3, ChunkSpan
        <3>2. k \in Int /\ Width(in, k) \in Int
            BY <1>0, <1>1, <1>3 DEF Width
        <3>3. /\ a - b - 8 * k \in Int /\ 0 \in Int /\ Width(in, k) - 1 \in Int
              /\ 0 <= a - b - 8 * k /\ a - b - 8 * k <= Width(in, k) - 1
            BY <1>1, <3>1, <3>2
        <3>4. QED
            BY <3>3, InInterval, Zenon
    <2>6. cs[k + 1].val[a - cs[k + 1].addr] = in[a - b + 1]
        BY <1>1, <2>3, <2>4, <2>5, LenProperties DEF NChunks
    <2>7. QED
        BY <1>2, <1>3, <2>1, <2>2, <2>6
<1>4. CASE ~(b <= a /\ a < b + Len(in))
    BY <1>1, <1>2, <1>4, Covering
<1>5. QED
    BY <1>3, <1>4

\* An empty input makes no call, and the last call of an input whose length
\* is not a multiple of 8 writes only the length mod 8 bytes left.
LEMMA EdgeCalls ==
    ASSUME NEW in \in Seq(Bytes), NEW b \in Nat, NEW s \in Nat,
           b + s <= AddrSpace, Len(in) <= s
    PROVE  /\ Len(in) = 0 => Calls(in, b) = <<>>
           /\ Len(in) % 8 # 0 =>
                 Calls(in, b)[Len(Calls(in, b))].width = Len(in) % 8
<1>1. /\ Calls(in, b) \in Seq(Call)
      /\ Len(Calls(in, b)) = NChunks(in)
    BY CallsFacts
<1>2. Len(in) \in Nat
    BY LenProperties
<1>3. ASSUME Len(in) = 0 PROVE Calls(in, b) = <<>>
    <2>1. Len(Calls(in, b)) = 0
        BY <1>1, <1>3 DEF NChunks
    <2>2. QED
        BY <1>1, <2>1, EmptySeq
<1>4. ASSUME Len(in) % 8 # 0
      PROVE  Calls(in, b)[Len(Calls(in, b))].width = Len(in) % 8
    <2> DEFINE k == NChunks(in) - 1
    <2>1. k \in 0..(NChunks(in) - 1) /\ k + 1 = NChunks(in)
        BY <1>2, <1>4 DEF NChunks
    <2>2. Calls(in, b)[k + 1].width = Width(in, k)
        BY <2>1, CallAt
    <2>3. Width(in, k) = Len(in) % 8
        BY <1>2, <1>4 DEF Width, NChunks
    <2>4. QED
        BY <1>1, <2>1, <2>2, <2>3
<1>5. QED
    BY <1>3, <1>4

(***************************************************************************)
(* The specification.  InputWrittenExactly is inductive once memory is    *)
(* known to be untouched until the loop has run.                          *)
(***************************************************************************)
IWInv ==
    /\ TypeOK
    /\ ~done => mem = Blank
    /\ InputWrittenExactly

\* Before write_input runs, memory is all canary and no call was made.
LEMMA IWInit == Init => IWInv
<1> SUFFICES ASSUME Init PROVE IWInv
    OBVIOUS
<1>1. <<>> \in Seq(Call) /\ Blank \in [Addr -> 0..255]
    BY EmptySeq DEF Blank
<1>2. TypeOK
    BY <1>1 DEF Init, TypeOK, Blank
<1>3. QED
    BY <1>2 DEF Init, IWInv, InputWrittenExactly, Blank

\* The loop: its calls and guest memory stay typed whichever build runs it,
\* and an input that ends below the top of the address space is written
\* exactly.
LEMMA WriteStep ==
    ASSUME IWInv, Write
    PROVE  IWInv'
<1>1. PICK cs \in {Calls(input, base), CallsBeforePanic(input, base)} :
         /\ writes' = cs
         /\ mem' = MemAfter(mem, cs)
         /\ aborted' = (Len(cs) < NChunks(input))
    BY DEF Write
<1>2. /\ input \in Seq(Bytes) /\ base \in 0..(AddrSpace - 1) /\ size \in Nat
      /\ mem = Blank /\ mem \in [Addr -> 0..255]
    BY InputsSeq, SpaceFacts DEF IWInv, TypeOK, Write
<1>3. /\ done' = TRUE
      /\ UNCHANGED <<input, base, size>>
    BY DEF Write
<1>4. cs \in Seq(Call) /\ Len(cs) \in Nat
    BY <1>2, CallsFacts, PanicFacts, LenProperties
<1>5. TypeOK'
    <2>1. mem' \in [Addr -> 0..255]
        BY <1>1, <1>2, <1>4, MemAfterType
    <2>2. QED
        BY <1>1, <1>3, <1>4, <2>1 DEF IWInv, TypeOK
<1>6. InputWrittenExactly'
    <2> SUFFICES ASSUME base + Len(input) <= AddrSpace
                 PROVE  /\ ~aborted'
                        /\ \A a \in Addr :
                              mem'[a] = IF a >= base /\ a < base + Len(input)
                                          THEN input[a - base + 1] ELSE Canary
                        /\ Len(input) = 0 => writes' = <<>>
                        /\ Len(input) % 8 # 0 =>
                              writes'[Len(writes')].width = Len(input) % 8
        BY <1>3 DEF InputWrittenExactly
    <2>1. Len(input) \in Nat /\ Len(input) <= Len(input)
        BY <1>2, LenProperties
    <2>2. cs = Calls(input, base)
        <3>1. base \in Nat
            BY <1>2, SpaceFacts
        <3>2. Over(input, base) = {}
            BY <1>2, <2>1, <3>1, NoOverflow
        <3>3. CallsBeforePanic(input, base) = Calls(input, base)
            BY <1>2, <3>2, PanicFacts
        <3>4. QED
            BY <1>1, <3>3
    <2>3. ~aborted'
        <3>1. base \in Nat
            BY <1>2, SpaceFacts
        <3>2. Len(cs) = NChunks(input) /\ NChunks(input) \in Nat
            BY <1>2, <2>2, <3>1, CallsFacts, LenProperties DEF NChunks
        <3>3. ~(Len(cs) < NChunks(input))
            BY <3>2
        <3>4. QED
            BY <1>1, <3>3, Zenon
    <2>4. \A a \in Addr : mem'[a] = IF a >= base /\ a < base + Len(input)
                                      THEN input[a - base + 1] ELSE Canary
        BY <1>1, <1>2, <2>1, <2>2, MemWritten
    <2>5. QED
        BY <1>1, <1>2, <2>1, <2>2, <2>3, <2>4, EdgeCalls
<1>7. QED
    BY <1>3, <1>5, <1>6 DEF IWInv

\* IWInv is inductive: the write step and a stutter both preserve it.
LEMMA IWStep == IWInv /\ [Next]_vars => IWInv'
<1> SUFFICES ASSUME IWInv, [Next]_vars PROVE IWInv'
    OBVIOUS
<1>1. CASE Write
    BY <1>1, WriteStep
<1>2. CASE UNCHANGED vars
    BY <1>2 DEF IWInv, TypeOK, InputWrittenExactly, Blank, vars
<1>3. QED
    BY <1>1, <1>2 DEF Next

\* Every state of the loop over input.chunks(8) in write_input is typed: the
\* SIM_write_phys_memory calls it made are calls of 1 to 8 bytes and guest
\* memory holds bytes, on every address space and input size.
THEOREM TypeCorrect == Spec => []TypeOK
<1>1. IWInv => TypeOK
    BY DEF IWInv
<1>2. QED
    BY <1>1, IWInit, IWStep, PTL DEF Spec

\* For every address width, base and buffer size: once write_input has run on
\* an input that ends below the top of the address space, it has not
\* panicked, every byte of the input is at base + i, no other byte of guest
\* memory changed, an empty input made no call and a last partial chunk was
\* written with its own width.
THEOREM InputWrittenExactlyHolds == Spec => []InputWrittenExactly
<1>1. IWInv => InputWrittenExactly
    BY DEF IWInv
<1>2. QED
    BY <1>1, IWInit, IWStep, PTL DEF Spec
=============================================================================
