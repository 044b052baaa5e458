------------------------------ MODULE IpcProofs ------------------------------
(***************************************************************************)
(* Proofs about the ipc-test-module bootstrap, for every map length,       *)
(* first message set and call bound: type correctness.                   *)
(***************************************************************************)
EXTENDS IpcTest, SequenceTheorems, TLAPS

USE MapLenAssumption, FirstMsgsAssumption, MaxCallsAssumption

\* Every step keeps the variables in their types.
LEMMA TypeStep == TypeOK /\ [Next]_vars => TypeOK'
<1> SUFFICES ASSUME TypeOK, [Next]_vars PROVE TypeOK'
    OBVIOUS
<1> USE DEF TypeOK
<1>1. CASE InitLocal
    <2>1. mpc' \in {"awaitInit", "aborted"} /\ bootstrap' \in BOOLEAN
        BY <1>1, Zenon DEF InitLocal
    <2>2. QED
        BY <1>1, <2>1 DEF InitLocal
<1>2. CASE RecvInit \/ RecvGone
    BY <1>2, HeadTailProperties DEF RecvInit, RecvGone
<1>3. CASE FillStep \/ InitLocalAgain
    BY <1>3 DEF FillStep, InitLocalAgain
<1>4. CASE SendShm
    BY <1>4, AppendProperties DEF SendShm
<1>5. CASE FuzzerAccept
    BY <1>5, AppendProperties DEF FuzzerAccept
<1>6. CASE FuzzerRecvShm
    BY <1>6, HeadTailProperties DEF FuzzerRecvShm
<1>7. CASE FuzzerPeerGone \/ FuzzerCrash
    BY <1>7 DEF FuzzerPeerGone, FuzzerCrash
<1>8. CASE UNCHANGED vars
    BY <1>8 DEF vars
<1>9. QED
    BY <1>1, <1>2, <1>3, <1>4, <1>5, <1>6, <1>7, <1>8 DEF Next, Module, Fuzzer

\* Every reachable state of the module and the fuzzer is well typed: in
\* particular init_local is called at most MaxCalls times and the fill
\* loop never writes past the map.
THEOREM TypeCorrect == Spec => []TypeOK
<1>1. Init => TypeOK
    <2> SUFFICES ASSUME Init PROVE TypeOK
        OBVIOUS
    <2>1. bootstrap \in BOOLEAN
        BY Zenon DEF Init
    <2>2. QED
        BY <2>1 DEF Init, TypeOK
<1>2. QED
    BY <1>1, TypeStep, PTL DEF Spec

=============================================================================
