---------------------------- MODULE ConfigProofs ----------------------------
(***************************************************************************)
(* Proofs about the configuration builders, for every fault set, handle    *)
(* set, map bound and set of durations: type correctness, the trace mode   *)
(* round trip through to_string and from_str, and the order in which       *)
(* coverage() hands out the maps pushed by with_map and with_maps.         *)
(***************************************************************************)
EXTENDS Config, SequenceTheorems, TLAPS

USE MaxMapsAssumption, DurationsAssumption

(***************************************************************************)
(* coverage() finds the first coverage map: since every map is one, the    *)
(* first map, and removing it leaves the tail.                             *)
(***************************************************************************)

\* SelectInSeq with a test every element passes picks index 1, or 0 in an
\* empty sequence.
LEMMA SelectFirst ==
    ASSUME NEW S, NEW s \in Seq(S)
    PROVE  SelectInSeq(s, IsCoverage) = IF s = <<>> THEN 0 ELSE 1
<1> DEFINE I == {i \in 1..Len(s) : IsCoverage(s[i])}
<1>1. I = 1..Len(s) /\ Len(s) \in Nat
    BY LenProperties DEF IsCoverage
<1>2. CASE s = <<>>
    <2>1. I = {}
        BY <1>1, <1>2
    <2>2. QED
        BY <1>2, <2>1 DEF SelectInSeq
<1>3. CASE s # <<>>
    <2>1. Len(s) >= 1
        BY <1>3, EmptySeq
    <2>2. 1 \in I /\ \A y \in I : 1 =< y
        BY <1>1, <2>1
    <2>3. \A x \in I : (\A y \in I : x =< y) => x = 1
        BY <1>1, <2>2
    <2>4. Min(I) = 1
        BY <2>2, <2>3 DEF Min
    <2>5. QED
        BY <1>3, <2>2, <2>4 DEF SelectInSeq
<1>4. QED
    BY <1>2, <1>3

\* RemoveAt of the first element is the tail.
LEMMA RemoveAtFirst ==
    ASSUME NEW S, NEW s \in Seq(S), s # <<>>
    PROVE  RemoveAt(s, 1) = Tail(s)
<1>1. Len(s) \in Nat
    BY LenProperties
<1>2. SubSeq(s, 1, 0) = <<>>
    BY SubSeqEmpty
<1>3. SubSeq(s, 2, Len(s)) = Tail(s) /\ Tail(s) \in Seq(S)
    BY TailIsSubSeq, HeadTailProperties
<1>4. <<>> \o Tail(s) = Tail(s)
    BY <1>3, ConcatEmptySeq
<1>5. QED
    BY <1>2, <1>3, <1>4 DEF RemoveAt

\* A non-empty sequence is its first element followed by its tail.
LEMMA HeadThenTail ==
    ASSUME NEW S, NEW s \in Seq(S), s # <<>>
    PROVE  s = <<s[1]>> \o Tail(s)
<1>1. Len(s) \in Nat \ {0}
    BY EmptySeq
<1>2. SubSeq(s, 1, Len(s)) = <<s[1]>> \o SubSeq(s, 2, Len(s))
    BY <1>1, SubSeqRecursiveFirst
<1>3. QED
    BY <1>2, SubSeqFull, TailIsSubSeq

(***************************************************************************)
(* TypeOK and CoverageInOrder are inductive together: each builder keeps   *)
(* the fields typed, with_map and with_maps extend `maps` and `added` by   *)
(* the same maps, and coverage() moves the first map of `maps` to the end  *)
(* of `taken`.                                                             *)
(***************************************************************************)
ConfigInv == TypeOK /\ CoverageInOrder

LEMMA ConfigInit == Init => ConfigInv
<1> SUFFICES ASSUME Init PROVE ConfigInv
    OBVIOUS
<1>1. <<>> \o <<>> = <<>> /\ <<>> \in Seq(Handles)
    BY ConcatEmptySeq, EmptySeq
<1>2. QED
    BY <1>1, SMT DEF Init, ConfigInv, TypeOK, CoverageInOrder, MaxTimeout, Modes

\* from_str yields a mode or Err.
LEMMA FromStrModes ==
    ASSUME NEW w
    PROVE  TraceModeFromStr(w) \in Modes \cup {"Err"}
<1>1. CASE w = "once"
    BY <1>1, Zenon DEF TraceModeFromStr, Modes
<1>2. CASE w \in {"hit_count", "hitcount"}
    BY <1>2, Zenon DEF TraceModeFromStr, Modes
<1>3. CASE w # "once" /\ w \notin {"hit_count", "hitcount"}
    BY <1>3, Zenon DEF TraceModeFromStr, Modes
<1>4. QED
    BY <1>1, <1>2, <1>3

\* A step that keeps the configuration fields and leaves the map lists
\* and the result typed keeps TypeOK.
LEMMA TypeFrame ==
    ASSUME TypeOK, UNCHANGED <<faults, timeout, trace_mode, added>>,
           maps' \in Seq(Handles), taken' \in Seq(Handles),
           result' \in {"none", "ok", "err"}
    PROVE  TypeOK'
BY DEF TypeOK

\* A step that only grows the map lists, keeping them sequences of handles,
\* keeps TypeOK.
LEMMA PushFrame ==
    ASSUME TypeOK, UNCHANGED <<faults, timeout, trace_mode, taken, result>>,
           maps' \in Seq(Handles), added' \in Seq(Handles)
    PROVE  TypeOK'
BY DEF TypeOK

\* coverage() takes the first map, if any.
LEMMA CoverageStep ==
    ASSUME ConfigInv, Coverage
    PROVE  ConfigInv'
<1>1. maps \in Seq(Handles) /\ taken \in Seq(Handles)
    BY DEF ConfigInv, TypeOK
<1>2. SelectInSeq(maps, IsCoverage) = IF maps = <<>> THEN 0 ELSE 1
    BY <1>1, SelectFirst
<1>3. CASE maps = <<>>
    BY <1>2, <1>3 DEF Coverage, ConfigInv, TypeOK, CoverageInOrder
<1>4. CASE maps # <<>>
    <2>1. /\ taken' = Append(taken, maps[1])
          /\ maps' = RemoveAt(maps, 1)
          /\ result' = "ok"
          /\ UNCHANGED <<faults, timeout, trace_mode, added>>
        BY <1>2, <1>4 DEF Coverage
    <2>2. maps' = Tail(maps) /\ Tail(maps) \in Seq(Handles)
          /\ maps[1] \in Handles
        BY <1>1, <1>4, <2>1, RemoveAtFirst, HeadTailProperties
    <2>3. taken' \in Seq(Handles)
        BY <1>1, <2>1, <2>2, AppendProperties
    <2>4. taken' \o maps' = (taken \o <<maps[1]>>) \o Tail(maps)
        BY <1>1, <2>1, <2>2, AppendIsConcat
    <2>5. (taken \o <<maps[1]>>) \o Tail(maps) = taken \o (<<maps[1]>> \o Tail(maps))
        <3>1. <<maps[1]>> \in Seq(Handles)
            BY <2>2
        <3>2. QED
            BY <1>1, <2>2, <3>1, ConcatAssociative
    <2>6. <<maps[1]>> \o Tail(maps) = maps
        BY <1>1, <1>4, HeadThenTail
    <2>7. CoverageInOrder'
        BY <2>1, <2>4, <2>5, <2>6 DEF ConfigInv, CoverageInOrder
    <2>8. TypeOK'
        BY <2>1, <2>2, <2>3, TypeFrame DEF ConfigInv
    <2>9. QED
        BY <2>7, <2>8 DEF ConfigInv
<1>5. QED
    BY <1>3, <1>4

LEMMA ConfigStep == ConfigInv /\ [Next]_vars => ConfigInv'
<1> SUFFICES ASSUME ConfigInv, [Next]_vars PROVE ConfigInv'
    OBVIOUS
<1>0. /\ maps \in Seq(Handles) /\ added \in Seq(Handles)
      /\ taken \in Seq(Handles)
    BY DEF ConfigInv, TypeOK
<1>1. ASSUME NEW f \in Fault, WithFault(f) PROVE ConfigInv'
    BY <1>1 DEF WithFault, ConfigInv, TypeOK, CoverageInOrder
<1>2. ASSUME NEW S \in SUBSET Fault, WithFaults(S) PROVE ConfigInv'
    BY <1>2 DEF WithFaults, ConfigInv, TypeOK, CoverageInOrder
<1>3. ASSUME NEW x \in Durations, NEW den \in {1, 1000, 1000000},
             WithTimeout(x, den)
      PROVE  ConfigInv'
    BY <1>3 DEF WithTimeout, ConfigInv, TypeOK, CoverageInOrder
<1>4. ASSUME NEW m \in Modes, WithTraceMode(m) PROVE ConfigInv'
    BY <1>4 DEF WithTraceMode, ConfigInv, TypeOK, CoverageInOrder
<1>5. ASSUME NEW t \in Text, ParseTraceMode(t) PROVE ConfigInv'
    BY <1>5, FromStrModes DEF ParseTraceMode, ConfigInv, TypeOK,
       CoverageInOrder
<1>6. ASSUME NEW h \in Handles, WithMap(h) PROVE ConfigInv'
    <2>1. /\ <<h>> \in Seq(Handles)
          /\ maps' = maps \o <<h>> /\ added' = added \o <<h>>
          /\ maps' \in Seq(Handles) /\ added' \in Seq(Handles)
        BY <1>0, <1>6, AppendIsConcat, AppendProperties DEF WithMap
    <2>2. UNCHANGED <<faults, timeout, trace_mode, taken, result>>
        BY <1>6 DEF WithMap
    <2>3. TypeOK'
        BY <2>1, <2>2, PushFrame DEF ConfigInv
    <2>4. (taken \o maps) \o <<h>> = taken \o (maps \o <<h>>)
        BY <1>0, <2>1, ConcatAssociative
    <2>5. CoverageInOrder'
        BY <2>1, <2>2, <2>4 DEF ConfigInv, CoverageInOrder
    <2>6. QED
        BY <2>3, <2>5 DEF ConfigInv
<1>7. ASSUME NEW h1 \in Handles, NEW h2 \in Handles, WithMaps(<<h1, h2>>)
      PROVE  ConfigInv'
    <2> DEFINE hs == <<h1, h2>>
    <2>1. hs \in Seq(Handles)
        OBVIOUS
    <2>2. /\ maps' = maps \o hs /\ added' = added \o hs
          /\ maps' \in Seq(Handles) /\ added' \in Seq(Handles)
        BY <1>0, <1>7, <2>1, ConcatProperties DEF WithMaps
    <2>3. UNCHANGED <<faults, timeout, trace_mode, taken, result>>
        BY <1>7 DEF WithMaps
    <2>4. TypeOK'
        BY <2>2, <2>3, PushFrame DEF ConfigInv
    <2>5. (taken \o maps) \o hs = taken \o (maps \o hs)
        BY <1>0, <2>1, ConcatAssociative
    <2>6. CoverageInOrder'
        BY <2>2, <2>3, <2>5 DEF ConfigInv, CoverageInOrder
    <2>7. QED
        BY <2>4, <2>6 DEF ConfigInv
<1>8. CASE Coverage
    BY <1>8, CoverageStep
<1>9. CASE UNCHANGED vars
    BY <1>9 DEF vars, ConfigInv, TypeOK, CoverageInOrder
<1>10. CASE \E f \in Fault : WithFault(f)
    BY <1>10, <1>1
<1>11. CASE \E S \in SUBSET Fault : WithFaults(S)
    BY <1>11, <1>2
<1>12. CASE \E x \in Durations, den \in {1, 1000, 1000000} : WithTimeout(x, den)
    BY <1>12, <1>3
<1>13. CASE \E m \in Modes : WithTraceMode(m)
    BY <1>13, <1>4
<1>14. CASE \E t \in Text : ParseTraceMode(t)
    BY <1>14, <1>5
<1>15. CASE \E h \in Handles : WithMap(h)
    BY <1>15, <1>6
<1>16. CASE \E h1, h2 \in Handles : WithMaps(<<h1, h2>>)
    BY <1>16, <1>7
<1>17. QED
    BY <1>8, <1>9, <1>10, <1>11, <1>12, <1>13, <1>14, <1>15, <1>16 DEF Next

\* Every reachable configuration is well typed: the fault set, a timeout
\* that is f64::MAX or a duration over 1, 1000 or 1000000, a trace mode,
\* and sequences of handles, for every value of the constants.
LEMMA TypeCorrect == Spec => []TypeOK
<1>1. Spec => []ConfigInv
    BY ConfigInit, ConfigStep, PTL DEF Spec
<1>2. QED
    BY <1>1, PTL DEF ConfigInv

\* to_string and from_str are inverse on every mode: a trace mode the
\* builders, or a successful from_str, put in the config is read back as
\* itself from its text.
LEMMA RoundTripOfModes ==
    ASSUME NEW m \in Modes
    PROVE  TraceModeFromStr(TraceModeToString(m)) = m
BY DEF Modes, TraceModeToString, TraceModeFromStr

\* The trace mode the config holds survives the round trip through its text
\* in every reachable state (from_str never stores its Err).
THEOREM TraceModeRoundTripHolds == Spec => []TraceModeRoundTrip
<1>1. TypeOK => TraceModeRoundTrip
    BY RoundTripOfModes DEF TypeOK, TraceModeRoundTrip
<1>2. QED
    BY <1>1, TypeCorrect, PTL

\* coverage() hands out every map pushed exactly once and in the order it
\* was pushed, however with_map, with_maps and coverage() interleave, for
\* any number of maps and any handles.
THEOREM CoverageInOrderHolds == Spec => []CoverageInOrder
<1>1. Spec => []ConfigInv
    BY ConfigInit, ConfigStep, PTL DEF Spec
<1>2. QED
    BY <1>1, PTL DEF ConfigInv

=============================================================================
