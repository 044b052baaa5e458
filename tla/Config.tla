------------------------------- MODULE Config -------------------------------
(***************************************************************************)
(* The configuration the fuzzer builds and the module returns              *)
(* (confuse_module config/mod.rs): the InputConfig builders, the           *)
(* TraceMode conversions to and from text, and the OutputConfig list of    *)
(* memory maps from which the client takes its coverage map.  The timeout *)
(* builders divide an f64 that nothing here reads; it is kept as an exact  *)
(* fraction of seconds, without the rounding of the division.             *)
(***************************************************************************)
EXTENDS Naturals, Sequences, SequencesExt

CONSTANTS
    Fault,      \* the faults a campaign may name
    Handles,    \* shared-memory handles a map may carry
    MaxMaps,    \* bound on the number of maps pushed in a behaviour
    Durations   \* the numbers the timeout builders may be passed

ASSUME MaxMapsAssumption == MaxMaps \in Nat
ASSUME DurationsAssumption == Durations \subseteq Nat \ {0}

Modes == {"Once", "HitCount"}

\* A string handed to from_str, as what to_lowercase keeps of it (the word)
\* and what it drops (the letter case).
Words == {"once", "hit_count", "hitcount", "hit-count"}
Cases == {"lower", "upper", "mixed"}
Text == [word : Words, case : Cases]

\* MapType has the single variant Coverage(IpcShm): a map is its handle.
VARIABLES
    faults,     \* InputConfig.faults
    timeout,    \* InputConfig.timeout in seconds, as the fraction num / den
    trace_mode, \* InputConfig.trace_mode
    maps,       \* OutputConfig.maps
    added,      \* every map pushed, in order
    taken,      \* every map coverage() returned, in order
    result      \* what the last fallible call returned

vars == <<faults, timeout, trace_mode, maps, added, taken, result>>

\* f64::MAX, the default: no bound, written with a zero denominator.
MaxTimeout == [num |-> 1, den |-> 0]

TypeOK ==
    /\ faults \in SUBSET Fault
    /\ timeout \in {MaxTimeout} \cup [num : Durations, den : {1, 1000, 1000000}]
    /\ trace_mode \in Modes
    /\ maps \in Seq(Handles)
    /\ added \in Seq(Handles)
    /\ taken \in Seq(Handles)
    /\ result \in {"none", "ok", "err"}

\* TraceMode::to_string.
TraceModeToString(m) == IF m = "Once" THEN "once" ELSE "hit_count"

\* Mutant: the "hit_count" arm of from_str lost, only "hitcount" kept.
TraceModeFromStrNoUnderscore(w) ==
    CASE w = "once" -> "Once"
      [] w = "hitcount" -> "HitCount"
      [] OTHER -> "Err"

\* TraceMode::from_str on the lowercased text: "Err" for bail!.
TraceModeFromStr(w) ==
    CASE w = "once" -> "Once"
      [] w \in {"hit_count", "hitcount"} -> "HitCount"
      [] OTHER -> "Err"

\* InputConfig::default and OutputConfig::default.
Init ==
    /\ faults = {}
    /\ timeout = MaxTimeout
    /\ trace_mode = "HitCount"
    /\ maps = <<>>
    /\ added = <<>>
    /\ taken = <<>>
    /\ result = "none"

\* with_fault: insert into the HashSet.
WithFault(f) ==
    /\ faults' = faults \cup {f}
    /\ UNCHANGED <<timeout, trace_mode, maps, added, taken, result>>

\* with_faults: insert each.
WithFaults(S) ==
    /\ faults' = faults \cup S
    /\ UNCHANGED <<timeout, trace_mode, maps, added, taken, result>>

\* with_timeout_seconds, with_timeout_milliseconds (/ 1000.0) and
\* with_timeout_microseconds (/ 1_000_000.0).
WithTimeout(x, den) ==
    /\ timeout' = [num |-> x, den |-> den]
    /\ UNCHANGED <<faults, trace_mode, maps, added, taken, result>>

\* with_trace_mode.
WithTraceMode(m) ==
    /\ trace_mode' = m
    /\ UNCHANGED <<faults, timeout, maps, added, taken, result>>

\* from_str, then with_trace_mode on success.
ParseTraceMode(t) ==
    LET m == TraceModeFromStr(t.word)
    IN  /\ IF m = "Err"
             THEN /\ result' = "err"
                  /\ UNCHANGED trace_mode
             ELSE /\ result' = "ok"
                  /\ trace_mode' = m
        /\ UNCHANGED <<faults, timeout, maps, added, taken>>

\* with_map: push.
WithMap(h) ==
    /\ Len(added) < MaxMaps
    /\ maps' = Append(maps, h)
    /\ added' = Append(added, h)
    /\ UNCHANGED <<faults, timeout, trace_mode, taken, result>>

\* with_maps: push each, in the iterator's order.
WithMaps(hs) ==
    /\ Len(added) + Len(hs) <= MaxMaps
    /\ maps' = maps \o hs
    /\ added' = added \o hs
    /\ UNCHANGED <<faults, timeout, trace_mode, taken, result>>

\* Every map is a coverage map.
IsCoverage(h) == TRUE

\* Mutant: the last coverage map taken instead of the first.
CoverageLast ==
    LET pos == IF maps = <<>> THEN 0 ELSE Len(maps)
    IN  /\ IF pos = 0
             THEN /\ result' = "err"
                  /\ UNCHANGED <<maps, taken>>
             ELSE /\ result' = "ok"
                  /\ taken' = Append(taken, maps[pos])
                  /\ maps' = RemoveAt(maps, pos)
        /\ UNCHANGED <<faults, timeout, trace_mode, added>>

\* coverage(): remove the first coverage map and return its handle, or
\* fail with "No coverage map found".
Coverage ==
    LET pos == SelectInSeq(maps, IsCoverage)
    IN  /\ IF pos = 0
             THEN /\ result' = "err"
                  /\ UNCHANGED <<maps, taken>>
             ELSE /\ result' = "ok"
                  /\ taken' = Append(taken, maps[pos])
                  /\ maps' = RemoveAt(maps, pos)
        /\ UNCHANGED <<faults, timeout, trace_mode, added>>

Next ==
    \/ \E f \in Fault : WithFault(f)
    \/ \E S \in SUBSET Fault : WithFaults(S)
    \/ \E x \in Durations, den \in {1, 1000, 1000000} : WithTimeout(x, den)
    \/ \E m \in Modes : WithTraceMode(m)
    \/ \E t \in Text : ParseTraceMode(t)
    \/ \E h \in Handles : WithMap(h)
    \/ \E h1, h2 \in Handles : WithMaps(<<h1, h2>>)
    \/ Coverage

Spec == Init /\ [][Next]_vars

(***************************************************************************)
(* Properties.                                                             *)
(***************************************************************************)

\* The configured trace mode, written out with to_string and read back
\* with from_str, is the same mode, whichever mode the builders and
\* parses have left in the config.
TraceModeRoundTrip == TraceModeFromStr(TraceModeToString(trace_mode)) = trace_mode

\* coverage() hands out every map pushed exactly once and in the order it
\* was pushed, with with_map and with_maps interleaved: what was taken
\* followed by what is left is what was added.
CoverageInOrder == taken \o maps = added

=============================================================================
