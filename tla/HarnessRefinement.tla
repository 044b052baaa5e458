-------------------------- MODULE HarnessRefinement --------------------------
(***************************************************************************)
(* Proof that the coordinator implements the abstract message protocol     *)
(* (HarnessProtocol under log <- hist) when every Err aborts and the guest *)
(* faults only after its start magic, and hence that its message log is    *)
(* well formed.                                                            *)
(***************************************************************************)
EXTENDS HarnessProofs

\* The abstract protocol's theorems, about the harness's log.
PP == INSTANCE ProtocolProofs WITH log <- hist

USE ExceptionsAssumption, InputAssumption, BufAssumption, MaxRunsAssumption,
    FlagsAssumption

(***************************************************************************)
(* The control state of the harness determines the last message of its    *)
(* log (LogInv).  Before the first start is handled, the guest is either   *)
(* before its start magic with no stop pending, or stopped at it with      *)
(* Start pending (GuestInv): that is why no Stopped can be reported        *)
(* before the first Ready, and why the guard ~FaultsBeforeStart is needed. *)
(***************************************************************************)
LogInv ==
    /\ hpc \in {"boot", "awaitInit"} => hist = <<>> /\ ~initialized
    /\ hpc \in {"idle", "awaitRun", "awaitReset"} => hist # <<>>
    /\ hpc \in {"awaitRun", "awaitReset"} => initialized
    /\ hpc = "awaitRun" => Protocol!LastOf(hist) = "Ready"
    /\ hpc = "awaitReset" => Protocol!LastOf(hist) = "Stopped"
    /\ hpc = "idle" /\ initialized => Protocol!LastOf(hist) = "Run"
    /\ hpc = "idle" /\ ~initialized => Protocol!LastOf(hist) = "SharedMem"

GuestInv ==
    hpc # "failed" /\ ~initialized =>
        \/ guest = "pre" /\ stop_reason = "None"
        \/ guest = "start" /\ stop_reason = "Start" /\ sim = "stopping"

ProtoInv == LogInv /\ GuestInv

\* Steps that leave the control state, the log and the flag alone keep LogInv.
LEMMA LogFrame ==
    ASSUME LogInv, UNCHANGED <<hpc, hist, initialized>>
    PROVE  LogInv'
BY DEF LogInv, Protocol!LastOf

\* Steps that touch neither the control state nor the guest keep GuestInv.
LEMMA GuestFrame ==
    ASSUME GuestInv, UNCHANGED <<hpc, initialized, guest, stop_reason, sim>>
    PROVE  GuestInv'
BY DEF GuestInv

\* Appending to a log makes the appended message its last one.
LEMMA LastOfAppend ==
    ASSUME NEW s \in Seq(EventType), NEW e \in EventType
    PROVE  Append(s, e) # <<>> /\ Protocol!LastOf(Append(s, e)) = e
BY AppendProperties, EmptySeq DEF Protocol!LastOf

LEMMA ProtoInit == Init => ProtoInv
BY DEF Init, ProtoInv, LogInv, GuestInv

\* The steps of the script, the fuzzer and the final stutter touch neither
\* the harness's control state, its log nor the guest.
LEMMA EnvFrame ==
    ASSUME [Next]_vars,
           \/ SetProcessor \/ SignalStart \/ Terminated \/ UNCHANGED vars
           \/ FuzzerInitialize \/ FuzzerRecvShm \/ FuzzerRecvReady
           \/ FuzzerRecvStopped \/ FuzzerProtocolError \/ FuzzerExit
           \/ FuzzerPeerGone \/ FuzzerCrash
    PROVE  UNCHANGED <<hpc, hist, initialized, guest, stop_reason, sim>>
BY Zenon DEF SetProcessor, SignalStart, Terminated, vars, FuzzerInitialize,
             FuzzerRecvShm, FuzzerRecvReady, FuzzerRecvStopped,
             FuzzerProtocolError, FuzzerExit, FuzzerPeerGone, FuzzerCrash,
             ctxVars, simVars, netVars, fuzzVars

\* The simulator's and the guest's steps, and the handle_stop branches
\* that send nothing, keep the control state and the log.
LEMMA SimFrame ==
    ASSUME \/ SimContinue \/ UserBreak \/ GuestStep \/ MagicStart
           \/ MagicStop \/ GuestFault \/ StopNone \/ StartAgain
    PROVE  UNCHANGED <<hpc, hist, initialized>>
BY Zenon DEF SimContinue, UserBreak, GuestStep, MagicStart, MagicStop,
             GuestFault, Classify, StopNone, StartAgain, ctxVars, simVars,
             netVars, fuzzVars

\* Before the first start is handled the guest can only reach its start
\* magic: no stop magic and, with ~FaultsBeforeStart, no fault.
LEMMA SimGuest ==
    ASSUME ~FaultsBeforeStart, BoolOK, GuestInv,
           \/ SimContinue \/ UserBreak \/ GuestStep \/ MagicStart
           \/ MagicStop \/ GuestFault \/ StopNone \/ StartAgain
    PROVE  GuestInv'
<1> USE DEF ctxVars, simVars, netVars, fuzzVars
<1>1. CASE SimContinue \/ UserBreak
    BY <1>1, Zenon DEF SimContinue, UserBreak, GuestInv, BoolOK
<1>2. CASE GuestStep \/ MagicStop
    BY <1>2, Zenon DEF GuestStep, MagicStop, Classify, GuestInv, BoolOK
<1>3. CASE MagicStart
    BY <1>3, Zenon DEF MagicStart, Classify, GuestInv, BoolOK
<1>4. CASE GuestFault
    BY <1>4, Zenon DEF GuestFault, Classify, GuestInv, BoolOK
<1>5. CASE StopNone \/ StartAgain
    BY <1>5, Zenon DEF StopNone, StartAgain, Stopping, GuestInv, BoolOK
<1>6. QED
    BY <1>1, <1>2, <1>3, <1>4, <1>5

\* The bootstrap: connecting leaves the log empty, Initialize starts it with
\* the handshake, and a hang-up ends the harness.
LEMMA BootStep ==
    ASSUME TypeInv, ProtoInv, Connect \/ RecvInitialize \/ InitGone
    PROVE  ProtoInv' /\ [Protocol!Next]_hist
<1> USE DEF ctxVars, simVars, netVars, fuzzVars
<1>0. BoolOK
    BY DEF TypeInv, TypeOK, BoolOK
<1>1. CASE Connect \/ InitGone
    <2>1. hpc \in {"boot", "awaitInit"} /\ hpc' \in {"awaitInit", "failed"}
          /\ UNCHANGED <<hist, initialized, guest, stop_reason, sim>>
        BY <1>1, Zenon DEF Connect, InitGone
    <2>2. LogInv'
        BY <2>1 DEF ProtoInv, LogInv
    <2>3. GuestInv'
        BY <2>1 DEF ProtoInv, GuestInv
    <2>4. QED
        BY <2>1, <2>2, <2>3 DEF ProtoInv
<1>2. CASE RecvInitialize
    <2>1. hist = <<>> /\ ~initialized
        BY <1>2 DEF RecvInitialize, ProtoInv, LogInv
    <2>2. hist' = <<"Initialize", "SharedMem">>
        BY <1>2, <2>1, ConcatEmptySeq DEF RecvInitialize
    <2>3. hpc' = "idle" /\ UNCHANGED <<initialized, guest, stop_reason, sim>>
        BY <1>2, Zenon DEF RecvInitialize
    <2>4. LogInv'
        BY <2>1, <2>2, <2>3, <1>0 DEF LogInv, Protocol!LastOf, BoolOK
    <2>5. GuestInv'
        BY <1>2, <2>3 DEF RecvInitialize, ProtoInv, GuestInv
    <2>6. Protocol!Handshake
        BY <2>1, <2>2 DEF Protocol!Handshake
    <2>7. QED
        BY <2>4, <2>5, <2>6 DEF ProtoInv, Protocol!Next
<1>3. QED
    BY <1>1, <1>2

\* The first start sends the first Ready; without a processor or a peer the
\* harness aborts with its log unchanged.
LEMMA StartFirstStep ==
    ASSUME ErrorsAbort, TypeInv, ProtoInv, StartFirst
    PROVE  ProtoInv' /\ [Protocol!Next]_hist
<1> USE DEF ctxVars, simVars, netVars, fuzzVars
<1>0. BoolOK /\ hist \in Seq(EventType)
    BY DEF TypeInv, TypeOK, BoolOK
<1>1. hpc = "idle" /\ ~initialized
    BY Zenon DEF StartFirst, Stopping
<1>2. hist # <<>> /\ Protocol!LastOf(hist) = "SharedMem"
    BY <1>1 DEF ProtoInv, LogInv
<1>3. CASE processor /\ PeerOpen
    <2>1. hist' = Append(hist, "Ready") /\ hpc' = "awaitRun" /\ initialized'
        BY <1>3, Zenon DEF StartFirst
    <2>2. hist' # <<>> /\ Protocol!LastOf(hist') = "Ready"
        BY <1>0, <2>1, LastOfAppend DEF EventType
    <2>3. LogInv'
        BY <2>1, <2>2 DEF LogInv
    <2>4. GuestInv'
        BY <2>1 DEF GuestInv
    <2>5. Protocol!Announce
        BY <1>2, <2>1 DEF Protocol!Announce
    <2>6. QED
        BY <2>3, <2>4, <2>5 DEF ProtoInv, Protocol!Next
<1>4. CASE ~(processor /\ PeerOpen)
    <2>1. hpc' = "failed" /\ hist' = hist
        BY <1>4, Zenon DEF StartFirst, ErrorHpc
    <2>2. QED
        BY <2>1 DEF ProtoInv, LogInv, GuestInv
<1>5. QED
    BY <1>3, <1>4

\* A stop or a crash is reported only after a Run: before the first start
\* is handled no Stop or Crash can be pending (GuestInv).
LEMMA ReportStep ==
    ASSUME ErrorsAbort, TypeInv, ProtoInv, HandleMagicStop \/ HandleCrash
    PROVE  ProtoInv' /\ [Protocol!Next]_hist
<1> USE DEF ctxVars, simVars, netVars, fuzzVars
<1>0. BoolOK /\ hist \in Seq(EventType)
    BY DEF TypeInv, TypeOK, BoolOK
<1>1. PICK k \in {"Normal", "Crash"} :
          stop_reason \in {"Stop", "Crash"} /\ ReportStop(k)
    BY Zenon DEF HandleMagicStop, HandleCrash
<1>2. hpc = "idle" /\ initialized
    BY <1>0, <1>1, Zenon DEF ReportStop, Stopping, ProtoInv, GuestInv, BoolOK
<1>3. hist # <<>> /\ Protocol!LastOf(hist) = "Run"
    BY <1>2 DEF ProtoInv, LogInv
<1>4. UNCHANGED initialized
    BY <1>1, Zenon DEF ReportStop
<1>5. CASE PeerOpen
    <2>1. hist' = Append(hist, "Stopped") /\ hpc' \in {"awaitReset", "failed"}
        BY <1>1, <1>5, Zenon DEF ReportStop, ErrorHpc
    <2>2. hist' # <<>> /\ Protocol!LastOf(hist') = "Stopped"
        BY <1>0, <2>1, LastOfAppend DEF EventType
    <2>3. LogInv'
        BY <1>2, <1>4, <2>1, <2>2 DEF LogInv
    <2>4. GuestInv'
        BY <1>2, <1>4 DEF GuestInv
    <2>5. Protocol!Report
        BY <1>3, <2>1 DEF Protocol!Report
    <2>6. QED
        BY <2>3, <2>4, <2>5 DEF ProtoInv, Protocol!Next
<1>6. CASE ~PeerOpen
    <2>1. hpc' = "failed" /\ hist' = hist
        BY <1>1, <1>6, Zenon DEF ReportStop, ErrorHpc
    <2>2. QED
        BY <2>1 DEF ProtoInv, LogInv, GuestInv
<1>7. QED
    BY <1>5, <1>6

\* Appending a verdict and Ready makes Ready the last message.
LEMMA LastOfConcat ==
    ASSUME NEW s \in Seq(EventType), NEW t \in EventType
    PROVE  s \o <<t, "Ready">> # <<>>
           /\ Protocol!LastOf(s \o <<t, "Ready">>) = "Ready"
<1>1. <<t, "Ready">> \in Seq(EventType)
    BY DEF EventType
<1>2. Len(s \o <<t, "Ready">>) = Len(s) + 2
      /\ (s \o <<t, "Ready">>)[Len(s) + 2] = "Ready"
    BY <1>1, ConcatProperties
<1>3. QED
    BY <1>2 DEF Protocol!LastOf

\* Reset or Stop after Stopped: the verdict is logged, and Ready with it
\* while the fuzzer is there; anything else aborts with the log unchanged.
LEMMA VerdictStep ==
    ASSUME ErrorsAbort, TypeInv, ProtoInv,
           RecvResetAfterStop \/ RecvResetAfterCrash
    PROVE  ProtoInv' /\ [Protocol!Next]_hist
<1> USE DEF ctxVars, simVars, netVars, fuzzVars
<1>0. BoolOK /\ hist \in Seq(EventType) /\ toHarness \in Seq(FuzzerEvent)
    BY DEF TypeInv, TypeOK, BoolOK
<1>1. RecvResetOrStop
    BY Zenon DEF RecvResetAfterStop, RecvResetAfterCrash
<1>2. hpc = "awaitReset" /\ initialized /\ UNCHANGED initialized
    BY <1>1, Zenon DEF RecvResetOrStop, ProtoInv, LogInv
<1>3. hist # <<>> /\ Protocol!LastOf(hist) = "Stopped"
    BY <1>2 DEF ProtoInv, LogInv
<1> DEFINE m == Head(toHarness)
<1>4. m \in FuzzerEvent
    BY <1>0, <1>1, HeadTailProperties DEF RecvResetOrStop
<1>5. CASE m.type \in {"Reset", "Stop"} /\ PeerOpen
    <2>1. hist' = hist \o <<m.type, "Ready">> /\ hpc' \in {"awaitRun", "failed"}
        BY <1>1, <1>5, Zenon DEF RecvResetOrStop, ErrorHpc
    <2>2. hist' # <<>> /\ Protocol!LastOf(hist') = "Ready"
        BY <1>0, <1>5, <2>1, LastOfConcat DEF EventType
    <2>3. ProtoInv'
        BY <1>2, <2>1, <2>2 DEF ProtoInv, LogInv, GuestInv
    <2>4. Protocol!ConcludeAndAnnounce(m.type)
        BY <1>3, <2>1 DEF Protocol!ConcludeAndAnnounce
    <2>5. QED
        BY <1>5, <2>3, <2>4 DEF Protocol!Next, Protocol!Verdicts
<1>6. CASE m.type \in {"Reset", "Stop"} /\ ~PeerOpen
    <2>1. hist' = Append(hist, m.type) /\ hpc' = "failed"
        BY <1>1, <1>6, Zenon DEF RecvResetOrStop, ErrorHpc
    <2>2. ProtoInv'
        BY <2>1 DEF ProtoInv, LogInv, GuestInv
    <2>3. Protocol!Conclude(m.type)
        BY <1>3, <2>1 DEF Protocol!Conclude
    <2>4. QED
        BY <1>6, <2>2, <2>3 DEF Protocol!Next, Protocol!Verdicts
<1>7. CASE m.type \notin {"Reset", "Stop"}
    <2>1. hist' = hist /\ hpc' = "failed"
        BY <1>1, <1>7, Zenon DEF RecvResetOrStop, ErrorHpc
    <2>2. QED
        BY <2>1 DEF ProtoInv, LogInv, GuestInv
<1>8. QED
    BY <1>5, <1>6, <1>7

\* Run in answer to Ready is logged; anything else, or a hang-up, aborts.
LEMMA RunStep ==
    ASSUME ErrorsAbort, TypeInv, ProtoInv,
           \/ RecvRunAfterStart \/ RecvRunAfterStop \/ RecvRunAfterCrash
           \/ PeerGone
    PROVE  ProtoInv' /\ [Protocol!Next]_hist
<1> USE DEF ctxVars, simVars, netVars, fuzzVars
<1>0. BoolOK /\ hist \in Seq(EventType)
    BY DEF TypeInv, TypeOK, BoolOK
<1>1. CASE PeerGone
    <2>1. hpc' = "failed" /\ hist' = hist
        BY <1>1, Zenon DEF PeerGone, ErrorHpc
    <2>2. QED
        BY <2>1 DEF ProtoInv, LogInv, GuestInv
<1>2. CASE RecvRun
    <2>1. hpc = "awaitRun" /\ initialized /\ UNCHANGED initialized
        BY <1>2, Zenon DEF RecvRun, ProtoInv, LogInv
    <2>2. hist # <<>> /\ Protocol!LastOf(hist) = "Ready"
        BY <2>1 DEF ProtoInv, LogInv
    <2>3. CASE Head(toHarness).type = "Run"
        <3>1. hist' = Append(hist, "Run") /\ hpc' = "idle"
            BY <1>2, <2>3, Zenon DEF RecvRun
        <3>2. hist' # <<>> /\ Protocol!LastOf(hist') = "Run"
            BY <1>0, <3>1, LastOfAppend DEF EventType
        <3>3. ProtoInv'
            BY <2>1, <3>1, <3>2 DEF ProtoInv, LogInv, GuestInv
        <3>4. Protocol!Accept
            BY <2>2, <3>1 DEF Protocol!Accept
        <3>5. QED
            BY <3>3, <3>4 DEF Protocol!Next
    <2>4. CASE Head(toHarness).type # "Run"
        <3>1. hpc' = "failed" /\ hist' = hist
            BY <1>2, <2>4, Zenon DEF RecvRun, ErrorHpc
        <3>2. QED
            BY <3>1 DEF ProtoInv, LogInv, GuestInv
    <2>5. QED
        BY <2>3, <2>4
<1>3. QED
    BY <1>1, <1>2, Zenon DEF RecvRunAfterStart, RecvRunAfterStop,
                            RecvRunAfterCrash

LEMMA ProtoStep ==
    ASSUME ErrorsAbort, ~FaultsBeforeStart
    PROVE  TypeInv /\ ProtoInv /\ [Next]_vars =>
               ProtoInv' /\ [Protocol!Next]_hist
<1> SUFFICES ASSUME TypeInv, ProtoInv, [Next]_vars
             PROVE  ProtoInv' /\ [Protocol!Next]_hist
    OBVIOUS
<1>0. BoolOK
    BY DEF TypeInv, TypeOK, BoolOK
<1>1. CASE \/ SetProcessor \/ SignalStart \/ Terminated \/ UNCHANGED vars
           \/ FuzzerInitialize \/ FuzzerRecvShm \/ FuzzerRecvReady
           \/ FuzzerRecvStopped \/ FuzzerProtocolError \/ FuzzerExit
           \/ FuzzerPeerGone \/ FuzzerCrash
    <2>1. UNCHANGED <<hpc, hist, initialized, guest, stop_reason, sim>>
        BY <1>1, EnvFrame
    <2>2. QED
        BY <2>1, LogFrame, GuestFrame DEF ProtoInv
<1>2. CASE \/ SimContinue \/ UserBreak \/ GuestStep \/ MagicStart
           \/ MagicStop \/ GuestFault \/ StopNone \/ StartAgain
    <2>1. UNCHANGED <<hpc, hist, initialized>>
        BY <1>2, SimFrame
    <2>2. GuestInv'
        BY <1>0, <1>2, SimGuest DEF ProtoInv
    <2>3. QED
        BY <2>1, <2>2, LogFrame DEF ProtoInv
<1>3. CASE Connect \/ RecvInitialize \/ InitGone
    BY <1>3, BootStep
<1>4. CASE StartFirst
    BY <1>4, StartFirstStep
<1>5. CASE HandleMagicStop \/ HandleCrash
    BY <1>5, ReportStep
<1>6. CASE RecvResetAfterStop \/ RecvResetAfterCrash
    BY <1>6, VerdictStep
<1>7. CASE \/ RecvRunAfterStart \/ RecvRunAfterStop \/ RecvRunAfterCrash
           \/ PeerGone
    BY <1>7, RunStep
<1>8. QED
    BY <1>1, <1>2, <1>3, <1>4, <1>5, <1>6, <1>7 DEF Next

\* When every Err out of handle_stop aborts and the guest faults only after
\* its start magic, every behaviour of the coordinator is one of the
\* abstract protocol's: each step either extends the log the way
\* HarnessProtocol allows or leaves it alone.
THEOREM Refinement ==
    ASSUME ErrorsAbort, ~FaultsBeforeStart
    PROVE  Spec => ImplementsProtocol
<1>1. Init => TypeInv /\ ProtoInv /\ Protocol!Init
    BY TypeInit, ProtoInit DEF Init, Protocol!Init
<1>2. TypeInv /\ ProtoInv /\ [Next]_vars =>
          (TypeInv /\ ProtoInv)' /\ [Protocol!Next]_hist
    BY TypeStep, ProtoStep
<1>3. QED
    BY <1>1, <1>2, PTL DEF Spec, ImplementsProtocol, Protocol!Spec

\* Hence the log of the coordinator is well formed (spec §4.6, §8
\* invariants 1 and 2): Initialize, SharedMem, then Ready, Run, Stopped and
\* Reset or Stop in turn, for any fault set, input lengths, buffer sizes,
\* run budget, user breaks and fuzzer crashes.
THEOREM ProtocolOrderHolds ==
    ASSUME ErrorsAbort, ~FaultsBeforeStart
    PROVE  Spec => []ProtocolOrder
<1>1. Protocol!Spec => []Protocol!WellFormed
    BY PP!WellFormedHolds
    DEF PP!Spec, Protocol!Spec, PP!Init, Protocol!Init, PP!Next, Protocol!Next,
        PP!Handshake, Protocol!Handshake, PP!Announce, Protocol!Announce,
        PP!Accept, Protocol!Accept, PP!Report, Protocol!Report,
        PP!Conclude, Protocol!Conclude, PP!ConcludeAndAnnounce,
        Protocol!ConcludeAndAnnounce, PP!Verdicts, Protocol!Verdicts,
        PP!LastOf, Protocol!LastOf, PP!WellFormed, Protocol!WellFormed,
        PP!Follows, Protocol!Follows, PP!Steps, Protocol!Steps
<1>2. QED
    BY <1>1, Refinement, PTL DEF ProtocolOrder, ImplementsProtocol

=============================================================================
