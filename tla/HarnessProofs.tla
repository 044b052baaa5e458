---------------------------- MODULE HarnessProofs ----------------------------
(***************************************************************************)
(* Proofs about the Harness specification, for every value of its          *)
(* constants: type correctness, and the at-most-one-snapshot rule under    *)
(* the spec's error policy (every Err out of handle_stop aborts).          *)
(***************************************************************************)
EXTENDS Harness, SequenceTheorems, TLAPS

USE ExceptionsAssumption, InputAssumption, BufAssumption, MaxRunsAssumption,
    FlagsAssumption

(***************************************************************************)
(* TypeOK is not inductive by itself: FuzzerRecvReady adds one to `runs`,  *)
(* so the fuzzer must be known to wait for Ready only while its budget     *)
(* is not spent.                                                           *)
(***************************************************************************)
RunsBound == fpc \in {"listen", "awaitShm", "awaitReady"} => runs < MaxRuns

TypeInv == TypeOK /\ RunsBound

\* The Boolean fields, which the SMT backend does not type from an equation
\* such as initialized = FALSE; Zenon proves them.
BoolOK ==
    /\ initialized \in BOOLEAN
    /\ processor \in BOOLEAN
    /\ resume \in BOOLEAN
    /\ bootstrap \in BOOLEAN

\* What a message of each channel carries, by its type.
LEMMA FuzzerEventFields ==
    ASSUME NEW m \in FuzzerEvent
    PROVE  /\ m.type \in {"Initialize", "Run", "Reset", "Stop"}
           /\ m.type = "Initialize" => m.faults \in SUBSET FaultKind
           /\ m.type = "Run" => m.len \in InputLens
BY DEF FuzzerEvent, MsgInitialize, MsgRun, MsgReset, MsgStop

LEMMA SimicsEventFields ==
    ASSUME NEW m \in SimicsEvent
    PROVE  m.type \in {"SharedMem", "Ready", "Stopped"}
BY DEF SimicsEvent, MsgSharedMem, MsgReady, MsgStopped

LEMMA TypeInit == Init => TypeInv
<1> SUFFICES ASSUME Init PROVE TypeInv
    OBVIOUS
<1>1. BoolOK
    BY Zenon DEF Init, BoolOK
<1>2. QED
    BY <1>1 DEF Init, BoolOK, TypeInv, TypeOK, RunsBound

\* No step gives a Boolean field a non-Boolean value.
LEMMA BoolStep == BoolOK /\ [Next]_vars => BoolOK'
<1> SUFFICES ASSUME BoolOK, [Next]_vars PROVE BoolOK'
    OBVIOUS
<1> USE DEF BoolOK, ctxVars, simVars, netVars, fuzzVars
<1>1. CASE Connect \/ SetProcessor \/ SignalStart \/ SimContinue
    BY <1>1, Zenon DEF Connect, SetProcessor, SignalStart, SimContinue,
                      BoolOK, ctxVars
<1>2. CASE RecvInitialize \/ UserBreak \/ GuestStep \/ StopNone
    BY <1>2, Zenon DEF RecvInitialize, UserBreak, GuestStep, StopNone,
                      BoolOK, ctxVars, simVars
<1>3. CASE MagicStart \/ MagicStop \/ GuestFault
    BY <1>3, Zenon DEF MagicStart, MagicStop, GuestFault, Classify, BoolOK
<1>4. CASE StartAgain \/ StartFirst
    BY <1>4, Zenon DEF StartAgain, StartFirst, BoolOK
<1>5. CASE HandleMagicStop \/ HandleCrash
    BY <1>5, Zenon DEF HandleMagicStop, HandleCrash, ReportStop, BoolOK
<1>6. CASE RecvResetAfterStop \/ RecvResetAfterCrash
    BY <1>6, Zenon DEF RecvResetAfterStop, RecvResetAfterCrash,
                      RecvResetOrStop, BoolOK
<1>7. CASE RecvRunAfterStart \/ RecvRunAfterStop \/ RecvRunAfterCrash
    BY <1>7, Zenon DEF RecvRunAfterStart, RecvRunAfterStop, RecvRunAfterCrash,
                      RecvRun, BoolOK
<1>8. CASE PeerGone \/ FuzzerInitialize \/ FuzzerRecvShm \/ FuzzerRecvReady
    BY <1>8, Zenon DEF PeerGone, FuzzerInitialize, FuzzerRecvShm,
                      FuzzerRecvReady, BoolOK, ctxVars, simVars
<1>9. CASE FuzzerRecvStopped \/ FuzzerProtocolError \/ FuzzerExit
           \/ FuzzerPeerGone
    BY <1>9, Zenon DEF FuzzerRecvStopped, FuzzerProtocolError, FuzzerExit,
                      FuzzerPeerGone, BoolOK, ctxVars, simVars, netVars
<1>10. CASE Terminated \/ UNCHANGED vars
    BY <1>10, Zenon DEF Terminated, BoolOK, vars, ctxVars, simVars, netVars,
                       fuzzVars
<1>11. CASE InitGone \/ FuzzerCrash
    BY <1>11, Zenon DEF InitGone, FuzzerCrash, BoolOK, ctxVars, simVars,
                       netVars
<1>12. QED
    BY <1>1, <1>2, <1>3, <1>4, <1>5, <1>6, <1>7, <1>8, <1>9, <1>10, <1>11
    DEF Next

LEMMA TypeStep == TypeInv /\ [Next]_vars => TypeInv'
<1> SUFFICES ASSUME TypeInv, [Next]_vars PROVE TypeInv'
    OBVIOUS
<1>0. BoolOK'
    BY BoolStep DEF TypeInv, TypeOK, BoolOK
<1> USE <1>0 DEF TypeInv, TypeOK, RunsBound, BoolOK,
               ctxVars, simVars, netVars, fuzzVars
<1>a. MsgReady \in SimicsEvent /\ MsgSharedMem \in SimicsEvent
      /\ \A k \in {"Normal", "Crash"} : MsgStopped(k) \in SimicsEvent
    BY DEF SimicsEvent
<1>b. MsgReset \in FuzzerEvent /\ MsgStop \in FuzzerEvent
      /\ \A n \in InputLens : MsgRun(n) \in FuzzerEvent
      /\ \A f \in SUBSET FaultKind : MsgInitialize(f) \in FuzzerEvent
    BY DEF FuzzerEvent
<1>c. ErrorHpc \in {"failed", "idle"}
    BY DEF ErrorHpc
<1>1. CASE Connect
    BY <1>1 DEF Connect
<1>2. CASE RecvInitialize
    <2>1. Head(toHarness) \in FuzzerEvent /\ Tail(toHarness) \in Seq(FuzzerEvent)
        BY <1>2, HeadTailProperties DEF RecvInitialize
    <2>2. Head(toHarness).faults \in SUBSET FaultKind
        BY <1>2, <2>1, FuzzerEventFields DEF RecvInitialize
    <2>3. HapsFor(Head(toHarness).faults) \in SUBSET {"Triple", "Exception"}
        BY DEF HapsFor
    <2>4. hist \o <<"Initialize", "SharedMem">> \in Seq(EventType)
        BY ConcatProperties DEF EventType
    <2>5. Append(toFuzzer, MsgSharedMem) \in Seq(SimicsEvent)
        BY <1>a, AppendProperties
    <2>6. QED
        BY <1>2, <2>1, <2>2, <2>3, <2>4, <2>5 DEF RecvInitialize
<1>3. CASE SetProcessor
    BY <1>3 DEF SetProcessor
<1>4. CASE SignalStart
    BY <1>4 DEF SignalStart
<1>5. CASE SimContinue
    BY <1>5 DEF SimContinue
<1>6. CASE UserBreak
    BY <1>6 DEF UserBreak
<1>7. CASE GuestStep
    BY <1>7 DEF GuestStep
<1>8. CASE MagicStart
    BY <1>8 DEF MagicStart, Classify
<1>9. CASE MagicStop
    BY <1>9 DEF MagicStop, Classify
<1>10. CASE GuestFault
    BY <1>10 DEF GuestFault, Classify
<1>11. CASE StopNone
    BY <1>11 DEF StopNone
<1>12. CASE StartAgain
    BY <1>12 DEF StartAgain
<1>13. CASE StartFirst
    <2>1. Append(toFuzzer, MsgReady) \in Seq(SimicsEvent)
        BY <1>a, AppendProperties
    <2>2. Append(hist, "Ready") \in Seq(EventType)
        BY AppendProperties DEF EventType
    <2>3. saves' \in Nat /\ sim' = "stopped" /\ snapshot' \in {"none", "pre", "start", "body"}
        BY <1>13 DEF StartFirst
    <2>4. CASE ~processor
        BY <1>13, <1>c, <2>3, <2>4 DEF StartFirst
    <2>5. CASE processor /\ PeerOpen
        <3>0. toFuzzer' = Append(toFuzzer, MsgReady) /\ hist' = Append(hist, "Ready")
            BY <1>13, <2>5, Zenon DEF StartFirst
        <3>1. toFuzzer' \in Seq(SimicsEvent) /\ hist' \in Seq(EventType)
            BY <2>1, <2>2, <3>0
        <3>2. hpc' = "awaitRun" /\ buffer_size' \in BufSizes
            BY <1>13, <2>5 DEF StartFirst
        <3>3. UNCHANGED <<stop_reason, processor, faults, haps, resume, guest,
                          restores, written, bootstrap, toHarness, fpc, runs>>
            BY <1>13 DEF StartFirst
        <3>4. QED
            BY <2>3, <3>1, <3>2, <3>3
    <2>6. CASE processor /\ ~PeerOpen
        BY <1>13, <1>c, <2>3, <2>6 DEF StartFirst
    <2>7. QED
        BY <2>4, <2>5, <2>6
<1>14. ASSUME NEW k \in {"Normal", "Crash"}, ReportStop(k)
       PROVE  TypeInv'
    <2>1. Append(toFuzzer, MsgStopped(k)) \in Seq(SimicsEvent)
        BY <1>a, AppendProperties
    <2>2. Append(hist, "Stopped") \in Seq(EventType)
        BY AppendProperties DEF EventType
    <2>3. /\ sim' = "stopped"
          /\ UNCHANGED <<stop_reason, initialized, processor, buffer_size,
                         faults, haps, resume, guest, snapshot, saves,
                         restores, written, bootstrap, toHarness, fpc, runs>>
        BY <1>14, Zenon DEF ReportStop
    <2>4. CASE PeerOpen
        <3>1. /\ toFuzzer' = Append(toFuzzer, MsgStopped(k))
              /\ hist' = Append(hist, "Stopped")
              /\ hpc' \in {"awaitReset", ErrorHpc}
            BY <1>14, <2>4, Zenon DEF ReportStop
        <3>2. QED
            BY <1>c, <2>1, <2>2, <2>3, <3>1
    <2>5. CASE ~PeerOpen
        <3>1. hpc' = ErrorHpc /\ UNCHANGED <<toFuzzer, hist>>
            BY <1>14, <2>5, Zenon DEF ReportStop
        <3>2. QED
            BY <1>c, <2>3, <3>1
    <2>6. QED
        BY <2>4, <2>5
<1>15. CASE HandleMagicStop
    BY <1>15, <1>14 DEF HandleMagicStop
<1>16. CASE HandleCrash
    BY <1>16, <1>14 DEF HandleCrash
<1>17. ASSUME RecvResetOrStop PROVE TypeInv'
    <2> DEFINE m == Head(toHarness)
    <2>1. m \in FuzzerEvent /\ Tail(toHarness) \in Seq(FuzzerEvent)
        BY <1>17, HeadTailProperties DEF RecvResetOrStop
    <2>2. m.type \in {"Reset", "Stop"} => hist \o <<m.type, "Ready">> \in Seq(EventType)
        BY ConcatProperties DEF EventType
    <2>3. m.type \in {"Reset", "Stop"} => Append(hist, m.type) \in Seq(EventType)
        BY AppendProperties DEF EventType
    <2>4. Append(toFuzzer, MsgReady) \in Seq(SimicsEvent)
        BY <1>a, AppendProperties
    <2>5. /\ toHarness' = Tail(toHarness)
          /\ restores' \in Nat
          /\ guest' \in {"pre", "start", "body"}
          /\ UNCHANGED <<stop_reason, initialized, processor, buffer_size,
                         faults, haps, sim, resume, snapshot, saves, written,
                         bootstrap, fpc, runs>>
        BY <1>17 DEF RecvResetOrStop
    <2>6. CASE m.type \in {"Reset", "Stop"} /\ PeerOpen
        <3>1. /\ toFuzzer' = Append(toFuzzer, MsgReady)
              /\ hist' = hist \o <<m.type, "Ready">>
              /\ hpc' \in {"awaitRun", ErrorHpc}
            BY <1>17, <2>6, Zenon DEF RecvResetOrStop
        <3>2. QED
            BY <1>c, <2>1, <2>2, <2>4, <2>5, <2>6, <3>1
    <2>7. CASE ~(m.type \in {"Reset", "Stop"} /\ PeerOpen)
        <3>1. /\ toFuzzer' = toFuzzer
              /\ hist' = IF m.type \in {"Reset", "Stop"}
                          THEN Append(hist, m.type) ELSE hist
              /\ hpc' = ErrorHpc
            BY <1>17, <2>7, Zenon DEF RecvResetOrStop
        <3>2. QED
            BY <1>c, <2>1, <2>3, <2>5, <3>1
    <2>8. QED
        BY <2>6, <2>7
<1>18. CASE RecvResetAfterStop
    BY <1>18, <1>17 DEF RecvResetAfterStop
<1>19. CASE RecvResetAfterCrash
    BY <1>19, <1>17 DEF RecvResetAfterCrash
<1>20. ASSUME RecvRun PROVE TypeInv'
    <2>1. Head(toHarness) \in FuzzerEvent /\ Tail(toHarness) \in Seq(FuzzerEvent)
        BY <1>20, HeadTailProperties DEF RecvRun
    <2>2. Head(toHarness).type = "Run" => Head(toHarness).len \in InputLens
        BY <2>1, FuzzerEventFields
    <2>3. Append(hist, "Run") \in Seq(EventType)
        BY AppendProperties DEF EventType
    <2>4. /\ toHarness' = Tail(toHarness)
          /\ UNCHANGED <<initialized, processor, buffer_size, faults, haps,
                         sim, guest, snapshot, saves, restores, bootstrap,
                         toFuzzer, fpc, runs>>
        BY <1>20, Zenon DEF RecvRun
    <2>5. CASE Head(toHarness).type = "Run"
        <3>1. /\ written' = Head(toHarness).len
              /\ resume' = TRUE
              /\ stop_reason' = "None"
              /\ hist' = Append(hist, "Run")
              /\ hpc' = "idle"
            BY <1>20, <2>5, Zenon DEF RecvRun
        <3>2. QED
            BY <2>1, <2>2, <2>3, <2>4, <2>5, <3>1
    <2>6. CASE Head(toHarness).type # "Run"
        <3>1. hpc' = ErrorHpc /\ UNCHANGED <<written, resume, stop_reason, hist>>
            BY <1>20, <2>6, Zenon DEF RecvRun
        <3>2. QED
            BY <1>c, <2>1, <2>4, <3>1
    <2>7. QED
        BY <2>5, <2>6
<1>21. CASE RecvRunAfterStart
    BY <1>21, <1>20 DEF RecvRunAfterStart
<1>22. CASE RecvRunAfterStop
    BY <1>22, <1>20 DEF RecvRunAfterStop
<1>23. CASE RecvRunAfterCrash
    BY <1>23, <1>20 DEF RecvRunAfterCrash
<1>24. CASE PeerGone
    BY <1>24, <1>c DEF PeerGone
<1>25. CASE FuzzerInitialize
    <2>1. PICK f \in SUBSET FaultKind :
              toHarness' = Append(toHarness, MsgInitialize(f))
        BY <1>25 DEF FuzzerInitialize
    <2>2. toHarness' \in Seq(FuzzerEvent)
        BY <1>b, <2>1, AppendProperties
    <2>3. QED
        BY <1>25, <2>2 DEF FuzzerInitialize
<1>26. CASE FuzzerRecvShm
    BY <1>26, HeadTailProperties DEF FuzzerRecvShm
<1>27. CASE FuzzerRecvReady
    <2>1. PICK n \in InputLens : toHarness' = Append(toHarness, MsgRun(n))
        BY <1>27 DEF FuzzerRecvReady
    <2>2. toHarness' \in Seq(FuzzerEvent)
        BY <1>b, <2>1, AppendProperties
    <2>3. Tail(toFuzzer) \in Seq(SimicsEvent)
        BY <1>27, HeadTailProperties DEF FuzzerRecvReady
    <2>4. QED
        BY <1>27, <2>2, <2>3 DEF FuzzerRecvReady
<1>28. CASE FuzzerRecvStopped
    <2>1. Tail(toFuzzer) \in Seq(SimicsEvent)
        BY <1>28, HeadTailProperties DEF FuzzerRecvStopped
    <2>2. Append(toHarness, MsgReset) \in Seq(FuzzerEvent)
          /\ Append(toHarness, MsgStop) \in Seq(FuzzerEvent)
        BY <1>b, AppendProperties
    <2>3. /\ toFuzzer' = Tail(toFuzzer)
          /\ UNCHANGED <<hpc, stop_reason, initialized, processor, buffer_size,
                         faults, haps, sim, resume, guest, snapshot, saves,
                         restores, written, bootstrap, hist, runs>>
        BY <1>28, Zenon DEF FuzzerRecvStopped
    <2>4. CASE runs < MaxRuns /\ toHarness' = Append(toHarness, MsgReset)
               /\ fpc' = "awaitReady"
        BY <2>1, <2>2, <2>3, <2>4
    <2>5. CASE toHarness' = Append(toHarness, MsgStop) /\ fpc' = "stopped"
        BY <2>1, <2>2, <2>3, <2>5
    <2>6. QED
        BY <1>28, <2>4, <2>5, Zenon DEF FuzzerRecvStopped
<1>29. CASE FuzzerProtocolError
    BY <1>29, HeadTailProperties DEF FuzzerProtocolError, Expects
<1>30. CASE FuzzerExit
    BY <1>30 DEF FuzzerExit
<1>31. CASE FuzzerPeerGone
    BY <1>31 DEF FuzzerPeerGone, Expects
<1>32. CASE Terminated
    BY <1>32 DEF Terminated, vars, ctxVars, simVars, netVars, fuzzVars
<1>33. CASE UNCHANGED vars
    BY <1>33 DEF vars, ctxVars, simVars, netVars, fuzzVars
<1>34. CASE InitGone
    BY <1>34 DEF InitGone
<1>35. CASE FuzzerCrash
    BY <1>35 DEF FuzzerCrash
<1>36. QED
    BY <1>1, <1>2, <1>3, <1>4, <1>5, <1>6, <1>7, <1>8, <1>9, <1>10, <1>11,
       <1>12, <1>13, <1>15, <1>16, <1>18, <1>19, <1>21, <1>22, <1>23, <1>24,
       <1>25, <1>26, <1>27, <1>28, <1>29, <1>30, <1>31, <1>32, <1>33, <1>34,
       <1>35
    DEF Next

\* Every reachable state is well typed: each variable holds a value of the
\* kind the code's field or channel holds, for every value of the constants.
THEOREM TypeCorrect == Spec => []TypeOK
<1>1. Spec => []TypeInv
    BY TypeInit, TypeStep, PTL DEF Spec
<1>2. QED
    BY <1>1, PTL DEF TypeInv

(***************************************************************************)
(* The origin checkpoint is saved at most once.  Only the first start      *)
(* magic saves, and it sets `initialized` or ends the harness; every other *)
(* step leaves `saves` and `initialized` alone, and no step revives a      *)
(* failed harness.  TypeInv /\ SnapshotTakenOnce is inductive when every   *)
(* Err out of handle_stop aborts (ErrorsAbort); under the log-and-continue *)
(* policy it is not, as the recover_errors run shows.                      *)
(***************************************************************************)
SnapInv == TypeInv /\ SnapshotTakenOnce

\* Every step other than the first start leaves the checkpoint count and
\* the `initialized` flag alone, and an aborted harness stays aborted.
LEMMA SnapFrame ==
    ASSUME ErrorsAbort, [Next]_vars, ~StartFirst
    PROVE  /\ UNCHANGED <<saves, initialized>>
           /\ hpc = "failed" => hpc' = "failed"
<1> USE DEF ctxVars, simVars, netVars, fuzzVars, ErrorHpc
<1>1. CASE Connect \/ RecvInitialize \/ SetProcessor \/ SignalStart
    BY <1>1, Zenon DEF Connect, RecvInitialize, SetProcessor, SignalStart
<1>2. CASE SimContinue \/ UserBreak \/ GuestStep \/ MagicStart \/ MagicStop
           \/ GuestFault
    BY <1>2, Zenon DEF SimContinue, UserBreak, GuestStep, MagicStart,
                      MagicStop, GuestFault, Classify
<1>3. CASE StopNone \/ StartAgain \/ HandleMagicStop \/ HandleCrash
    BY <1>3, Zenon DEF StopNone, StartAgain, HandleMagicStop, HandleCrash,
                      ReportStop, Stopping
<1>4. CASE RecvResetAfterStop \/ RecvResetAfterCrash \/ RecvRunAfterStart
           \/ RecvRunAfterStop \/ RecvRunAfterCrash \/ PeerGone
    BY <1>4, Zenon DEF RecvResetAfterStop, RecvResetAfterCrash,
                      RecvResetOrStop, RecvRunAfterStart, RecvRunAfterStop,
                      RecvRunAfterCrash, RecvRun, PeerGone
<1>5. CASE FuzzerInitialize \/ FuzzerRecvShm \/ FuzzerRecvReady
           \/ FuzzerRecvStopped \/ FuzzerProtocolError \/ FuzzerExit
           \/ FuzzerPeerGone
    BY <1>5, Zenon DEF FuzzerInitialize, FuzzerRecvShm, FuzzerRecvReady,
                      FuzzerRecvStopped, FuzzerProtocolError, FuzzerExit,
                      FuzzerPeerGone
<1>6. CASE Terminated \/ UNCHANGED vars
    BY <1>6, Zenon DEF Terminated, vars
<1>7. CASE InitGone \/ FuzzerCrash
    BY <1>7, Zenon DEF InitGone, FuzzerCrash
<1>8. QED
    BY <1>1, <1>2, <1>3, <1>4, <1>5, <1>6, <1>7 DEF Next

LEMMA SnapStep ==
    ASSUME ErrorsAbort
    PROVE  SnapInv /\ [Next]_vars => SnapInv'
<1> SUFFICES ASSUME SnapInv, [Next]_vars PROVE SnapInv'
    OBVIOUS
<1>1. TypeInv'
    BY TypeStep DEF SnapInv
<1>2. CASE StartFirst
    <2>1. saves = 0
        BY <1>2 DEF StartFirst, Stopping, SnapInv, SnapshotTakenOnce,
                    TypeInv, TypeOK
    <2>2. saves' = 1 /\ saves' <= 1
        BY <1>2, <2>1 DEF StartFirst
    <2>3. CASE ~processor
        <3>1. hpc' = "failed"
            BY <1>2, <2>3, Zenon DEF StartFirst, ErrorHpc
        <3>2. QED
            BY <1>1, <2>2, <3>1, Zenon DEF SnapInv, SnapshotTakenOnce
    <2>4. CASE processor
        <3>1. initialized' = TRUE
            BY <1>2, <2>4, Zenon DEF StartFirst
        <3>2. QED
            BY <1>1, <2>2, <3>1, Zenon DEF SnapInv, SnapshotTakenOnce
    <2>5. QED
        BY <1>1, <2>3, <2>4 DEF SnapInv, TypeInv, TypeOK
<1>3. CASE ~StartFirst
    <2>1. UNCHANGED <<saves, initialized>> /\ (hpc = "failed" => hpc' = "failed")
        BY <1>3, SnapFrame
    <2>2. SnapshotTakenOnce'
        BY <2>1 DEF SnapInv, SnapshotTakenOnce
    <2>3. QED
        BY <1>1, <2>2 DEF SnapInv
<1>4. QED
    BY <1>2, <1>3

\* With every Err of handle_stop aborting the process, the origin
\* micro-checkpoint is saved at most once, and while the harness is alive
\* it has been saved exactly when `initialized` is set, for any fault set,
\* input lengths, buffer sizes and run budget.
THEOREM SnapshotOnce ==
    ASSUME ErrorsAbort
    PROVE  Spec => []SnapshotTakenOnce
<1>1. Init => SnapInv
    BY TypeInit DEF Init, SnapInv, SnapshotTakenOnce
<1>2. SnapInv /\ [Next]_vars => SnapInv'
    BY SnapStep
<1>3. Spec => []SnapInv
    BY <1>1, <1>2, PTL DEF Spec
<1>4. QED
    BY <1>3, PTL DEF SnapInv

=============================================================================
