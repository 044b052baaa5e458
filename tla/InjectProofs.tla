---------------------------- MODULE InjectProofs ----------------------------
(***************************************************************************)
(* Proof that every input is written into a guest parked at its start      *)
(* magic (InjectAtSnapshot), when every Err of handle_stop aborts, whether *)
(* or not the guest may fault before its start magic.                      *)
(*                                                                         *)
(* The harness alone does not guarantee it: after Stop it sends Ready with *)
(* the guest past its start, and only the fuzzer's silence keeps a Run     *)
(* from following.  The inductive invariant therefore describes the        *)
(* lock-step conversation of the two processes as well as the guest.      *)
(***************************************************************************)
EXTENDS HarnessProofs

USE ExceptionsAssumption, InputAssumption, BufAssumption, MaxRunsAssumption,
    FlagsAssumption

\* The first message of the channel to the harness has type t.
Queued(t) == toHarness # <<>> /\ Head(toHarness).type = t

\* Some message of the channel s has type t.
HasType(s, t) == \E i \in 1..Len(s) : s[i].type = t

\* The fuzzer has a Ready to read and will answer it with a Run.
ReadyPending == fpc \in {"awaitShm", "awaitReady"} /\ HasType(toFuzzer, "Ready")

\* The fuzzer is waiting for a verdict and has it to read.
StoppedPending == fpc = "awaitStopped" /\ HasType(toFuzzer, "Stopped")

(***************************************************************************)
(* The guest only runs while the harness is idle with no stop pending, a   *)
(* pending Start stop leaves it at its start magic, and the checkpoint is  *)
(* the start position once the harness is initialized.                     *)
(***************************************************************************)
SimParked == sim = "running" => hpc = "idle" /\ stop_reason = "None"
StopDue == hpc = "idle" /\ stop_reason # "None" => sim = "stopping"
NoStopBeforeInit == hpc \in {"boot", "awaitInit"} => stop_reason = "None"
StartParked == stop_reason = "Start" => guest = "start"
ResetDue == hpc = "awaitReset" => stop_reason \in {"Stop", "Crash"}
Committed == initialized => processor /\ snapshot = "start"
Uncommitted == hpc # "failed" /\ ~initialized => snapshot = "none"

ParkInv ==
    /\ SimParked /\ StopDue /\ NoStopBeforeInit /\ StartParked /\ ResetDue
    /\ Committed /\ Uncommitted

(***************************************************************************)
(* The two processes take turns: at most one message is on its way to the  *)
(* harness, and then none to the fuzzer; the harness sends nothing after   *)
(* a Ready or a Stopped until it is answered, so only SharedMem can be     *)
(* followed by another message; and each message in flight determines      *)
(* where both processes are.                                               *)
(***************************************************************************)
ListenQuiet ==
    fpc = "listen" =>
        hpc \in {"boot", "awaitInit"} /\ toHarness = <<>> /\ toFuzzer = <<>>
OneToHarness == toHarness # <<>> => Len(toHarness) = 1 /\ toFuzzer = <<>>
FuzzerQueue ==
    \/ Len(toFuzzer) <= 1
    \/ Len(toFuzzer) = 2 /\ toFuzzer[1].type = "SharedMem"
IdleQueue ==
    hpc = "idle" => toHarness = <<>> /\ toFuzzer \in {<<>>, <<MsgSharedMem>>}
RunQueued ==
    Queued("Run") =>
        hpc = "awaitRun" /\ guest = "start" /\ fpc \in {"awaitStopped", "done"}
ReadyQueued == ReadyPending => hpc = "awaitRun" /\ guest = "start" /\ initialized
VerdictAwaited == fpc = "awaitStopped" => initialized
StoppedQueued == StoppedPending => hpc \in {"awaitReset", "failed"}
ResetQueued ==
    Queued("Reset") =>
        hpc \in {"awaitReset", "failed"} /\ initialized
        /\ fpc \in {"awaitReady", "done"}
StopQueued == Queued("Stop") => fpc \in {"stopped", "done"}

TurnInv ==
    /\ ListenQuiet /\ OneToHarness /\ FuzzerQueue /\ IdleQueue /\ RunQueued
    /\ ReadyQueued /\ VerdictAwaited /\ StoppedQueued /\ ResetQueued
    /\ StopQueued

InjInv == TypeInv /\ ParkInv /\ TurnInv

(***************************************************************************)
(* What sending and receiving do to the types a channel holds.             *)
(***************************************************************************)

\* A message appended to a channel joins the types it holds.
LEMMA HasTypeAppend ==
    ASSUME NEW S, NEW s \in Seq(S), NEW m \in S, NEW t
    PROVE  HasType(Append(s, m), t) <=> HasType(s, t) \/ m.type = t
<1>1. /\ Len(Append(s, m)) = Len(s) + 1
      /\ \A i \in 1..Len(s) : Append(s, m)[i] = s[i]
      /\ Append(s, m)[Len(s) + 1] = m
    BY AppendProperties
<1>2. Len(s) \in Nat
    BY LenProperties
<1>3. QED
    BY <1>1, <1>2 DEF HasType

\* A message received from a channel is its first one; the others stay.
LEMMA HasTypeTail ==
    ASSUME NEW S, NEW s \in Seq(S), s # <<>>, NEW t
    PROVE  HasType(s, t) <=> Head(s).type = t \/ HasType(Tail(s), t)
<1>1. /\ Len(Tail(s)) = Len(s) - 1
      /\ \A i \in 1..Len(Tail(s)) : Tail(s)[i] = s[i + 1]
      /\ Len(s) \in Nat \ {0}
    BY HeadTailProperties, EmptySeq
<1>2. Head(s) = s[1]
    OBVIOUS
<1>3. QED
    BY <1>1, <1>2 DEF HasType

\* An empty channel holds no type.
LEMMA HasTypeEmpty == ASSUME NEW t PROVE ~HasType(<<>>, t)
BY DEF HasType

LEMMA InjInit == Init => InjInv
<1> SUFFICES ASSUME Init PROVE InjInv
    OBVIOUS
<1>1. TypeInv
    BY TypeInit
<1>2. ~initialized /\ ~HasType(toFuzzer, "Ready")
      /\ ~HasType(toFuzzer, "Stopped")
    BY HasTypeEmpty, Zenon DEF Init
<1>3. QED
    BY <1>1, <1>2 DEF Init, InjInv, ParkInv, SimParked, StopDue,
       NoStopBeforeInit, StartParked, ResetDue, Committed, Uncommitted,
       TurnInv, ListenQuiet, OneToHarness, FuzzerQueue, IdleQueue, RunQueued,
       ReadyQueued, ReadyPending, VerdictAwaited, StoppedQueued,
       StoppedPending, ResetQueued, StopQueued, Queued

\* Steps that leave both processes' control and both channels alone keep
\* the turn-taking, provided the guest moves only while the harness idles.
LEMMA TurnFrame ==
    ASSUME TurnInv, UNCHANGED <<hpc, initialized, toHarness, toFuzzer, fpc>>,
           hpc = "idle" \/ guest' = guest
    PROVE  TurnInv'
BY DEF TurnInv, ListenQuiet, OneToHarness, FuzzerQueue, IdleQueue, RunQueued,
       ReadyQueued, ReadyPending, VerdictAwaited, StoppedQueued,
       StoppedPending, ResetQueued, StopQueued, Queued, HasType

\* Steps that touch neither the simulator, the guest nor the harness's
\* state keep ParkInv; a processor once set stays set.
LEMMA ParkFrame ==
    ASSUME ParkInv, UNCHANGED <<sim, hpc, stop_reason, guest, initialized,
                                snapshot>>,
           processor => processor'
    PROVE  ParkInv'
BY DEF ParkInv, SimParked, StopDue, NoStopBeforeInit, StartParked, ResetDue,
       Committed, Uncommitted

\* The simulator's and the guest's steps and the handle_stop branches that
\* send nothing.  The guest only moves while the simulator runs, hence
\* while the harness is idle with no stop pending; a stop reason is only
\* recorded as the simulation breaks, and only the first one counts.
LEMMA SimStep ==
    ASSUME TypeInv, ParkInv, TurnInv,
           \/ SimContinue \/ UserBreak \/ GuestStep \/ MagicStart
           \/ MagicStop \/ GuestFault \/ StopNone \/ StartAgain
    PROVE  ParkInv' /\ TurnInv'
<1> USE DEF ctxVars, simVars, netVars, fuzzVars
<1>0. BoolOK
    BY DEF TypeInv, TypeOK, BoolOK
<1>1. /\ UNCHANGED <<hpc, initialized, processor, snapshot, toHarness,
                     toFuzzer, fpc>>
      /\ hpc = "idle" \/ guest' = guest
    BY Zenon DEF SimContinue, UserBreak, GuestStep, MagicStart, MagicStop,
                 GuestFault, StopNone, StartAgain, Stopping, ParkInv,
                 SimParked
<1>2. TurnInv'
    BY <1>1, TurnFrame
<1>3. CASE SimContinue
    <2>1. hpc = "idle" /\ sim \in {"stopped", "running"}
          /\ sim' = "running" /\ UNCHANGED <<stop_reason, guest>>
        BY <1>3 DEF SimContinue
    <2>2. stop_reason = "None"
        BY <2>1 DEF ParkInv, StopDue, SimParked
    <2>3. QED
        BY <1>1, <1>2, <2>1, <2>2 DEF ParkInv, SimParked, StopDue,
           NoStopBeforeInit, StartParked, ResetDue, Committed, Uncommitted
<1>4. CASE UserBreak \/ GuestStep
    <2>1. sim = "running" /\ sim' \in {"running", "stopping"}
          /\ stop_reason' = stop_reason /\ guest' \in {guest, "body"}
        BY <1>4 DEF UserBreak, GuestStep
    <2>2. QED
        BY <1>1, <1>2, <2>1 DEF ParkInv, SimParked, StopDue, NoStopBeforeInit,
           StartParked, ResetDue, Committed, Uncommitted
<1>5. CASE MagicStart \/ MagicStop \/ GuestFault
    <2>1. sim = "running" /\ sim' = "stopping"
        BY <1>5 DEF MagicStart, MagicStop, GuestFault, Classify
    <2>2. hpc = "idle" /\ stop_reason = "None"
        BY <2>1 DEF ParkInv, SimParked
    <2>3. /\ MagicStart => stop_reason' = "Start" /\ guest' = "start"
          /\ MagicStop => stop_reason' = "Stop"
          /\ GuestFault => stop_reason' = "Crash"
        BY <2>2 DEF MagicStart, MagicStop, GuestFault, Classify
    <2>4. QED
        BY <1>1, <1>2, <1>5, <2>1, <2>2, <2>3 DEF ParkInv, SimParked, StopDue,
           NoStopBeforeInit, StartParked, ResetDue, Committed, Uncommitted
<1>6. CASE StopNone \/ StartAgain
    <2>1. hpc = "idle" /\ sim' = "stopped" /\ stop_reason' = "None"
          /\ guest' = guest
        BY <1>6 DEF StopNone, StartAgain, Stopping
    <2>2. QED
        BY <1>1, <1>2, <2>1 DEF ParkInv, SimParked, StopDue, NoStopBeforeInit,
           StartParked, ResetDue, Committed, Uncommitted
<1>7. QED
    BY <1>2, <1>3, <1>4, <1>5, <1>6

\* The script's attribute setters and the final stutter.
LEMMA ScriptStep ==
    ASSUME ParkInv, TurnInv,
           SetProcessor \/ SignalStart \/ Terminated \/ UNCHANGED vars
    PROVE  ParkInv' /\ TurnInv'
<1> DEFINE Frame == /\ UNCHANGED <<sim, hpc, stop_reason, guest, initialized,
                                   snapshot, toHarness, toFuzzer, fpc>>
                    /\ processor => processor'
<1>1. Frame
    <2>1. CASE SetProcessor
        BY <2>1 DEF SetProcessor, simVars, netVars, fuzzVars
    <2>2. CASE SignalStart
        BY <2>2 DEF SignalStart, ctxVars, netVars, fuzzVars
    <2>3. CASE Terminated \/ UNCHANGED vars
        BY <2>3 DEF Terminated, vars, ctxVars, simVars, netVars, fuzzVars
    <2>4. QED
        BY <2>1, <2>2, <2>3
<1>2. QED
    BY <1>1, ParkFrame, TurnFrame

\* The bootstrap.  Before Initialize is received the harness has sent
\* nothing and no message it waits for can be queued; Initialize is the
\* only message in flight, so SharedMem goes out alone.
LEMMA BootStep ==
    ASSUME TypeInv, ParkInv, TurnInv, Connect \/ RecvInitialize \/ InitGone
    PROVE  ParkInv' /\ TurnInv'
<1> USE DEF ctxVars, simVars, netVars, fuzzVars
<1>1. /\ hpc \in {"boot", "awaitInit"}
      /\ UNCHANGED <<sim, stop_reason, guest, initialized, processor,
                     snapshot, fpc>>
    BY Zenon DEF Connect, RecvInitialize, InitGone
<1>2. /\ ~Queued("Run") /\ ~ReadyPending /\ ~StoppedPending
      /\ ~Queued("Reset")
      /\ stop_reason = "None"
    BY <1>1 DEF TurnInv, RunQueued, ReadyQueued, StoppedQueued, ResetQueued,
                ParkInv, NoStopBeforeInit
<1>3. CASE Connect \/ InitGone
    <2>1. /\ hpc' \in {"awaitInit", "failed"}
          /\ fpc = "listen" => hpc' = "awaitInit"
          /\ UNCHANGED <<toHarness, toFuzzer>>
        BY <1>3 DEF Connect, InitGone
    <2>2. ~ReadyPending' /\ ~StoppedPending'
        BY <1>1, <1>2, <2>1 DEF ReadyPending, StoppedPending
    <2>3. TurnInv'
        BY <1>1, <1>2, <2>1, <2>2 DEF TurnInv, ListenQuiet, OneToHarness,
           FuzzerQueue, IdleQueue, RunQueued, ReadyQueued, VerdictAwaited,
           StoppedQueued, ResetQueued, StopQueued, Queued
    <2>4. ParkInv'
        BY <1>1, <1>2, <2>1 DEF ParkInv, SimParked, StopDue,
           NoStopBeforeInit, StartParked, ResetDue, Committed, Uncommitted
    <2>5. QED
        BY <2>3, <2>4
<1>4. CASE RecvInitialize
    <2>1. toHarness # <<>> /\ hpc' = "idle"
        BY <1>4 DEF RecvInitialize
    <2>2. Len(toHarness) = 1 /\ toFuzzer = <<>> /\ fpc # "listen"
        BY <2>1 DEF TurnInv, OneToHarness, ListenQuiet
    <2>3. toHarness' = <<>>
        BY <1>4, <2>2, HeadTailProperties DEF RecvInitialize, TypeInv, TypeOK
    <2>4. toFuzzer' = <<MsgSharedMem>>
        BY <1>4, <2>2 DEF RecvInitialize
    <2>5. ~HasType(toFuzzer', "Ready") /\ ~HasType(toFuzzer', "Stopped")
        BY <2>4 DEF HasType, MsgSharedMem
    <2>6. TurnInv'
        BY <1>1, <2>1, <2>2, <2>3, <2>4, <2>5 DEF TurnInv, ListenQuiet,
           OneToHarness, FuzzerQueue, IdleQueue, RunQueued, ReadyQueued,
           ReadyPending, VerdictAwaited, StoppedQueued, StoppedPending,
           ResetQueued, StopQueued, Queued
    <2>7. ParkInv'
        BY <1>1, <1>2, <2>1 DEF ParkInv, SimParked, StopDue,
           NoStopBeforeInit, StartParked, ResetDue, Committed, Uncommitted
    <2>8. QED
        BY <2>6, <2>7
<1>5. QED
    BY <1>3, <1>4

\* What the idle harness has sent and the fuzzer not yet read: at most the
\* SharedMem of the handshake.
LEMMA IdleQueueFacts ==
    ASSUME NEW q, q \in {<<>>, <<MsgSharedMem>>}
    PROVE  /\ Len(q) <= 1
           /\ \A t \in {"Ready", "Stopped"} : ~HasType(q, t)
<1>1. CASE q = <<>>
    BY <1>1 DEF HasType
<1>2. CASE q = <<MsgSharedMem>>
    <2>1. Len(q) = 1 /\ q[1].type = "SharedMem"
        BY <1>2 DEF MsgSharedMem
    <2>2. QED
        BY <2>1 DEF HasType
<1>3. QED
    BY <1>1, <1>2

\* What the idle harness sends is the last message to the fuzzer, behind at
\* most the SharedMem of the handshake, and the only Ready or Stopped.
LEMMA IdleSend ==
    ASSUME TypeInv, TurnInv, hpc = "idle",
           NEW m \in SimicsEvent, m.type # "SharedMem"
    PROVE  /\ Append(toFuzzer, m) # <<>>
           /\ \/ Len(Append(toFuzzer, m)) = 1
              \/ /\ Len(Append(toFuzzer, m)) = 2
                 /\ Append(toFuzzer, m)[1].type = "SharedMem"
           /\ \A t \in {"Ready", "Stopped"} :
                 HasType(Append(toFuzzer, m), t) <=> m.type = t
<1>1. toFuzzer \in {<<>>, <<MsgSharedMem>>}
    BY DEF TurnInv, IdleQueue
<1>2. toFuzzer \in Seq(SimicsEvent)
    BY DEF TypeInv, TypeOK
<1>3. \A t \in {"Ready", "Stopped"} : ~HasType(toFuzzer, t)
    BY <1>1, IdleQueueFacts
<1>4. \A t \in {"Ready", "Stopped"} :
        HasType(Append(toFuzzer, m), t) <=> HasType(toFuzzer, t) \/ m.type = t
    BY <1>2, HasTypeAppend
<1>5. /\ Append(toFuzzer, m) # <<>>
      /\ Len(Append(toFuzzer, m)) = Len(toFuzzer) + 1
      /\ \A i \in 1..Len(toFuzzer) : Append(toFuzzer, m)[i] = toFuzzer[i]
    BY <1>2, AppendProperties
<1>6. \/ Len(Append(toFuzzer, m)) = 1
      \/ /\ Len(Append(toFuzzer, m)) = 2
         /\ Append(toFuzzer, m)[1].type = "SharedMem"
    <2>1. CASE toFuzzer = <<>>
        BY <1>5, <2>1
    <2>2. CASE toFuzzer = <<MsgSharedMem>>
        <3>1. Len(toFuzzer) = 1 /\ toFuzzer[1].type = "SharedMem"
            BY <2>2 DEF MsgSharedMem
        <3>2. QED
            BY <1>5, <3>1
    <2>3. QED
        BY <1>1, <2>1, <2>2
<1>7. QED
    BY <1>3, <1>4, <1>5, <1>6

\* The first start: the checkpoint saved is the guest parked at its start
\* magic, and the Ready sent is the only message on its way to the fuzzer
\* besides SharedMem, with nothing on its way to the harness.
LEMMA StartFirstStep ==
    ASSUME ErrorsAbort, TypeInv, ParkInv, TurnInv, StartFirst
    PROVE  ParkInv' /\ TurnInv'
<1> USE DEF ctxVars, simVars, netVars, fuzzVars
<1>0. BoolOK
    BY DEF TypeInv, TypeOK, BoolOK
<1>1. /\ hpc = "idle" /\ sim = "stopping" /\ stop_reason = "Start"
      /\ ~initialized
      /\ sim' = "stopped"
      /\ snapshot' = IF snapshot = "none" THEN guest ELSE snapshot
      /\ UNCHANGED <<stop_reason, processor, guest, toHarness, fpc>>
    BY Zenon DEF StartFirst, Stopping
<1>2. guest = "start" /\ snapshot = "none" /\ toHarness = <<>>
      /\ ~ReadyPending /\ ~StoppedPending
    BY <1>1 DEF ParkInv, StartParked, Uncommitted, TurnInv, IdleQueue,
                ReadyQueued, StoppedQueued
<1>3. snapshot' = "start" /\ ~Queued("Run")' /\ ~Queued("Reset")'
      /\ ~Queued("Stop")'
    BY <1>1, <1>2 DEF Queued
<1>4. CASE ~processor
    <2>1. hpc' = "failed" /\ UNCHANGED <<initialized, toFuzzer>>
        BY <1>4, Zenon DEF StartFirst, ErrorHpc
    <2>2. ~ReadyPending' /\ ~StoppedPending'
        BY <1>1, <1>2, <2>1 DEF ReadyPending, StoppedPending, HasType
    <2>3. QED
        BY <1>0, <1>1, <1>2, <1>3, <2>1, <2>2 DEF ParkInv, SimParked,
           StopDue, NoStopBeforeInit, StartParked, ResetDue, Committed,
           Uncommitted, TurnInv, ListenQuiet, OneToHarness, FuzzerQueue,
           IdleQueue, RunQueued, ReadyQueued, VerdictAwaited, StoppedQueued,
           ResetQueued, StopQueued
<1>5. CASE processor /\ ~PeerOpen
    <2>1. hpc' = "failed" /\ initialized' /\ UNCHANGED toFuzzer
        BY <1>5, Zenon DEF StartFirst, ErrorHpc
    <2>2. ~ReadyPending' /\ ~StoppedPending'
        BY <1>1, <1>2, <2>1 DEF ReadyPending, StoppedPending, HasType
    <2>3. QED
        BY <1>0, <1>1, <1>2, <1>3, <1>5, <2>1, <2>2 DEF ParkInv, SimParked,
           StopDue, NoStopBeforeInit, StartParked, ResetDue, Committed,
           Uncommitted, TurnInv, ListenQuiet, OneToHarness, FuzzerQueue,
           IdleQueue, RunQueued, ReadyQueued, VerdictAwaited, StoppedQueued,
           ResetQueued, StopQueued
<1>6. CASE processor /\ PeerOpen
    <2>1. hpc' = "awaitRun" /\ initialized'
          /\ toFuzzer' = Append(toFuzzer, MsgReady)
        BY <1>6, Zenon DEF StartFirst
    <2>2. MsgReady \in SimicsEvent /\ MsgReady.type = "Ready"
        BY DEF SimicsEvent, MsgReady
    <2>3. /\ Append(toFuzzer, MsgReady) # <<>>
          /\ \/ Len(Append(toFuzzer, MsgReady)) = 1
             \/ /\ Len(Append(toFuzzer, MsgReady)) = 2
                /\ Append(toFuzzer, MsgReady)[1].type = "SharedMem"
          /\ ~HasType(Append(toFuzzer, MsgReady), "Stopped")
        BY <1>1, <2>2, IdleSend
    <2>4. ~StoppedPending' /\ (ReadyPending' => hpc' = "awaitRun")
        BY <1>1, <2>1, <2>3 DEF StoppedPending, ReadyPending
    <2>5. QED
        BY <1>0, <1>1, <1>2, <1>3, <1>6, <2>1, <2>3, <2>4 DEF ParkInv,
           SimParked, StopDue, NoStopBeforeInit, StartParked, ResetDue,
           Committed, Uncommitted, TurnInv, ListenQuiet, OneToHarness,
           FuzzerQueue, IdleQueue, RunQueued, ReadyQueued, VerdictAwaited,
           StoppedQueued, ResetQueued, StopQueued
<1>7. QED
    BY <1>4, <1>5, <1>6

\* A stop or a crash is reported from the idle harness: the Stopped sent is
\* the only one on its way, and the harness then waits for Reset or Stop
\* (or has aborted) while the fuzzer may be waiting for it.
LEMMA ReportStep ==
    ASSUME ErrorsAbort, TypeInv, ParkInv, TurnInv, HandleMagicStop \/ HandleCrash
    PROVE  ParkInv' /\ TurnInv'
<1> USE DEF ctxVars, simVars, netVars, fuzzVars
<1>0. BoolOK
    BY DEF TypeInv, TypeOK, BoolOK
<1>1. PICK k \in {"Normal", "Crash"} :
          stop_reason \in {"Stop", "Crash"} /\ ReportStop(k)
    BY Zenon DEF HandleMagicStop, HandleCrash
<1>2. /\ hpc = "idle" /\ sim' = "stopped"
      /\ hpc' \in {"awaitReset", "failed"}
      /\ toFuzzer' \in {toFuzzer, Append(toFuzzer, MsgStopped(k))}
      /\ UNCHANGED <<stop_reason, initialized, processor, guest, snapshot,
                     toHarness, fpc>>
    BY <1>1, Zenon DEF ReportStop, Stopping, ErrorHpc
<1>3. toHarness = <<>> /\ ~ReadyPending /\ ~StoppedPending
      /\ toFuzzer \in {<<>>, <<MsgSharedMem>>}
    BY <1>2 DEF TurnInv, IdleQueue, ReadyQueued, StoppedQueued
<1>4. MsgStopped(k) \in SimicsEvent /\ MsgStopped(k).type = "Stopped"
    BY DEF SimicsEvent, MsgStopped
<1>5. /\ \/ Len(toFuzzer') <= 1
         \/ Len(toFuzzer') = 2 /\ toFuzzer'[1].type = "SharedMem"
      /\ ~HasType(toFuzzer', "Ready")
    <2>1. CASE toFuzzer' = toFuzzer
        <3>1. Len(toFuzzer) <= 1 /\ ~HasType(toFuzzer, "Ready")
            BY <1>3, IdleQueueFacts
        <3>2. QED
            BY <2>1, <3>1 DEF HasType
    <2>2. CASE toFuzzer' = Append(toFuzzer, MsgStopped(k))
        <3>1. /\ \/ Len(Append(toFuzzer, MsgStopped(k))) = 1
                 \/ /\ Len(Append(toFuzzer, MsgStopped(k))) = 2
                    /\ Append(toFuzzer, MsgStopped(k))[1].type = "SharedMem"
              /\ ~HasType(Append(toFuzzer, MsgStopped(k)), "Ready")
            BY <1>2, <1>4, IdleSend
        <3>2. QED
            BY <2>2, <3>1
    <2>3. QED
        BY <1>2, <2>1, <2>2
<1>6. ~ReadyPending' /\ (StoppedPending' => hpc' \in {"awaitReset", "failed"})
    BY <1>2, <1>5 DEF ReadyPending, StoppedPending
<1>7. hpc # "failed" /\ ~Queued("Run")' /\ ~Queued("Reset")' /\ ~Queued("Stop")'
    BY <1>2, <1>3 DEF Queued
<1>8. QED
    BY <1>0, <1>1, <1>2, <1>3, <1>5, <1>6, <1>7 DEF ParkInv, SimParked,
       StopDue, NoStopBeforeInit, StartParked, ResetDue, Committed,
       Uncommitted, TurnInv, ListenQuiet, OneToHarness, FuzzerQueue,
       IdleQueue, RunQueued, ReadyQueued, VerdictAwaited, StoppedQueued,
       ResetQueued, StopQueued

\* The harness receives the one message on its way, with nothing on its way
\* back, so what it answers is the only message to the fuzzer.
LEMMA RecvOne ==
    ASSUME TypeInv, TurnInv, toHarness # <<>>
    PROVE  /\ Len(toHarness) = 1 /\ toFuzzer = <<>> /\ fpc # "listen"
           /\ Tail(toHarness) = <<>>
           /\ Head(toHarness) \in FuzzerEvent
           /\ \A m \in SimicsEvent :
                 /\ Append(toFuzzer, m) = <<m>>
                 /\ \A t \in {"Ready", "Stopped"} :
                       HasType(<<m>>, t) <=> m.type = t
<1>1. Len(toHarness) = 1 /\ toFuzzer = <<>> /\ fpc # "listen"
    BY DEF TurnInv, OneToHarness, ListenQuiet
<1>2. /\ Tail(toHarness) \in Seq(FuzzerEvent) /\ Len(Tail(toHarness)) = 0
      /\ Head(toHarness) \in FuzzerEvent
    BY <1>1, HeadTailProperties DEF TypeInv, TypeOK
<1>3. Tail(toHarness) = <<>>
    BY <1>2, EmptySeq
<1>4. QED
    BY <1>1, <1>2, <1>3 DEF HasType

\* Reset restores the checkpoint, which is the guest at its start magic
\* since the fuzzer only resets an initialized harness; after Stop the
\* fuzzer no longer reads, so the Ready sent with the guest past its start
\* is never answered.
LEMMA ResetOrStopStep ==
    ASSUME ErrorsAbort, TypeInv, ParkInv, TurnInv, RecvResetOrStop
    PROVE  ParkInv' /\ TurnInv'
<1> DEFINE m == Head(toHarness)
<1>1. /\ hpc = "awaitReset" /\ toHarness # <<>>
      /\ toHarness' = Tail(toHarness)
      /\ guest' = IF m.type = "Reset" /\ snapshot # "none" THEN snapshot
                                                           ELSE guest
      /\ UNCHANGED <<stop_reason, initialized, processor, sim, snapshot, fpc>>
    BY DEF RecvResetOrStop, fuzzVars
<1>2. /\ Len(toHarness) = 1 /\ toFuzzer = <<>> /\ fpc # "listen"
      /\ toHarness' = <<>>
      /\ Append(toFuzzer, MsgReady) = <<MsgReady>>
      /\ ~HasType(<<MsgReady>>, "Stopped")
    <2>1. MsgReady \in SimicsEvent /\ MsgReady.type = "Ready"
        BY DEF SimicsEvent, MsgReady
    <2>2. QED
        BY <1>1, <2>1, RecvOne
<1>3. /\ stop_reason \in {"Stop", "Crash"} /\ sim # "running"
      /\ m.type = "Reset" => initialized /\ fpc \in {"awaitReady", "done"}
      /\ m.type = "Stop" => fpc \in {"stopped", "done"}
    BY <1>1 DEF ParkInv, ResetDue, SimParked, TurnInv, ResetQueued,
                StopQueued, Queued
<1>4. /\ toFuzzer' \in {<<>>, <<MsgReady>>}
      /\ hpc' \in {"awaitRun", "failed"}
      /\ toFuzzer' = <<MsgReady>> => m.type \in {"Reset", "Stop"} /\ PeerOpen
      /\ hpc' = "awaitRun" => processor
    BY <1>1, <1>2 DEF RecvResetOrStop, ErrorHpc
<1>5. ~StoppedPending' /\ ~Queued("Run")' /\ ~Queued("Reset")'
      /\ ~Queued("Stop")'
    BY <1>1, <1>2, <1>4 DEF StoppedPending, Queued, HasType
<1>6. ReadyPending' => hpc' = "awaitRun" /\ guest' = "start" /\ initialized'
    <2>1. SUFFICES ASSUME ReadyPending' PROVE hpc' = "awaitRun" /\ guest' = "start" /\ initialized'
        OBVIOUS
    <2>2. toFuzzer' = <<MsgReady>> /\ fpc \in {"awaitShm", "awaitReady"}
        BY <1>1, <1>4, <2>1 DEF ReadyPending, HasType
    <2>3. m.type = "Reset" /\ PeerOpen
        BY <1>3, <1>4, <2>2
    <2>4. initialized /\ processor /\ snapshot = "start"
        BY <1>3, <2>3 DEF ParkInv, Committed
    <2>5. QED
        BY <1>1, <1>4, <2>3, <2>4 DEF RecvResetOrStop
<1>7. Len(toFuzzer') <= 1
    <2>1. CASE toFuzzer' = <<>>
        BY <2>1
    <2>2. CASE toFuzzer' = <<MsgReady>>
        BY <2>2
    <2>3. QED
        BY <1>4, <2>1, <2>2
<1>8. ParkInv'
    BY <1>1, <1>3, <1>4 DEF ParkInv, SimParked, StopDue, NoStopBeforeInit,
       StartParked, ResetDue, Committed, Uncommitted
<1>9. TurnInv'
    BY <1>1, <1>2, <1>4, <1>5, <1>6, <1>7 DEF TurnInv, ListenQuiet,
       OneToHarness, FuzzerQueue, IdleQueue, RunQueued, ReadyQueued,
       VerdictAwaited, StoppedQueued, ResetQueued, StopQueued
<1>10. QED
    BY <1>8, <1>9

\* The input is received with nothing else on either channel: the harness
\* goes idle with both channels empty, or aborts on anything but a Run.
LEMMA RunStep ==
    ASSUME ErrorsAbort, TypeInv, ParkInv, TurnInv, RecvRun
    PROVE  ParkInv' /\ TurnInv'
<1>1. /\ hpc = "awaitRun" /\ toHarness # <<>>
      /\ toHarness' = Tail(toHarness)
      /\ UNCHANGED <<initialized, processor, sim, guest, snapshot, toFuzzer,
                     fpc>>
      /\ hpc' \in {"idle", "failed"}
      /\ hpc' = "idle" => stop_reason' = "None"
      /\ hpc' = "failed" => stop_reason' = stop_reason
    BY DEF RecvRun, ErrorHpc, fuzzVars
<1>2. /\ toFuzzer = <<>> /\ fpc # "listen" /\ toHarness' = <<>>
    BY <1>1, RecvOne
<1>3. sim # "running"
    BY <1>1 DEF ParkInv, SimParked
<1>4. ~ReadyPending' /\ ~StoppedPending' /\ ~Queued("Run")'
      /\ ~Queued("Reset")' /\ ~Queued("Stop")'
    BY <1>1, <1>2 DEF ReadyPending, StoppedPending, Queued, HasType
<1>5. ParkInv'
    BY <1>1, <1>3 DEF ParkInv, SimParked, StopDue, NoStopBeforeInit,
       StartParked, ResetDue, Committed, Uncommitted
<1>6. TurnInv'
    BY <1>1, <1>2, <1>4 DEF TurnInv, ListenQuiet, OneToHarness, FuzzerQueue,
       IdleQueue, RunQueued, ReadyQueued, VerdictAwaited, StoppedQueued,
       ResetQueued, StopQueued
<1>7. QED
    BY <1>5, <1>6

\* A hang-up noticed by a blocked recv ends the harness; nothing is in
\* flight that concerns it.
LEMMA PeerGoneStep ==
    ASSUME ErrorsAbort, ParkInv, TurnInv, PeerGone
    PROVE  ParkInv' /\ TurnInv'
<1>1. /\ hpc \in {"awaitRun", "awaitReset"} /\ hpc' = "failed"
      /\ toHarness = <<>> /\ fpc = "done"
      /\ UNCHANGED <<stop_reason, initialized, processor, sim, guest, snapshot,
                     toHarness, toFuzzer, fpc>>
    BY DEF PeerGone, ErrorHpc, simVars, netVars, fuzzVars
<1>2. sim # "running"
    BY <1>1 DEF ParkInv, SimParked
<1>3. QED
    BY <1>1, <1>2 DEF ParkInv, SimParked, StopDue, NoStopBeforeInit,
       StartParked, ResetDue, Committed, Uncommitted, TurnInv, ListenQuiet,
       OneToHarness, FuzzerQueue, IdleQueue, RunQueued, ReadyQueued,
       ReadyPending, VerdictAwaited, StoppedQueued, StoppedPending,
       ResetQueued, StopQueued, Queued

\* The fuzzer receives only while nothing is on its way to the harness; a
\* Ready or a Stopped it receives is the last message queued for it, and
\* so is the SharedMem it receives while the harness idles.
LEMMA FuzzerRecvFacts ==
    ASSUME TypeInv, TurnInv, toFuzzer # <<>>
    PROVE  /\ toHarness = <<>>
           /\ Tail(toFuzzer) \in Seq(SimicsEvent)
           /\ Len(Tail(toFuzzer)) <= 1
           /\ Head(toFuzzer).type \in {"Ready", "Stopped"} => Tail(toFuzzer) = <<>>
           /\ hpc = "idle" => Tail(toFuzzer) = <<>>
           /\ \A t : HasType(toFuzzer, t) <=>
                        Head(toFuzzer).type = t \/ HasType(Tail(toFuzzer), t)
<1>1. toHarness = <<>>
    BY DEF TurnInv, OneToHarness
<1>2. /\ toFuzzer \in Seq(SimicsEvent)
      /\ Tail(toFuzzer) \in Seq(SimicsEvent)
      /\ Len(Tail(toFuzzer)) = Len(toFuzzer) - 1
      /\ Len(toFuzzer) \in Nat \ {0}
    BY HeadTailProperties, EmptySeq DEF TypeInv, TypeOK
<1>3. Head(toFuzzer) = toFuzzer[1]
    OBVIOUS
<1>4. Head(toFuzzer).type \in {"Ready", "Stopped"} => Len(toFuzzer) = 1
    BY <1>2, <1>3 DEF TurnInv, FuzzerQueue
<1>5. hpc = "idle" => Len(toFuzzer) = 1
    BY <1>2, IdleQueueFacts DEF TurnInv, IdleQueue
<1>6. Len(toFuzzer) <= 2
    BY <1>2 DEF TurnInv, FuzzerQueue
<1>7. Len(Tail(toFuzzer)) = 0 => Tail(toFuzzer) = <<>>
    BY <1>2, EmptySeq
<1>8. \A t : HasType(toFuzzer, t) <=>
                Head(toFuzzer).type = t \/ HasType(Tail(toFuzzer), t)
    BY <1>2, HasTypeTail
<1>9. QED
    BY <1>1, <1>2, <1>4, <1>5, <1>6, <1>7, <1>8

\* The fuzzer's steps touch neither the harness nor the guest.  It sends
\* Initialize alone, answers a Ready (which finds the guest parked at its
\* start) with the only Run, and a verdict with the only Reset or Stop.
LEMMA FuzzerStep ==
    ASSUME TypeInv, ParkInv, TurnInv,
           \/ FuzzerInitialize \/ FuzzerRecvShm \/ FuzzerRecvReady
           \/ FuzzerRecvStopped \/ FuzzerProtocolError \/ FuzzerExit
           \/ FuzzerPeerGone \/ FuzzerCrash
    PROVE  ParkInv' /\ TurnInv'
<1> USE DEF ctxVars, simVars
<1>1. UNCHANGED <<sim, hpc, stop_reason, guest, initialized, processor,
                  snapshot>>
    BY Zenon DEF FuzzerInitialize, FuzzerRecvShm, FuzzerRecvReady,
                 FuzzerRecvStopped, FuzzerProtocolError, FuzzerExit,
                 FuzzerPeerGone, FuzzerCrash
<1>2. ParkInv'
    BY <1>1, ParkFrame
<1>3. CASE FuzzerInitialize
    <2>1. PICK f \in SUBSET FaultKind :
              toHarness' = Append(toHarness, MsgInitialize(f))
        BY <1>3 DEF FuzzerInitialize
    <2>2. /\ fpc = "listen" /\ fpc' = "awaitShm"
          /\ toHarness = <<>> /\ toFuzzer = <<>> /\ toFuzzer' = <<>>
          /\ hpc \in {"boot", "awaitInit"}
        BY <1>3 DEF FuzzerInitialize, TurnInv, ListenQuiet
    <2>3. toHarness' = <<MsgInitialize(f)>>
        BY <2>1, <2>2
    <2>4. Head(toHarness').type = "Initialize" /\ Len(toHarness') = 1
        BY <2>3 DEF MsgInitialize
    <2>5. ~HasType(toFuzzer', "Ready") /\ ~HasType(toFuzzer', "Stopped")
        BY <2>2, HasTypeEmpty
    <2>6. TurnInv'
        BY <1>1, <2>2, <2>3, <2>4, <2>5 DEF TurnInv, ListenQuiet,
           OneToHarness, FuzzerQueue, IdleQueue, RunQueued, ReadyQueued,
           ReadyPending, VerdictAwaited, StoppedQueued, StoppedPending,
           ResetQueued, StopQueued, Queued
    <2>7. QED
        BY <1>2, <2>6
<1>4. CASE FuzzerRecvShm \/ FuzzerProtocolError
    <2>1. /\ toFuzzer # <<>> /\ toFuzzer' = Tail(toFuzzer)
          /\ fpc \in {"awaitShm", "awaitReady", "awaitStopped"}
          /\ fpc' \in {"awaitReady", "done"}
          /\ fpc' = "awaitReady" => fpc = "awaitShm"
          /\ UNCHANGED toHarness
        BY <1>4 DEF FuzzerRecvShm, FuzzerProtocolError, Expects
    <2>2. /\ toHarness = <<>>
          /\ Len(toFuzzer') <= 1
          /\ hpc = "idle" => toFuzzer' = <<>>
          /\ HasType(toFuzzer', "Ready") => HasType(toFuzzer, "Ready")
        BY <2>1, FuzzerRecvFacts
    <2>3. ReadyPending' => ReadyPending
        BY <2>1, <2>2 DEF ReadyPending
    <2>4. ~StoppedPending' /\ ~Queued("Run")' /\ ~Queued("Reset")'
          /\ ~Queued("Stop")'
        BY <2>1, <2>2 DEF StoppedPending, Queued
    <2>5. TurnInv'
        BY <1>1, <2>1, <2>2, <2>3, <2>4 DEF TurnInv, ListenQuiet,
           OneToHarness, FuzzerQueue, IdleQueue, RunQueued, ReadyQueued,
           VerdictAwaited, StoppedQueued, ResetQueued, StopQueued
    <2>6. QED
        BY <1>2, <2>5
<1>5. CASE FuzzerRecvReady
    <2>1. PICK n \in InputLens : toHarness' = Append(toHarness, MsgRun(n))
        BY <1>5 DEF FuzzerRecvReady
    <2>2. /\ fpc = "awaitReady" /\ fpc' = "awaitStopped"
          /\ toFuzzer # <<>> /\ Head(toFuzzer).type = "Ready"
          /\ toFuzzer' = Tail(toFuzzer)
        BY <1>5 DEF FuzzerRecvReady
    <2>3. toHarness = <<>> /\ toFuzzer' = <<>> /\ HasType(toFuzzer, "Ready")
        BY <2>2, FuzzerRecvFacts
    <2>4. hpc = "awaitRun" /\ guest = "start" /\ initialized
        BY <2>2, <2>3 DEF TurnInv, ReadyQueued, ReadyPending
    <2>5. toHarness' = <<MsgRun(n)>>
        BY <2>1, <2>3
    <2>6. Head(toHarness').type = "Run" /\ Len(toHarness') = 1
        BY <2>5 DEF MsgRun
    <2>7. ~HasType(toFuzzer', "Ready") /\ ~HasType(toFuzzer', "Stopped")
        BY <2>3, HasTypeEmpty
    <2>8. TurnInv'
        BY <1>1, <2>2, <2>3, <2>4, <2>6, <2>7 DEF TurnInv, ListenQuiet,
           OneToHarness, FuzzerQueue, IdleQueue, RunQueued, ReadyQueued,
           ReadyPending, VerdictAwaited, StoppedQueued, StoppedPending,
           ResetQueued, StopQueued, Queued
    <2>9. QED
        BY <1>2, <2>8
<1>6. CASE FuzzerRecvStopped
    <2>1. /\ fpc = "awaitStopped"
          /\ toFuzzer # <<>> /\ Head(toFuzzer).type = "Stopped"
          /\ toFuzzer' = Tail(toFuzzer)
          /\ \/ toHarness' = Append(toHarness, MsgReset) /\ fpc' = "awaitReady"
             \/ toHarness' = Append(toHarness, MsgStop) /\ fpc' = "stopped"
        BY <1>6 DEF FuzzerRecvStopped
    <2>2. toHarness = <<>> /\ toFuzzer' = <<>> /\ HasType(toFuzzer, "Stopped")
        BY <2>1, FuzzerRecvFacts
    <2>3. hpc \in {"awaitReset", "failed"} /\ initialized
        BY <2>1, <2>2 DEF TurnInv, StoppedQueued, StoppedPending,
                          VerdictAwaited
    <2>4. \/ Head(toHarness').type = "Reset" /\ fpc' = "awaitReady"
          \/ Head(toHarness').type = "Stop" /\ fpc' = "stopped"
        BY <2>1, <2>2 DEF MsgReset, MsgStop
    <2>5. toHarness' # <<>> /\ Len(toHarness') = 1
        BY <2>1, <2>2
    <2>6. ~HasType(toFuzzer', "Ready") /\ ~HasType(toFuzzer', "Stopped")
        BY <2>2, HasTypeEmpty
    <2>7. TurnInv'
        BY <1>1, <2>1, <2>2, <2>3, <2>4, <2>5, <2>6 DEF TurnInv,
           ListenQuiet, OneToHarness, FuzzerQueue, IdleQueue, RunQueued,
           ReadyQueued, ReadyPending, VerdictAwaited, StoppedQueued,
           StoppedPending, ResetQueued, StopQueued, Queued
    <2>8. QED
        BY <1>2, <2>7
<1>7. CASE FuzzerExit \/ FuzzerPeerGone \/ FuzzerCrash
    <2>1. fpc' = "done" /\ UNCHANGED <<toHarness, toFuzzer>>
        BY <1>7 DEF FuzzerExit, FuzzerPeerGone, FuzzerCrash, netVars
    <2>2. TurnInv'
        BY <1>1, <2>1 DEF TurnInv, ListenQuiet, OneToHarness, FuzzerQueue,
           IdleQueue, RunQueued, ReadyQueued, ReadyPending, VerdictAwaited,
           StoppedQueued, StoppedPending, ResetQueued, StopQueued, Queued
    <2>3. QED
        BY <1>2, <2>2
<1>8. QED
    BY <1>3, <1>4, <1>5, <1>6, <1>7

LEMMA InjStep ==
    ASSUME ErrorsAbort
    PROVE  InjInv /\ [Next]_vars => InjInv'
<1> SUFFICES ASSUME InjInv, [Next]_vars PROVE InjInv'
    OBVIOUS
<1> USE DEF InjInv
<1>1. TypeInv'
    BY TypeStep
<1>2. CASE \/ SimContinue \/ UserBreak \/ GuestStep \/ MagicStart
           \/ MagicStop \/ GuestFault \/ StopNone \/ StartAgain
    BY <1>1, <1>2, SimStep
<1>3. CASE SetProcessor \/ SignalStart \/ Terminated \/ UNCHANGED vars
    BY <1>1, <1>3, ScriptStep
<1>4. CASE Connect \/ RecvInitialize \/ InitGone
    BY <1>1, <1>4, BootStep
<1>5. CASE StartFirst
    BY <1>1, <1>5, StartFirstStep
<1>6. CASE HandleMagicStop \/ HandleCrash
    BY <1>1, <1>6, ReportStep
<1>7. CASE RecvResetAfterStop \/ RecvResetAfterCrash
    BY <1>1, <1>7, ResetOrStopStep DEF RecvResetAfterStop, RecvResetAfterCrash
<1>8. CASE RecvRunAfterStart \/ RecvRunAfterStop \/ RecvRunAfterCrash
    BY <1>1, <1>8, RunStep DEF RecvRunAfterStart, RecvRunAfterStop,
                               RecvRunAfterCrash
<1>9. CASE PeerGone
    BY <1>1, <1>9, PeerGoneStep
<1>10. CASE \/ FuzzerInitialize \/ FuzzerRecvShm \/ FuzzerRecvReady
            \/ FuzzerRecvStopped \/ FuzzerProtocolError \/ FuzzerExit
            \/ FuzzerPeerGone \/ FuzzerCrash
    BY <1>1, <1>10, FuzzerStep
<1>11. QED
    BY <1>2, <1>3, <1>4, <1>5, <1>6, <1>7, <1>8, <1>9, <1>10 DEF Next

(***************************************************************************)
(* Which steps log a Run.  A log only grows by the messages of the step, so *)
(* a step that logs nothing, another single message or two messages does  *)
(* not log a Run.                                                          *)
(***************************************************************************)
LEMMA LogGrowth ==
    ASSUME NEW s \in Seq(EventType), NEW a \in EventType, NEW b \in EventType,
           NEW c \in EventType
    PROVE  /\ Append(s, a) # s
           /\ Append(s, a) = Append(s, b) => a = b
           /\ s \o <<b, c>> # Append(s, a)
<1>1. Len(Append(s, a)) = Len(s) + 1 /\ Append(s, a)[Len(s) + 1] = a
      /\ Len(Append(s, b)) = Len(s) + 1 /\ Append(s, b)[Len(s) + 1] = b
    BY AppendProperties
<1>2. Len(s \o <<b, c>>) = Len(s) + 2
    BY ConcatProperties
<1>3. Len(s) \in Nat
    BY LenProperties
<1>4. QED
    BY <1>1, <1>2, <1>3

\* The steps that neither receive nor send leave the log alone.
LEMMA HistFrame ==
    ASSUME [Next]_vars,
           ~RecvInitialize, ~StartFirst, ~HandleMagicStop, ~HandleCrash,
           ~RecvResetOrStop, ~RecvRun
    PROVE  UNCHANGED hist
<1> USE DEF ctxVars, simVars, netVars, fuzzVars
<1>1. CASE Connect \/ InitGone \/ SetProcessor \/ SignalStart \/ SimContinue
           \/ UserBreak \/ GuestStep
    BY <1>1, Zenon DEF Connect, InitGone, SetProcessor, SignalStart,
                      SimContinue, UserBreak, GuestStep
<1>2. CASE MagicStart \/ MagicStop \/ GuestFault \/ StopNone \/ StartAgain
           \/ PeerGone
    BY <1>2, Zenon DEF MagicStart, MagicStop, GuestFault, StopNone,
                      StartAgain, PeerGone
<1>3. CASE FuzzerInitialize \/ FuzzerRecvShm \/ FuzzerRecvReady
           \/ FuzzerRecvStopped \/ FuzzerProtocolError \/ FuzzerExit
           \/ FuzzerPeerGone \/ FuzzerCrash \/ Terminated \/ UNCHANGED vars
    BY <1>3, Zenon DEF FuzzerInitialize, FuzzerRecvShm, FuzzerRecvReady,
                      FuzzerRecvStopped, FuzzerProtocolError, FuzzerExit,
                      FuzzerPeerGone, FuzzerCrash, Terminated, vars
<1>4. QED
    BY <1>1, <1>2, <1>3 DEF Next, RecvResetAfterStop, RecvResetAfterCrash,
       RecvRunAfterStart, RecvRunAfterStop, RecvRunAfterCrash

\* Only the receipt of a Run logs a Run, and the Run received was queued
\* while the guest was parked at its start magic.
LEMMA RunAtStart ==
    ASSUME InjInv, [Next]_vars, hist' = Append(hist, "Run")
    PROVE  guest = "start"
<1>0. hist \in Seq(EventType) /\ "Run" \in EventType
    BY DEF InjInv, TypeInv, TypeOK, EventType
<1>1. CASE RecvRun
    <2>1. CASE Head(toHarness).type = "Run"
        BY <1>1, <2>1 DEF RecvRun, InjInv, TurnInv, RunQueued, Queued
    <2>2. CASE Head(toHarness).type # "Run"
        <3>1. hist' = hist
            BY <1>1, <2>2 DEF RecvRun
        <3>2. QED
            BY <1>0, <3>1, LogGrowth
    <2>3. QED
        BY <2>1, <2>2
<1>2. CASE RecvInitialize
    <2>1. hist' = hist \o <<"Initialize", "SharedMem">>
        BY <1>2 DEF RecvInitialize
    <2>2. QED
        BY <1>0, <2>1, LogGrowth DEF EventType
<1>3. CASE StartFirst
    <2>1. hist' \in {hist, Append(hist, "Ready")}
        BY <1>3 DEF StartFirst
    <2>2. QED
        BY <1>0, <2>1, LogGrowth DEF EventType
<1>4. CASE HandleMagicStop \/ HandleCrash
    <2>1. hist' \in {hist, Append(hist, "Stopped")}
        BY <1>4 DEF HandleMagicStop, HandleCrash, ReportStop
    <2>2. QED
        BY <1>0, <2>1, LogGrowth DEF EventType
<1>5. CASE RecvResetOrStop
    <2> DEFINE t == Head(toHarness).type
    <2>1. \/ hist' = hist
          \/ t \in {"Reset", "Stop"} /\ hist' = hist \o <<t, "Ready">>
          \/ t \in {"Reset", "Stop"} /\ hist' = Append(hist, t)
        BY <1>5 DEF RecvResetOrStop
    <2>2. QED
        BY <1>0, <2>1, LogGrowth DEF EventType
<1>6. CASE ~RecvInitialize /\ ~StartFirst /\ ~HandleMagicStop /\ ~HandleCrash
           /\ ~RecvResetOrStop /\ ~RecvRun
    BY <1>0, <1>6, HistFrame, LogGrowth
<1>7. QED
    BY <1>1, <1>2, <1>3, <1>4, <1>5, <1>6

\* With every Err of handle_stop aborting, each input handle_stop writes
\* into guest memory goes into a guest parked at its start magic, where
\* "origin" was saved: the first right after the save, every later one
\* right after Reset restored "origin".  This holds whether or not the
\* guest may fault before its start magic, for any fault set, input
\* lengths, buffer sizes and run budget, and with or without user breaks
\* and fuzzer crashes.
THEOREM InjectAtSnapshotHolds ==
    ASSUME ErrorsAbort
    PROVE  Spec => InjectAtSnapshot
<1>1. Init => InjInv
    BY InjInit
<1>2. InjInv /\ [Next]_vars => InjInv'
    BY InjStep
<1>3. InjInv /\ [Next]_vars => [hist' = Append(hist, "Run") => guest = "start"]_vars
    BY RunAtStart
<1>4. Spec => []InjInv
    BY <1>1, <1>2, PTL DEF Spec
<1>5. QED
    BY <1>3, <1>4, PTL DEF Spec, InjectAtSnapshot

=============================================================================
