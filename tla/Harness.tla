------------------------------- MODULE Harness -------------------------------
(***************************************************************************)
(* The harness coordinator of confuse-module (ModuleCtx, context.rs) in    *)
(* the environment it runs in: the fuzzer process at the other end of the  *)
(* two ipc channels, the simulator that delivers the haps and runs         *)
(* SIM_continue through SIM_run_alone, the guest firmware that executes    *)
(* the start and stop magic instructions and raises faults, and the        *)
(* simulator script that sets the `processor` and `signal` attributes.     *)
(*                                                                         *)
(* The harness runs on the simulator thread: handle_stop runs inside the   *)
(* Core_Simulation_Stopped hap with the CTX mutex held and blocks in       *)
(* rx.recv(), so while it waits the guest cannot run and the script cannot *)
(* touch the attributes.  Each harness action is the code from one         *)
(* blocking recv (or the start of the callback) to the next one.           *)
(***************************************************************************)
EXTENDS Naturals, Sequences

CONSTANTS
    Exceptions,         \* CPU exception kinds other than the triple fault
    InputLens,          \* lengths of the inputs the fuzzer sends in Run
    BufSizes,           \* capacities the guest may leave in rdi at the start magic
    MaxRuns,            \* number of Run messages the fuzzer sends, at most
    ErrorsAbort,        \* TRUE: an Err out of handle_stop aborts the process
    FaultsBeforeStart,  \* TRUE: the guest may fault before its start magic
    UserBreaks,         \* TRUE: the user may stop the simulation from the CLI
    FuzzerCrashes       \* TRUE: the fuzzer process may die at any point

ASSUME ExceptionsAssumption == "Triple" \notin Exceptions
ASSUME InputAssumption == InputLens \subseteq Nat /\ InputLens # {}
ASSUME BufAssumption == BufSizes \subseteq Nat /\ BufSizes # {}
ASSUME MaxRunsAssumption == MaxRuns \in Nat \ {0}
ASSUME FlagsAssumption ==
    /\ ErrorsAbort \in BOOLEAN
    /\ FaultsBeforeStart \in BOOLEAN
    /\ UserBreaks \in BOOLEAN
    /\ FuzzerCrashes \in BOOLEAN

\* Fault (confuse_fuzz): the triple fault has a hap of its own.
FaultKind == {"Triple"} \cup Exceptions

(***************************************************************************)
(* Messages.  SimicsEvent goes harness -> fuzzer, FuzzerEvent the other    *)
(* way.  Payloads are abstracted to what the properties tell apart: the    *)
(* fault set of Initialize and the length of a Run input.                  *)
(***************************************************************************)
MsgSharedMem == [type |-> "SharedMem"]
MsgReady == [type |-> "Ready"]
MsgStopped(k) == [type |-> "Stopped", kind |-> k]
MsgInitialize(f) == [type |-> "Initialize", faults |-> f]
MsgRun(n) == [type |-> "Run", len |-> n]
MsgReset == [type |-> "Reset"]
MsgStop == [type |-> "Stop"]

SimicsEvent ==
    {MsgSharedMem, MsgReady} \cup {MsgStopped(k) : k \in {"Normal", "Crash"}}
FuzzerEvent ==
    {MsgInitialize(f) : f \in SUBSET FaultKind} \cup {MsgRun(n) : n \in InputLens}
        \cup {MsgReset, MsgStop}
EventType ==
    {"SharedMem", "Ready", "Stopped", "Initialize", "Run", "Reset", "Stop"}

VARIABLES
    hpc,          \* harness control: "boot", "awaitInit", "idle", "awaitRun",
                  \*   "awaitReset", or "failed" after the process aborted
    stop_reason,  \* ModuleCtx.stop_reason: "None", "Start", "Stop", "Crash"
    initialized,  \* ModuleCtx.initialized
    processor,    \* ModuleCtx.processor is Some(_)
    buffer_size,  \* ModuleCtx.buffer_size
    faults,       \* ModuleCtx.init_info.faults
    haps,         \* fault haps installed by try_new: "Triple", "Exception"
    sim,          \* simulator: "stopped", "running", or "stopping" (a break
                  \*   is requested and Core_Simulation_Stopped is due)
    resume,       \* a SIM_continue queued by SIM_run_alone, not yet run
    guest,        \* guest position: "pre" (before the start magic), "start"
                  \*   (at it), "body" (past it)
    snapshot,     \* guest position saved in micro-checkpoint "origin", or "none"
    saves,        \* VT_save_micro_checkpoint calls so far
    restores,     \* VT_restore_micro_checkpoint calls so far
    written,      \* bytes of the last input written to guest memory
    bootstrap,    \* the channel ends were sent over the bootstrap socket
    toHarness,    \* ipc channel fuzzer -> harness (FIFO)
    toFuzzer,     \* ipc channel harness -> fuzzer (FIFO)
    fpc,          \* fuzzer control
    runs,         \* Run messages the fuzzer has sent
    hist          \* types of the messages the harness sent and received, in order

ctxVars == <<hpc, stop_reason, initialized, processor, buffer_size, faults, haps>>
simVars == <<sim, resume, guest, snapshot, saves, restores, written>>
netVars == <<bootstrap, toHarness, toFuzzer, hist>>
fuzzVars == <<fpc, runs>>
vars == <<ctxVars, simVars, netVars, fuzzVars>>

\* The message protocol the coordinator promises, seen through its log.
Protocol == INSTANCE HarnessProtocol WITH log <- hist

TypeOK ==
    /\ hpc \in {"boot", "awaitInit", "idle", "awaitRun", "awaitReset", "failed"}
    /\ stop_reason \in {"None", "Start", "Stop", "Crash"}
    /\ initialized \in BOOLEAN
    /\ processor \in BOOLEAN
    /\ buffer_size \in {0} \cup BufSizes
    /\ faults \in SUBSET FaultKind
    /\ haps \in SUBSET {"Triple", "Exception"}
    /\ sim \in {"stopped", "running", "stopping"}
    /\ resume \in BOOLEAN
    /\ guest \in {"pre", "start", "body"}
    /\ snapshot \in {"none", "pre", "start", "body"}
    /\ saves \in Nat
    /\ restores \in Nat
    /\ written \in {0} \cup InputLens
    /\ bootstrap \in BOOLEAN
    /\ toHarness \in Seq(FuzzerEvent)
    /\ toFuzzer \in Seq(SimicsEvent)
    /\ fpc \in {"listen", "awaitShm", "awaitReady", "awaitStopped", "stopped", "done"}
    /\ runs \in 0..MaxRuns
    /\ hist \in Seq(EventType)

Init ==
    /\ hpc = "boot"
    /\ stop_reason = "None"
    /\ initialized = FALSE
    /\ processor = FALSE
    /\ buffer_size = 0
    /\ faults = {}
    /\ haps = {}
    /\ sim = "stopped"
    /\ resume = FALSE
    /\ guest = "pre"
    /\ snapshot = "none"
    /\ saves = 0
    /\ restores = 0
    /\ written = 0
    /\ bootstrap = FALSE
    /\ toHarness = <<>>
    /\ toFuzzer = <<>>
    /\ fpc = "listen"
    /\ runs = 0
    /\ hist = <<>>

(***************************************************************************)
(* Helpers.                                                                *)
(***************************************************************************)

\* Where an Err returned by handle_stop (a `?` or bail!) leaves the harness:
\* the process aborts, or the callback logs it and returns with the
\* simulator stopped.  Either way `self.stop_reason = None` is not reached.
ErrorHpc == IF ErrorsAbort THEN "failed" ELSE "idle"

\* tx.send succeeds while the fuzzer's end of the channel is open.
PeerOpen == fpc # "done"

\* The haps try_new installs for a fault set.
HapsFor(f) ==
    (IF "Triple" \in f THEN {"Triple"} ELSE {})
        \cup (IF f \ {"Triple"} # {} THEN {"Exception"} ELSE {})

(***************************************************************************)
(* Bootstrap: ModuleCtx::try_new, run when CTX is first locked.            *)
(***************************************************************************)

\* Connect to the bootstrap socket, create both channels and send the
\* fuzzer its ends; then block in rx.recv() for Initialize.  The connect
\* fails once the fuzzer's one-shot server is gone, and an Err of try_new
\* hits the .expect of CTX's initialiser: the process aborts.
Connect ==
    /\ hpc = "boot"
    /\ IF fpc # "done"
         THEN /\ hpc' = "awaitInit"
              /\ bootstrap' = TRUE
         ELSE /\ hpc' = "failed"
              /\ UNCHANGED bootstrap
    /\ UNCHANGED <<stop_reason, initialized, processor, buffer_size, faults, haps>>
    /\ UNCHANGED <<simVars, toHarness, toFuzzer, hist, fuzzVars>>

\* Mutant: SharedMem sent before the recv for Initialize.
RecvInitializeShmFirst ==
    /\ hpc = "awaitInit"
    /\ toHarness # <<>>
    /\ Head(toHarness).type = "Initialize"
    /\ faults' = Head(toHarness).faults
    /\ haps' = HapsFor(Head(toHarness).faults)
    /\ toHarness' = Tail(toHarness)
    /\ toFuzzer' = Append(toFuzzer, MsgSharedMem)
    /\ hist' = hist \o <<"SharedMem", "Initialize">>
    /\ hpc' = "idle"
    /\ UNCHANGED <<stop_reason, initialized, processor, buffer_size>>
    /\ UNCHANGED <<simVars, bootstrap, fuzzVars>>

\* Initialize(info): keep the fault set, install the triple-fault hap if
\* Triple is in it and the exception hap if anything else is, fill the
\* coverage map and send SharedMem.  (The fuzzer sends nothing else first.)
RecvInitialize ==
    /\ hpc = "awaitInit"
    /\ toHarness # <<>>
    /\ Head(toHarness).type = "Initialize"
    /\ faults' = Head(toHarness).faults
    /\ haps' = HapsFor(Head(toHarness).faults)
    /\ toHarness' = Tail(toHarness)
    /\ toFuzzer' = Append(toFuzzer, MsgSharedMem)
    /\ hist' = hist \o <<"Initialize", "SharedMem">>
    /\ hpc' = "idle"
    /\ UNCHANGED <<stop_reason, initialized, processor, buffer_size>>
    /\ UNCHANGED <<simVars, bootstrap, fuzzVars>>

\* rx.recv()? for Initialize fails once the fuzzer has hung up: try_new
\* returns the Err and .expect aborts the process.
InitGone ==
    /\ hpc = "awaitInit"
    /\ toHarness = <<>>
    /\ fpc = "done"
    /\ hpc' = "failed"
    /\ UNCHANGED <<stop_reason, initialized, processor, buffer_size, faults, haps>>
    /\ UNCHANGED <<simVars, netVars, fuzzVars>>

(***************************************************************************)
(* The simulator script: the `processor` and `signal` attribute setters.   *)
(* They lock CTX, so they run only while no callback holds it.             *)
(***************************************************************************)

\* set_processor
SetProcessor ==
    /\ hpc = "idle"
    /\ ~processor
    /\ processor' = TRUE
    /\ UNCHANGED <<hpc, stop_reason, initialized, buffer_size, faults, haps>>
    /\ UNCHANGED <<simVars, netVars, fuzzVars>>

\* handle_signal(Signal::Start) -> start() -> resume_simulation()
SignalStart ==
    /\ hpc = "idle"
    /\ ~resume
    /\ resume' = TRUE
    /\ UNCHANGED <<ctxVars, sim, guest, snapshot, saves, restores, written>>
    /\ UNCHANGED <<netVars, fuzzVars>>

(***************************************************************************)
(* The simulator and the guest (environment, not code of this repository). *)
(* A break requested by a hap takes effect before the guest's next         *)
(* instruction, so the guest only acts while the simulator is running.     *)
(***************************************************************************)

\* The SIM_continue queued by SIM_run_alone runs once no callback holds the
\* simulator thread; it does nothing to a simulation already running.
SimContinue ==
    /\ resume
    /\ hpc = "idle"
    /\ sim \in {"stopped", "running"}
    /\ resume' = FALSE
    /\ sim' = "running"
    /\ UNCHANGED <<ctxVars, guest, snapshot, saves, restores, written>>
    /\ UNCHANGED <<netVars, fuzzVars>>

\* The user stops the simulation; Core_Simulation_Stopped follows with no
\* stop reason pending.
UserBreak ==
    /\ UserBreaks
    /\ sim = "running"
    /\ sim' = "stopping"
    /\ UNCHANGED <<ctxVars, resume, guest, snapshot, saves, restores, written>>
    /\ UNCHANGED <<netVars, fuzzVars>>

\* The stop classifier of the haps (callbacks.rs): record the reason unless
\* one is already pending (the first wins), and break the simulation.
Classify(r) ==
    /\ stop_reason' = IF stop_reason = "None" THEN r ELSE stop_reason
    /\ sim' = "stopping"

\* A fault reaches the classifier when its hap is installed, and counts as a
\* crash when it is one of the configured faults.
Caught(f) ==
    /\ (IF f = "Triple" THEN "Triple" ELSE "Exception") \in haps
    /\ f \in faults

\* The guest executes past the start magic without a hap firing.
GuestStep ==
    /\ sim = "running"
    /\ guest = "start"
    /\ guest' = "body"
    /\ UNCHANGED <<ctxVars, sim, resume, snapshot, saves, restores, written>>
    /\ UNCHANGED <<netVars, fuzzVars>>

\* Core_Magic_Instruction with the start number.
MagicStart ==
    /\ sim = "running"
    /\ guest \in {"pre", "body"}
    /\ guest' = "start"
    /\ Classify("Start")
    /\ UNCHANGED <<hpc, initialized, processor, buffer_size, faults, haps>>
    /\ UNCHANGED <<resume, snapshot, saves, restores, written, netVars, fuzzVars>>

\* Core_Magic_Instruction with the stop number.
MagicStop ==
    /\ sim = "running"
    /\ guest \in {"start", "body"}
    /\ guest' = "body"
    /\ Classify("Stop")
    /\ UNCHANGED <<hpc, initialized, processor, buffer_size, faults, haps>>
    /\ UNCHANGED <<resume, snapshot, saves, restores, written, netVars, fuzzVars>>

\* Core_Exception or X86_Triple_Fault for a configured fault.
GuestFault ==
    /\ sim = "running"
    /\ guest # "pre" \/ FaultsBeforeStart
    /\ \E f \in FaultKind : Caught(f)
    /\ guest' = IF guest = "pre" THEN "pre" ELSE "body"
    /\ Classify("Crash")
    /\ UNCHANGED <<hpc, initialized, processor, buffer_size, faults, haps>>
    /\ UNCHANGED <<resume, snapshot, saves, restores, written, netVars, fuzzVars>>

(***************************************************************************)
(* ModuleCtx::handle_stop, run by Core_Simulation_Stopped.                 *)
(***************************************************************************)

\* The simulation has stopped and its hap may lock CTX.
Stopping == sim = "stopping" /\ hpc = "idle"

\* No stop reason pending: nothing to do.
StopNone ==
    /\ Stopping
    /\ stop_reason = "None"
    /\ sim' = "stopped"
    /\ UNCHANGED <<ctxVars, resume, guest, snapshot, saves, restores, written>>
    /\ UNCHANGED <<netVars, fuzzVars>>

\* Mutant: the re-entry branch treated like the first start minus the save,
\* announcing Ready again.
StartAgainSendsReady ==
    /\ Stopping
    /\ stop_reason = "Start"
    /\ initialized
    /\ sim' = "stopped"
    /\ toFuzzer' = Append(toFuzzer, MsgReady)
    /\ hist' = Append(hist, "Ready")
    /\ hpc' = "awaitRun"
    /\ UNCHANGED <<stop_reason, initialized, processor, buffer_size, faults, haps>>
    /\ UNCHANGED <<resume, guest, snapshot, saves, restores, written>>
    /\ UNCHANGED <<bootstrap, toHarness, fuzzVars>>

\* Magic::Start with initialized set: resume and clear the reason.
StartAgain ==
    /\ Stopping
    /\ stop_reason = "Start"
    /\ initialized
    /\ sim' = "stopped"
    /\ resume' = TRUE
    /\ stop_reason' = "None"
    /\ UNCHANGED <<hpc, initialized, processor, buffer_size, faults, haps>>
    /\ UNCHANGED <<guest, snapshot, saves, restores, written, netVars, fuzzVars>>

\* Mutant: the `if self.initialized` test lost, every start magic saves.
StartFirstIgnoringInitialized ==
    /\ Stopping
    /\ stop_reason = "Start"
    /\ sim' = "stopped"
    /\ saves' = saves + 1
    /\ snapshot' = IF snapshot = "none" THEN guest ELSE snapshot
    /\ IF ~processor
         THEN /\ hpc' = ErrorHpc
              /\ UNCHANGED <<initialized, buffer_size, toFuzzer, hist>>
         ELSE /\ initialized' = TRUE
              /\ buffer_size' \in BufSizes
              /\ IF PeerOpen
                   THEN /\ toFuzzer' = Append(toFuzzer, MsgReady)
                        /\ hist' = Append(hist, "Ready")
                        /\ hpc' = "awaitRun"
                   ELSE /\ hpc' = ErrorHpc
                        /\ UNCHANGED <<toFuzzer, hist>>
    /\ UNCHANGED <<stop_reason, processor, faults, haps>>
    /\ UNCHANGED <<resume, guest, restores, written, bootstrap, toHarness, fuzzVars>>

\* Magic::Start with initialized unset: save "origin" first, then look up
\* the processor (an Err if none was set), read rdi as buffer_size, set
\* initialized, send Ready and block for the input.  VT_restore_micro_
\* checkpoint(0) restores the first checkpoint saved, so a second save
\* leaves the restored state as it was.
StartFirst ==
    /\ Stopping
    /\ stop_reason = "Start"
    /\ ~initialized
    /\ sim' = "stopped"
    /\ saves' = saves + 1
    /\ snapshot' = IF snapshot = "none" THEN guest ELSE snapshot
    /\ IF ~processor
         THEN /\ hpc' = ErrorHpc
              /\ UNCHANGED <<initialized, buffer_size, toFuzzer, hist>>
         ELSE /\ initialized' = TRUE
              /\ buffer_size' \in BufSizes
              /\ IF PeerOpen
                   THEN /\ toFuzzer' = Append(toFuzzer, MsgReady)
                        /\ hist' = Append(hist, "Ready")
                        /\ hpc' = "awaitRun"
                   ELSE /\ hpc' = ErrorHpc
                        /\ UNCHANGED <<toFuzzer, hist>>
    /\ UNCHANGED <<stop_reason, processor, faults, haps>>
    /\ UNCHANGED <<resume, guest, restores, written, bootstrap, toHarness, fuzzVars>>

\* Magic::Stop and Crash: send Stopped(kind), ensure! that sim.rexec's
\* state_info has one entry, then block for Reset or Stop.
ReportStop(kind) ==
    /\ Stopping
    /\ sim' = "stopped"
    /\ IF PeerOpen
         THEN /\ toFuzzer' = Append(toFuzzer, MsgStopped(kind))
              /\ hist' = Append(hist, "Stopped")
              /\ \E oneEntry \in BOOLEAN :
                    hpc' = IF oneEntry THEN "awaitReset" ELSE ErrorHpc
         ELSE /\ hpc' = ErrorHpc
              /\ UNCHANGED <<toFuzzer, hist>>
    /\ UNCHANGED <<stop_reason, initialized, processor, buffer_size, faults, haps>>
    /\ UNCHANGED <<resume, guest, snapshot, saves, restores, written>>
    /\ UNCHANGED <<bootstrap, toHarness, fuzzVars>>

HandleMagicStop == stop_reason = "Stop" /\ ReportStop("Normal")

HandleCrash == stop_reason = "Crash" /\ ReportStop("Crash")

\* Mutant: Reset acknowledged without VT_restore_micro_checkpoint.
RecvResetOrStopNoRestore ==
    /\ hpc = "awaitReset"
    /\ toHarness # <<>>
    /\ LET m == Head(toHarness)
           known == m.type \in {"Reset", "Stop"}
       IN /\ toHarness' = Tail(toHarness)
          /\ restores' = restores
          /\ guest' = guest
          /\ IF known /\ PeerOpen
               THEN /\ toFuzzer' = Append(toFuzzer, MsgReady)
                    /\ hist' = hist \o <<m.type, "Ready">>
                    /\ hpc' = IF processor THEN "awaitRun" ELSE ErrorHpc
               ELSE /\ toFuzzer' = toFuzzer
                    /\ hist' = IF known THEN Append(hist, m.type) ELSE hist
                    /\ hpc' = ErrorHpc
    /\ UNCHANGED <<stop_reason, initialized, processor, buffer_size, faults, haps>>
    /\ UNCHANGED <<sim, resume, snapshot, saves, written, bootstrap, fuzzVars>>

\* The recv after Stopped: Reset restores "origin" and discards the
\* recorded future, Stop does nothing, anything else bails.  After Reset
\* and after Stop alike Ready is sent and the processor looked up before the
\* recv for the input.
RecvResetOrStop ==
    /\ hpc = "awaitReset"
    /\ toHarness # <<>>
    /\ LET m == Head(toHarness)
           known == m.type \in {"Reset", "Stop"}
       IN /\ toHarness' = Tail(toHarness)
          /\ restores' = IF m.type = "Reset" THEN restores + 1 ELSE restores
          /\ guest' = IF m.type = "Reset" /\ snapshot # "none"
                        THEN snapshot ELSE guest
          /\ IF known /\ PeerOpen
               THEN /\ toFuzzer' = Append(toFuzzer, MsgReady)
                    /\ hist' = hist \o <<m.type, "Ready">>
                    /\ hpc' = IF processor THEN "awaitRun" ELSE ErrorHpc
               ELSE /\ toFuzzer' = toFuzzer
                    /\ hist' = IF known THEN Append(hist, m.type) ELSE hist
                    /\ hpc' = ErrorHpc
    /\ UNCHANGED <<stop_reason, initialized, processor, buffer_size, faults, haps>>
    /\ UNCHANGED <<sim, resume, snapshot, saves, written, bootstrap, fuzzVars>>

RecvResetAfterStop == stop_reason = "Stop" /\ RecvResetOrStop

RecvResetAfterCrash == stop_reason = "Crash" /\ RecvResetOrStop

\* Mutant: the input written but resume_simulation() forgotten.
RecvRunNoResume ==
    /\ hpc = "awaitRun"
    /\ toHarness # <<>>
    /\ toHarness' = Tail(toHarness)
    /\ IF Head(toHarness).type = "Run"
         THEN /\ written' = Head(toHarness).len
              /\ resume' = resume
              /\ stop_reason' = "None"
              /\ hist' = Append(hist, "Run")
              /\ hpc' = "idle"
         ELSE /\ hpc' = ErrorHpc
              /\ UNCHANGED <<written, resume, stop_reason, hist>>
    /\ UNCHANGED <<initialized, processor, buffer_size, faults, haps>>
    /\ UNCHANGED <<sim, guest, snapshot, saves, restores>>
    /\ UNCHANGED <<bootstrap, toFuzzer, fuzzVars>>

\* The recv for the input: Run(input) is written at buffer_address in
\* 8-byte chunks, the simulation is resumed, and handle_stop ends by
\* clearing stop_reason; anything else bails.
RecvRun ==
    /\ hpc = "awaitRun"
    /\ toHarness # <<>>
    /\ toHarness' = Tail(toHarness)
    /\ IF Head(toHarness).type = "Run"
         THEN /\ written' = Head(toHarness).len
              /\ resume' = TRUE
              /\ stop_reason' = "None"
              /\ hist' = Append(hist, "Run")
              /\ hpc' = "idle"
         ELSE /\ hpc' = ErrorHpc
              /\ UNCHANGED <<written, resume, stop_reason, hist>>
    /\ UNCHANGED <<initialized, processor, buffer_size, faults, haps>>
    /\ UNCHANGED <<sim, guest, snapshot, saves, restores>>
    /\ UNCHANGED <<bootstrap, toFuzzer, fuzzVars>>

RecvRunAfterStart == stop_reason = "Start" /\ RecvRun

RecvRunAfterStop == stop_reason = "Stop" /\ RecvRun

RecvRunAfterCrash == stop_reason = "Crash" /\ RecvRun

\* Mutant: a hang-up noticed only by the recv for the input.
PeerGoneOnlyAwaitRun ==
    /\ hpc = "awaitRun"
    /\ toHarness = <<>>
    /\ fpc = "done"
    /\ hpc' = ErrorHpc
    /\ UNCHANGED <<stop_reason, initialized, processor, buffer_size, faults, haps>>
    /\ UNCHANGED <<simVars, netVars, fuzzVars>>

\* rx.recv() returns Err once the fuzzer has hung up with nothing queued.
PeerGone ==
    /\ hpc \in {"awaitRun", "awaitReset"}
    /\ toHarness = <<>>
    /\ fpc = "done"
    /\ hpc' = ErrorHpc
    /\ UNCHANGED <<stop_reason, initialized, processor, buffer_size, faults, haps>>
    /\ UNCHANGED <<simVars, netVars, fuzzVars>>

(***************************************************************************)
(* The fuzzer side of the protocol (confuse_fuzz, not under src/).         *)
(***************************************************************************)

\* Take the channel ends from the bootstrap socket and send Initialize.
FuzzerInitialize ==
    /\ fpc = "listen"
    /\ bootstrap
    /\ \E f \in SUBSET FaultKind :
          toHarness' = Append(toHarness, MsgInitialize(f))
    /\ fpc' = "awaitShm"
    /\ UNCHANGED <<ctxVars, simVars, bootstrap, toFuzzer, hist, runs>>

\* The message each waiting state expects next.
Expects == [awaitShm |-> "SharedMem", awaitReady |-> "Ready",
            awaitStopped |-> "Stopped"]

FuzzerRecvShm ==
    /\ fpc = "awaitShm"
    /\ toFuzzer # <<>>
    /\ Head(toFuzzer).type = "SharedMem"
    /\ toFuzzer' = Tail(toFuzzer)
    /\ fpc' = "awaitReady"
    /\ UNCHANGED <<ctxVars, simVars, bootstrap, toHarness, hist, runs>>

\* Ready: send the next input.
FuzzerRecvReady ==
    /\ fpc = "awaitReady"
    /\ toFuzzer # <<>>
    /\ Head(toFuzzer).type = "Ready"
    /\ toFuzzer' = Tail(toFuzzer)
    /\ \E n \in InputLens : toHarness' = Append(toHarness, MsgRun(n))
    /\ runs' = runs + 1
    /\ fpc' = "awaitStopped"
    /\ UNCHANGED <<ctxVars, simVars, bootstrap, hist>>

\* Mutant: the run budget compared with <=, one Run too many.
FuzzerRecvStoppedOffByOne ==
    /\ fpc = "awaitStopped"
    /\ toFuzzer # <<>>
    /\ Head(toFuzzer).type = "Stopped"
    /\ toFuzzer' = Tail(toFuzzer)
    /\ \/ /\ runs <= MaxRuns
          /\ toHarness' = Append(toHarness, MsgReset)
          /\ fpc' = "awaitReady"
       \/ /\ toHarness' = Append(toHarness, MsgStop)
          /\ fpc' = "stopped"
    /\ UNCHANGED <<ctxVars, simVars, bootstrap, hist, runs>>

\* Stopped: reset for another input while the budget lasts, or stop.
FuzzerRecvStopped ==
    /\ fpc = "awaitStopped"
    /\ toFuzzer # <<>>
    /\ Head(toFuzzer).type = "Stopped"
    /\ toFuzzer' = Tail(toFuzzer)
    /\ \/ /\ runs < MaxRuns
          /\ toHarness' = Append(toHarness, MsgReset)
          /\ fpc' = "awaitReady"
       \/ /\ toHarness' = Append(toHarness, MsgStop)
          /\ fpc' = "stopped"
    /\ UNCHANGED <<ctxVars, simVars, bootstrap, hist, runs>>

\* Any other message is a protocol error: the fuzzer exits.
FuzzerProtocolError ==
    /\ fpc \in DOMAIN Expects
    /\ toFuzzer # <<>>
    /\ Head(toFuzzer).type # Expects[fpc]
    /\ toFuzzer' = Tail(toFuzzer)
    /\ fpc' = "done"
    /\ UNCHANGED <<ctxVars, simVars, bootstrap, toHarness, hist, runs>>

\* After Stop the fuzzer exits, closing its channel ends.
FuzzerExit ==
    /\ fpc = "stopped"
    /\ fpc' = "done"
    /\ UNCHANGED <<ctxVars, simVars, netVars, runs>>

\* Mutant: a dead harness noticed only while waiting for a verdict.
FuzzerPeerGoneOnlyAwaitStopped ==
    /\ fpc = "awaitStopped"
    /\ toFuzzer = <<>>
    /\ hpc = "failed"
    /\ fpc' = "done"
    /\ UNCHANGED <<ctxVars, simVars, netVars, runs>>

\* recv fails once the harness process has aborted.
FuzzerPeerGone ==
    /\ fpc \in DOMAIN Expects
    /\ toFuzzer = <<>>
    /\ hpc = "failed"
    /\ fpc' = "done"
    /\ UNCHANGED <<ctxVars, simVars, netVars, runs>>

\* The fuzzer process dies: its channel ends and bootstrap server close;
\* what it already sent stays readable.
FuzzerCrash ==
    /\ FuzzerCrashes
    /\ fpc # "done"
    /\ fpc' = "done"
    /\ UNCHANGED <<ctxVars, simVars, netVars, runs>>

\* Both processes have ended.
Terminated ==
    /\ hpc = "failed"
    /\ fpc = "done"
    /\ UNCHANGED vars

Next ==
    \/ Connect \/ RecvInitialize \/ InitGone
    \/ SetProcessor \/ SignalStart
    \/ SimContinue \/ UserBreak
    \/ GuestStep \/ MagicStart \/ MagicStop \/ GuestFault
    \/ StopNone \/ StartAgain \/ StartFirst
    \/ HandleMagicStop \/ HandleCrash
    \/ RecvResetAfterStop \/ RecvResetAfterCrash
    \/ RecvRunAfterStart \/ RecvRunAfterStop \/ RecvRunAfterCrash
    \/ PeerGone
    \/ FuzzerInitialize \/ FuzzerRecvShm \/ FuzzerRecvReady
    \/ FuzzerRecvStopped \/ FuzzerProtocolError \/ FuzzerExit
    \/ FuzzerPeerGone \/ FuzzerCrash
    \/ Terminated

Spec == Init /\ [][Next]_vars

(***************************************************************************)
(* Fairness.  The harness's code runs whenever it can: a hap is delivered  *)
(* once the simulation stops, recv returns once a message is queued or the *)
(* peer is gone, and SIM_run_alone runs the queued SIM_continue.  The      *)
(* campaign script sends the start signal to launch the run (once: it is  *)
(* owed only until the harness is initialized), but need not set          *)
(* `processor`.                                                            *)
(* The guest honours its contract: it reaches its start magic and ends     *)
(* every run at its stop magic or a configured fault (the fuzzer's         *)
(* watchdog, not modelled, stands in for a guest that does not).  A live   *)
(* fuzzer answers; its crash, and a user break, are never obligations.     *)
(***************************************************************************)
Fairness ==
    /\ WF_vars(Connect) /\ WF_vars(RecvInitialize) /\ WF_vars(InitGone)
    /\ WF_vars(~initialized /\ SignalStart) /\ WF_vars(SimContinue)
    /\ WF_vars(StopNone) /\ WF_vars(StartAgain) /\ WF_vars(StartFirst)
    /\ WF_vars(HandleMagicStop) /\ WF_vars(HandleCrash)
    /\ WF_vars(RecvResetOrStop) /\ WF_vars(RecvRun) /\ WF_vars(PeerGone)
    /\ SF_vars(MagicStart) /\ SF_vars(MagicStop \/ GuestFault)
    /\ WF_vars(FuzzerInitialize) /\ WF_vars(FuzzerRecvShm)
    /\ WF_vars(FuzzerRecvReady) /\ WF_vars(FuzzerRecvStopped)
    /\ WF_vars(FuzzerProtocolError) /\ WF_vars(FuzzerExit)
    /\ WF_vars(FuzzerPeerGone)

FairSpec == Spec /\ Fairness

(***************************************************************************)
(* Properties.                                                             *)
(***************************************************************************)

\* handle_stop saves the "origin" micro-checkpoint at most once in the life
\* of the process, and while the harness is alive it has saved it exactly
\* when `initialized` is set (spec §3 invariants 1 and 3, §8 invariant 3).
\* Breaking it takes a start magic that finds `initialized` unset after a
\* checkpoint was taken: an Err between the save and `initialized = true`,
\* or a re-entry through the start magic that saves again.
SnapshotTakenOnce ==
    /\ saves <= 1
    /\ hpc # "failed" => (initialized <=> saves = 1)

\* Everything the harness sends and receives follows the protocol:
\* Initialize, SharedMem, then Ready, Run, Stopped, Reset or Stop, Ready,
\* Run, ...: every Ready is answered by exactly one Run, every Stopped is
\* preceded by a Run and followed by one Reset or Stop before the next
\* Ready (spec §4.6, §8 invariants 1 and 2).  It relates the two channels
\* across every path of handle_stop.
ProtocolOrder == Protocol!WellFormed

\* The coordinator implements the abstract protocol of HarnessProtocol
\* under the mapping log <- hist: each step of try_new and handle_stop
\* either leaves the message log alone or is one step of the protocol.
ImplementsProtocol == Protocol!Spec

\* Every input is written into a guest parked at its start magic, the point
\* where "origin" was saved: the first input right after the save, every
\* later one right after Reset restored "origin".  An input written into a
\* guest that already ran past the start would make iterations depend on
\* each other.
InjectAtSnapshot ==
    [][hist' = Append(hist, "Run") => guest = "start"]_vars

\* Spec §4.6 and §5: every input the fuzzer sends is answered.  A fuzzer
\* waiting for the verdict of a Run eventually leaves that wait: the
\* harness resumes the guest, the stop is classified and handle_stop sends
\* Stopped, or the harness ends and the fuzzer sees its peer gone.
VerdictDelivered == fpc = "awaitStopped" ~> fpc # "awaitStopped"

\* Spec §4.6 and §7: a fuzzer waiting for SharedMem or Ready is never left
\* waiting for ever.  The harness sends Ready after the start magic and
\* after every Reset or Stop, or it ends and the fuzzer sees it gone.  The
\* hard path is a failed state_info check after Stopped (context.rs 282):
\* the fuzzer has answered with Reset and waits for a Ready the harness
\* will never send, so only the abort of the harness process frees it.
ReadyDelivered ==
    fpc \in {"awaitShm", "awaitReady"} ~> fpc \notin {"awaitShm", "awaitReady"}

\* Spec §5 and §7, PeerGone is fatal: once the fuzzer has gone, the harness
\* process ends instead of blocking in a recv (with CTX locked and the
\* simulator frozen) or running on without a peer.  Every blocking recv
\* and every send must notice the hang-up.
PeerGoneDetected == fpc = "done" ~> hpc = "failed"

\* Spec §8 S5: after Stop the harness returns without sending anything more.
NoSendAfterStop ==
    \A i \in 1..Len(hist) :
        hist[i] = "Stop" =>
            \A j \in i + 1..Len(hist) : hist[j] \notin {"SharedMem", "Ready", "Stopped"}

\* Spec §9: the input written to guest memory does not exceed the
\* capacity the guest advertised in rdi (truncated or rejected).
InputFitsBuffer == written <= buffer_size

=============================================================================
