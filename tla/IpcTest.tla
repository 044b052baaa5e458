------------------------------ MODULE IpcTest ------------------------------
(***************************************************************************)
(* The bootstrap of ipc-test-module (lib.rs): the first init_local locks   *)
(* CTX, whose lazy_static initialiser registers the class and runs         *)
(* ModuleCtx::try_new; any Err of try_new hits .expect and aborts the      *)
(* simulator process.  try_new connects to the fuzzer's bootstrap socket,  *)
(* sends it the channel ends, blocks for Initialize, fills the shared map  *)
(* byte by byte and sends SharedMem.  The fuzzer is a separate process: it *)
(* runs between the module's steps, may die at any point, and reads the    *)
(* map as soon as it holds SharedMem.                                      *)
(***************************************************************************)
EXTENDS Naturals, Sequences

CONSTANTS
    MapLen,     \* writer.len() (AFL_MAPSIZE in the code)
    FirstMsgs,  \* what the fuzzer may send first: "Initialize" or another event
    MaxCalls    \* bound on the init_local calls

ASSUME MapLenAssumption == MapLen \in Nat \ {0}
ASSUME FirstMsgsAssumption == "Initialize" \in FirstMsgs
ASSUME MaxCallsAssumption == MaxCalls \in Nat \ {0}

VARIABLES
    mpc,        \* module: "unloaded", "awaitInit", "filling", "ready", "aborted"
    filled,     \* bytes of the map written by the fill loop
    bootstrap,  \* the channel ends were sent over the bootstrap socket
    toModule,   \* ipc channel fuzzer -> module
    toFuzzer,   \* ipc channel module -> fuzzer
    fpc,        \* fuzzer: "listening", "awaitShm", "gotShm", "gone"
    seen,       \* filled bytes when the fuzzer took SharedMem and read the map
    calls       \* init_local calls so far

vars == <<mpc, filled, bootstrap, toModule, toFuzzer, fpc, seen, calls>>

TypeOK ==
    /\ mpc \in {"unloaded", "awaitInit", "filling", "ready", "aborted"}
    /\ filled \in 0..MapLen
    /\ bootstrap \in BOOLEAN
    /\ toModule \in Seq(FirstMsgs)
    /\ toFuzzer \in Seq({"SharedMem"})
    /\ fpc \in {"listening", "awaitShm", "gotShm", "gone"}
    /\ seen \in 0..MapLen
    /\ calls \in 0..MaxCalls

Init ==
    /\ mpc = "unloaded"
    /\ filled = 0
    /\ bootstrap = FALSE
    /\ toModule = <<>>
    /\ toFuzzer = <<>>
    /\ fpc = "listening"
    /\ seen = 0
    /\ calls = 0

\* var(BOOTSTRAP_SOCKNAME)? and IpcSender::connect(..)?: both succeed when
\* the variable is set and the fuzzer's one-shot server still exists.
\* Then both channels are created and bootstrap.send((otx, orx))? hands
\* the fuzzer its ends.
Connected(envSet) == envSet /\ fpc = "listening"

\* The first init_local: CTX.lock() runs the lazy_static initialiser,
\* which registers the class and calls try_new up to its blocking recv;
\* an Err before the recv aborts through .expect.
InitLocal ==
    /\ mpc = "unloaded"
    /\ calls < MaxCalls
    /\ calls' = calls + 1
    /\ \E envSet \in BOOLEAN :
          IF Connected(envSet)
            THEN /\ bootstrap' = TRUE
                 /\ mpc' = "awaitInit"
            ELSE /\ mpc' = "aborted"
                 /\ UNCHANGED bootstrap
    /\ UNCHANGED <<filled, toModule, toFuzzer, fpc, seen>>

\* Mutant: anything but Initialize skipped, and the recv repeated.
RecvInitSkipOther ==
    /\ mpc = "awaitInit"
    /\ toModule # <<>>
    /\ toModule' = Tail(toModule)
    /\ mpc' = IF Head(toModule) = "Initialize" THEN "filling" ELSE "awaitInit"
    /\ UNCHANGED <<filled, bootstrap, toFuzzer, fpc, seen, calls>>

\* rx.recv()?: Initialize lets try_new go on to the map, anything else is
\* bail!("Expected initialize command") and aborts.
RecvInit ==
    /\ mpc = "awaitInit"
    /\ toModule # <<>>
    /\ toModule' = Tail(toModule)
    /\ mpc' = IF Head(toModule) = "Initialize" THEN "filling" ELSE "aborted"
    /\ UNCHANGED <<filled, bootstrap, toFuzzer, fpc, seen, calls>>

\* rx.recv() returns Err once the fuzzer has gone with nothing queued.
RecvGone ==
    /\ mpc = "awaitInit"
    /\ toModule = <<>>
    /\ fpc = "gone"
    /\ mpc' = "aborted"
    /\ UNCHANGED <<filled, bootstrap, toModule, toFuzzer, fpc, seen, calls>>

\* Mutant: the loop bound off by one, `0..=writer.len()`.
FillStepPastEnd ==
    /\ mpc = "filling"
    /\ filled <= MapLen
    /\ filled' = filled + 1
    /\ UNCHANGED <<mpc, bootstrap, toModule, toFuzzer, fpc, seen, calls>>

\* One turn of `for i in 0..writer.len() { writer.write_at(..)?; }`.
FillStep ==
    /\ mpc = "filling"
    /\ filled < MapLen
    /\ filled' = filled + 1
    /\ UNCHANGED <<mpc, bootstrap, toModule, toFuzzer, fpc, seen, calls>>

\* After the loop: tx.send(SharedMem(shm.try_clone()?))? (an Err once the
\* fuzzer's receiver is gone, and try_new aborts), then Ok(Self) is stored
\* in CTX.
SendShm ==
    /\ mpc = "filling"
    /\ filled = MapLen
    /\ IF fpc # "gone"
         THEN /\ toFuzzer' = Append(toFuzzer, "SharedMem")
              /\ mpc' = "ready"
         ELSE /\ mpc' = "aborted"
              /\ UNCHANGED toFuzzer
    /\ UNCHANGED <<filled, bootstrap, toModule, fpc, seen, calls>>

\* A later init_local: CTX is built, the lock is taken and released.
InitLocalAgain ==
    /\ mpc = "ready"
    /\ calls < MaxCalls
    /\ calls' = calls + 1
    /\ UNCHANGED <<mpc, filled, bootstrap, toModule, toFuzzer, fpc, seen>>

(***************************************************************************)
(* The fuzzer (the test client, not under src/).                           *)
(***************************************************************************)

\* accept() returns the channel ends; the fuzzer sends its first event.
FuzzerAccept ==
    /\ fpc = "listening"
    /\ bootstrap
    /\ \E m \in FirstMsgs : toModule' = Append(toModule, m)
    /\ fpc' = "awaitShm"
    /\ UNCHANGED <<mpc, filled, bootstrap, toFuzzer, seen, calls>>

\* SharedMem: the fuzzer maps the memory and reads it.
FuzzerRecvShm ==
    /\ fpc = "awaitShm"
    /\ toFuzzer # <<>>
    /\ toFuzzer' = Tail(toFuzzer)
    /\ fpc' = "gotShm"
    /\ seen' = filled
    /\ UNCHANGED <<mpc, filled, bootstrap, toModule, calls>>

\* recv fails once the simulator process has aborted.
FuzzerPeerGone ==
    /\ fpc = "awaitShm"
    /\ toFuzzer = <<>>
    /\ mpc = "aborted"
    /\ fpc' = "gone"
    /\ UNCHANGED <<mpc, filled, bootstrap, toModule, toFuzzer, seen, calls>>

\* The fuzzer process dies, closing its server and channel ends.
FuzzerCrash ==
    /\ fpc \notin {"gotShm", "gone"}
    /\ fpc' = "gone"
    /\ UNCHANGED <<mpc, filled, bootstrap, toModule, toFuzzer, seen, calls>>

Module == InitLocal \/ RecvInit \/ RecvGone \/ FillStep \/ SendShm \/ InitLocalAgain

Fuzzer == FuzzerAccept \/ FuzzerRecvShm \/ FuzzerPeerGone \/ FuzzerCrash

Next == Module \/ Fuzzer

\* The simulator loads the module and calls init_local, and the module's
\* code runs whenever it can; a fuzzer that is alive answers.  Its crash is
\* a possibility, never an obligation.
Fairness ==
    /\ WF_vars(InitLocal) /\ WF_vars(RecvInit) /\ WF_vars(RecvGone)
    /\ WF_vars(FillStep) /\ WF_vars(SendShm)
    /\ WF_vars(FuzzerAccept) /\ WF_vars(FuzzerRecvShm) /\ WF_vars(FuzzerPeerGone)

Spec == Init /\ [][Next]_vars /\ Fairness

(***************************************************************************)
(* Properties.                                                             *)
(***************************************************************************)

\* The bootstrap never leaves the simulator blocked in init_local: whatever
\* the fuzzer sends first, and whenever it dies, try_new either completes
\* or aborts the process.
BootstrapEnds == <>(mpc \in {"ready", "aborted"})

=============================================================================
