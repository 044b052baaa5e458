# A TLA+ model of the confuse fuzzing harness

This directory holds a TLA+ model of the Simics side of the confuse/tsffs
fuzzer. It has TLC configurations that check the model on small instances and
TLAPS proofs that hold for every value of the constants. Source paths below are
relative to the repository root.

## The system

Two processes talk over two `ipc-channel` channels, one per direction.

* **The harness** is the Simics module `confuse_module`
  (`src/modules/confuse-module/src/context.rs`). It runs inside the simulator.
  One `ModuleCtx` sits behind the `CTX` mutex (a `lazy_static`, lines 423–496).
  The first lock runs `try_new` (66–138):
  * it connects to the fuzzer's bootstrap socket and sends the fuzzer its
    channel ends;
  * it blocks until `Initialize(faults)` arrives;
  * it installs the triple-fault and exception haps the fault set needs;
  * it fills the shared coverage map and sends `SharedMem`.

  The simulator script sets the `processor` and `signal` attributes. Those
  setters reach `set_processor` (146) and `handle_signal`/`start` (155, 404).
  `start` queues `SIM_continue` with `SIM_run_alone`.
* **The stop classifier** is the set of hap callbacks (`callbacks.rs`, not
  under `src/`). The magic-instruction, exception and triple-fault haps record
  a stop reason (the first one wins) and stop the simulation. The
  simulation-stopped hap then runs `ModuleCtx::handle_stop` (168–397) while
  holding `CTX`:
  * **start magic, first time:** save the `origin` micro-checkpoint, look up
    the processor, read the buffer address and size from rsi and rdi, set
    `initialized`, send `Ready`, block for `Run(input)`, write the input and
    resume;
  * **start magic, later times:** resume;
  * **stop magic or crash:** send `Stopped(kind)`, check `sim.rexec`, block
    for `Reset` (restore checkpoint 0, discard the future) or `Stop`, send
    `Ready`, block for `Run`, write and resume;
  * **every path:** a `?` or `bail!` returns an `Err` before
    `stop_reason = None` (394).
* **The fuzzer** (`confuse_fuzz`, not under `src/`) drives the loop. It sends
  `Initialize`, answers every `Ready` with a `Run`, and answers every `Stopped`
  with `Reset` or, when its budget is spent, `Stop`.

## Modules

| module | what it is |
|---|---|
| `Harness.tla` | The coordinator, the classifier, the simulator, the guest and the fuzzer as one specification. |
| `MC_Harness.tla` | Gives TLC the model value `GP`, a general-protection fault, as the one exception kind. |
| `HarnessProofs.tla` | TLAPS proofs about `Harness`. |
| `InjectProofs.tla` | TLAPS proof that every input is written into a guest parked at its start magic (`InjectAtSnapshot`). |
| `Coverage.tla` | The shared coverage map: the fill in `try_new` (112–118), `log()` (409–416) and the `Reset` branch of `handle_stop`. The spec's reference encoder runs beside them. |
| `MC_Coverage.tla` | Program counters for TLC. |
| `Config.tla` | `src/modules/confuse_module/src/config/mod.rs`: the `InputConfig` fault builders, `TraceMode` to and from text, and the `OutputConfig` map list with `coverage()`. |
| `MC_Config.tla` | Two faults and two shared-memory handles as model values. |
| `ConfigProofs.tla` | TLAPS proofs about `Config`: type correctness, the trace-mode round trip, and the order of `coverage()`. |
| `InputWrite.tla` | The copy of a `Run` input into guest memory: the chunk loop of the `Run` branches of `handle_stop` (245–263, repeated at 313–325 and 372–384). |
| `MC_InputWrite.tla` | Instantiates `InputWrite` for TLC; the constants come from the cfg. |
| `InputWriteProofs.tla` | TLAPS proofs about `InputWrite`: type correctness, and that an input ending below the top of memory is written exactly. |
| `HarnessProtocol.tla` | The abstract message protocol the coordinator promises its fuzzer (spec §4.6, §5): one variable, the message log. `Harness` instantiates it with `log <- hist`. |
| `ProtocolProofs.tla` | TLAPS proof that the abstract protocol keeps its log well formed. |
| `HarnessRefinement.tla` | TLAPS proof that `Harness` implements `HarnessProtocol`, and hence that its log is well formed. |
| `IpcTest.tla` | `src/modules/ipc-test-module/src/lib.rs`: the test module's bootstrap (`try_new`, the `CTX` initialiser, `init_local`) against a fuzzer process that may die. |
| `MC_IpcTest.tla` | Instantiates `IpcTest` for TLC. |
| `IpcProofs.tla` | TLAPS proofs about `IpcTest`: type correctness, and that the fuzzer reads only a filled map. |

### State in `Harness.tla`

**Harness fields** (`ModuleCtx`):
* `stop_reason`, `initialized`, `buffer_size`;
* `processor`, a Boolean for `Option<Processor>`;
* `faults`, from `init_info.faults`;
* `haps`, the fault haps installed.

**Where the harness thread is, `hpc`.** Each value is one of the places where
the thread blocks:
* `boot`: before the first `CTX` lock;
* `awaitInit`: in the recv at line 80;
* `idle`: no callback runs;
* `awaitRun`: in the recvs at 241, 309 and 368;
* `awaitReset`: in the recvs at 289 and 348;
* `failed`: the process has aborted.

**Simulator and guest:**
* `sim`: stopped, running, or stopping with the stopped hap pending;
* `resume`: a `SIM_continue` is queued;
* `guest`: before the start magic, parked at it, or past it;
* `snapshot`: which guest position `origin` holds;
* counters `saves` and `restores`;
* `written`: the length of the last input written.

**Channels and the fuzzer:**
* `toHarness` and `toFuzzer`: FIFO sequences;
* `bootstrap`: the socket has been used;
* `fpc` and `runs`: the fuzzer's place and its run count;
* `hist`: every message the harness sent or received, in order.

### Actions

Each action is one stretch of code between two blocking points.
* `Connect` is `try_new` up to its first recv. Once the fuzzer is gone the
  connect fails and the `.expect` of the `CTX` initialiser aborts.
* `RecvInitialize` is the rest of `try_new`. `InitGone` is its recv failing
  on a fuzzer that hung up (line 80).
* `StartFirst` runs from the checkpoint save through the `Ready` send.
* `RecvRun` is the recv for the input, the write and the resume, with its
  final `stop_reason = None`.
* `ReportStop` is the `Stopped` send and the `state_info` check.
* `RecvResetOrStop` is the recv after `Stopped`, then the `Ready` send.

The stop and crash paths of `handle_stop` are duplicated in the code. The
wrappers `HandleMagicStop`/`HandleCrash`, `RecvResetAfterStop`/`…AfterCrash`
and `RecvRunAfterStart`/`…AfterStop`/`…AfterCrash` each stand for one copy, so
`PROJECT.json`'s map names each copy's lines.

Errors have one model. Every `?` or `bail!` reaching the end of `handle_stop`
moves the harness to `ErrorHpc`:
* with `ErrorsAbort` TRUE, to `failed`, the process aborted;
* with `ErrorsAbort` FALSE, back to `idle` with the stop reason left set. This
  matches spec §7's "callbacks log the error and return".

A send fails once the fuzzer is gone (`PeerOpen`), and a recv fails once the
fuzzer has hung up with nothing queued (`PeerGone`). The `state_info` check is
a nondeterministic choice.

The fault model is the fuzzer's. With `FuzzerCrashes` TRUE, `FuzzerCrash` ends
the fuzzer process at any point: its channel ends close, and what it already
sent stays readable. The channels themselves are reliable and ordered
(ipc-channel over a Unix socket), so messages are never lost, duplicated or
reordered.

The simulator and the guest are environment, not code of this repository:
* `SimContinue` runs a queued `SIM_continue` once no callback holds the
  thread.
* `UserBreak` is a stop from the command line.
* The guest takes `GuestStep`, `MagicStart`, `MagicStop` and `GuestFault`
  only while the simulation runs. A hap's break takes effect before the next
  instruction.

### Abstractions

* The input is its length. The 8-byte little-endian write loop is
  `InputWrite.tla`.
* The checkpoint is the guest position it holds.
* The coverage map and `log()` are in `Coverage.tla`, described below.

### `Coverage.tla`

Variables:
* `map`: the shared bytes as the code leaves them;
* `prev_loc`;
* `err`: some `log()` returned an `Err`;
* `ref` and `refPrev`: the spec §4.7 AFL encoder in HitCount mode, fed the
  same program counters;
* `hits`: the number of traced branches, capped at `MaxHits`;
* `last`: the last operation.

Actions:
* `Init` is the fill loop: byte `i` gets `i % u8::MAX`.
* `Log(pc)` is `log()`:
  * it computes `cur_loc = ((pc >> 4) ^ (pc << 8)) & (len - 1)` in
    `PcBits`-wide arithmetic (`Bitwise`'s `^^` and `&`);
  * it reads the byte at `cur_loc` and writes it at `cur_loc ^ prev_loc`;
  * past the end of the map, `read_byte` or `write_at` return an `Err`;
  * it does `prev_loc >>= 1`.
* `Reset` is the `FuzzerEvent::Reset` branch of `handle_stop`. The restore
  acts on the simulation only: it leaves the map and `prev_loc` alone. The
  reference zeroes its own `prev_loc`.

The code has `PcBits` = 64. TLC's integers stop at 2^31, so the runs use 20
bits. The hash keeps only the bits below the map length, and the wrap of
`pc << 8` never reaches them. The program counter `2^20 - 1` makes that wrap
happen.

### `Config.tla`

Variables:
* the config's `faults`, `trace_mode` and `maps`;
* `added` and `taken`: the maps pushed and the maps `coverage()` returned,
  in order;
* `result`: what the last fallible call returned.

`from_str` lowercases its argument. A string is therefore a record of the
word `to_lowercase` keeps and the letter case it drops. The timeout builders
(`with_timeout_seconds`, `…_milliseconds`, `…_microseconds`) are `WithTimeout`.
They store the `f64` as the exact fraction `num / den`, and the default `f64::MAX`
is the record `MaxTimeout`. `with_trace_mode` is `WithTraceMode`.

### `InputWrite.tla`

The state is made of seven variables:
* the input;
* `buffer_address` and `buffer_size`, read from rsi and rdi;
* guest memory, as a function from addresses to bytes;
* the `SIM_write_phys_memory` calls made, as records of address, 8-byte value and width;
* whether the loop has ended, and whether it ended in a panic.

`Write` is the whole loop followed by `resume_simulation()`. The pieces of the loop map to these definitions:
* `input.chunks(8)` is `Chunk`.
* The zero-padded `data` read by `u64::from_le_bytes` is `ChunkWord`. It keeps the value as its eight bytes, least significant first.
* The call at `buffer_address + i * 8` of width `chunk.len()` is `ChunkCall`.
* The simulator's store of the low `width` bytes of the value on the little-endian x86 target is `Covers`: the addresses a call writes.

`MemAfter` is memory after the calls, made in order: each byte holds what the last call covering it stored, or what it held before. It is written in this closed form, not as a fold over the calls, so that TLAPS can reason about it without induction. TLC checked it equal to the step-by-step fold on every state of `input_write` when the change was made. Memory starts as a canary byte that no input holds, so both a stray write and the padding show.

The address `buffer_address + (i * 8) as u64` is a u64 sum on a value the guest supplies. The model scales the address space down to `AddrBits` bits (5 in the run, 64 in the code) and computes the sum modulo `2^AddrBits`. In a release build the sum wraps. With overflow checks on, the loop panics at the first chunk whose address overflows (`CallsBeforePanic`), aborting the simulator inside the callback. No Cargo profile in the repository fixes the choice, so `Write` takes either outcome. `Init` takes any `rsi` and `rdi` in the cfg's sets, a buffer running past the top of memory included: `handle_stop` checks neither. `InputWrittenExactly` is about inputs that end below the top; what happens past it is the wrap or the panic.

### `IpcTest.tla`

The test module's bootstrap. Module variables:
* `mpc`: unloaded, blocked in the recv for `Initialize`, filling the map,
  ready, or aborted;
* `filled`: the bytes the fill loop has written;
* `bootstrap`: the channel ends were sent;
* `calls`: `init_local` calls, bounded by `MaxCalls`.

The fuzzer's side (not under `src/`) has `fpc` and `seen`, the number of
filled bytes when it read the map. The two channels are FIFO sequences.

Module actions:
* `InitLocal` is the first `init_local`. It locks `CTX`, whose initialiser
  runs `try_new` up to its recv; a failed connect aborts through `.expect`.
* `RecvInit` is that recv: `Initialize` goes on, anything else bails.
* `RecvGone` is the recv failing on a fuzzer that died.
* `FillStep` is one turn of the byte loop.
* `SendShm` is the `SharedMem` send, or the abort when it fails.
* `InitLocalAgain` is a later `init_local`.

The fuzzer accepts and sends a first message from `FirstMsgs`, reads
`SharedMem`, notices an aborted module, or crashes.

### `HarnessProtocol.tla` and the refinement

`HarnessProtocol` states what the coordinator promises, as a log of message
types. `Handshake` is (Initialize, SharedMem). `Announce` is the first
`Ready`, `Accept` a `Run` after `Ready`, and `Report` a `Stopped` after `Run`.
`Conclude(t)` logs a `Reset` or `Stop` after which the harness ends.
`ConcludeAndAnnounce(t)` logs it together with the next `Ready`; the code
sends that `Ready` in the same handler, after `Stop` too. An abort is a log
that stops growing. `WellFormed` says that consecutive messages are pairs of
`Steps`.

`Harness` instantiates it as `Protocol` with `log <- hist`.
`ImplementsProtocol == Protocol!Spec` is checked by TLC and proved by TLAPS.

## Runs

The `Harness` runs use one exception kind `GP` plus `Triple`, input lengths `{0, 9}`
(an empty input and one of more than one chunk), one buffer size, 16, and a
budget of 2 runs. Two runs are enough to reach every path: the first start,
a stop or crash, a reset, a second input, and the final `Stop`, with user
breaks and faults interleaved at every point.

| run | expect | checks | what it shows |
|---|---|---|---|
| `harness_protocol` | pass | `TypeOK`, `SnapshotTakenOnce`, `ProtocolOrder`, `InjectAtSnapshot`, `ImplementsProtocol` | Under the abort-on-error policy, with a guest that faults only after its start magic, user breaks and a fuzzer that may die anywhere, four things hold. The checkpoint is saved at most once. The messages follow Initialize, SharedMem, (Ready, Run, Stopped, Reset\|Stop)*. Every input goes into a guest parked at the checkpoint. Every step is a step of `HarnessProtocol` or leaves the log alone. |
| `faults_anywhere` | pass | `SnapshotTakenOnce`, `InjectAtSnapshot`, `VerdictDelivered`, `ReadyDelivered`, `PeerGoneDetected` | Faults may come before the start magic and the fuzzer may die anywhere, under `FairSpec` with no user breaks. The snapshot and injection rules still hold. A fuzzer waiting for the verdict of a `Run` gets it or sees the harness end. A fuzzer waiting for `SharedMem` or `Ready` gets it or sees the harness end, also when the `state_info` check fails after `Stopped` was sent (context.rs:282) and the harness will never send the `Ready` the fuzzer waits for. A fuzzer that died is always noticed, because every blocking recv fails on the hang-up and the process aborts. |
| `clean_shutdown` | violation | `NoSendAfterStop` | After `Stop` the code sends `Ready` and waits for `Run` (context.rs 296–309). Spec S5 says nothing more is sent. |
| `fault_before_start` | violation | `ProtocolOrder` | The fault haps are installed in `try_new`, so a boot-time fault sends `Stopped(Crash)` before any `Ready`. |
| `recover_errors` | violation | `SnapshotTakenOnce` | If errors are logged and survived, a missing processor after the save (188) leads to a second `origin` save at the next start magic. |
| `input_overflow` | violation | `InputFitsBuffer` | An input of 24 bytes into a 16-byte buffer is written whole. The code never compares the input with `buffer_size`. |
| `coverage_code` | pass | `TypeOK`, `WritesInBounds` | On an 8-byte map, four program counters and 4 traced branches with resets between them: `log()` never indexes outside the map, although `pc << 8` wraps. |
| `coverage_reference` | violation | `CoverageMatchesReference` | After one branch the code's map already differs from the AFL encoder's. `log()` copies `map[cur]` onto `map[cur ^ prev]` instead of counting, and `prev_loc` never leaves 0, so the map never changes. |
| `shm_fill` | violation | `FillPattern` | A 256-byte map is filled with `i % 255`: byte 255 is 0, where spec §4.1 says 255. |
| `input_write` | pass | `TypeOK`, `InputWrittenExactly` | Every input of 0 to 9 bytes over two byte values was checked, in a 32-byte address space. The buffers are at 0, at an unaligned 3, and near the top (21 and 28), with 4 and 9 bytes. That covers an empty input, a short chunk, a full chunk and a chunk more. Some buffers run past the top. An input that ends below the top lands exactly, also when it ends flush with the top of memory; it neither wraps nor panics. An empty input makes no call, and the last call is `len % 8` bytes wide. Longer inputs do wrap or panic, which the property does not forbid (`input_overflow` is that finding). |
| `ipc_bootstrap` | pass | `TypeOK`, `BootstrapEnds` | A 64-byte map, a first message of Initialize, Run or Reset, and a fuzzer that may die at any point. The fill loop never passes the map. Under fairness of the module's code and of a live fuzzer, `init_local` never leaves the simulator blocked. |
| `config_maps` | pass | `TraceModeRoundTrip`, `CoverageInOrder` | The builders, `from_str` and `coverage()` are interleaved, with up to three maps pushed over two handles. The trace mode survives `to_string`/`from_str`, and `coverage()` hands out every map once, in push order, failing only when none is left. |

Spec §8 invariant 5 (`prev_loc` is 0 after a `Reset`) is not checked: it
holds in the code only because `log()` never makes `prev_loc` nonzero, and
the `Reset` branch plays no part in it. A fix of `log()` that sets
`prev_loc` the way the spec asks would also need a reset of `prev_loc` in
the `Reset` branch of `handle_stop`.

A mutant of the code breaks each property of the passing runs (`PROJECT.json`,
`mutants`):
* a start magic that ignores `initialized`;
* a re-entry that sends `Ready` again;
* a `Reset` that skips the restore;
* a fuzzer budget compared with `<=`;
* `prev_loc` shifted left instead of right;
* the `len - 1` mask dropped;
* `from_str` without its `"hit_count"` arm;
* `coverage()` taking the last map;
* the chunk address computed one bit narrower;
* the chunk loop running one chunk too many;
* a non-`Initialize` first message skipped instead of bailing;
* the fill loop bound `0..=len`;
* `SharedMem` logged before `Initialize` (breaks `ImplementsProtocol`);
* the input written without `resume_simulation()` (breaks `VerdictDelivered`);
* a hang-up noticed only by the recv for the input (breaks `PeerGoneDetected`);
* a fuzzer that notices a dead harness only while waiting for a verdict
  (breaks `ReadyDelivered`).

Deadlock is checked on the passing runs. The only terminal state is
`Terminated`: the harness has aborted and the fuzzer has exited. This is an
explicit stuttering step, because with the abort policy the system does stop
there.

## Fairness and liveness

`Harness!Fairness` is justified by the code's scheduling, action by action:
* **Weak fairness on the harness's code.** Every handler runs once it can:
  `Connect`, `RecvInitialize`, `InitGone`, the `handle_stop` branches, the
  recvs and `PeerGone`. A hap is delivered once the simulation stops, and a
  recv returns once a message is queued or the peer is gone.
* **`SimContinue`.** `SIM_run_alone` runs the queued `SIM_continue`.
* **The start signal.** The campaign script sends it once, so it is owed
  only while `initialized` is unset: `WF_vars(~initialized /\ SignalStart)`.
  The script need not set `processor`.
* **The guest.** It honours its contract, so its start magic and the end of
  every run (stop magic or configured fault) get strong fairness. Other haps
  may keep interrupting it. A guest that never stops is the case spec §9
  leaves to the fuzzer's watchdog, which is not modelled.
* **The fuzzer.** A live fuzzer answers every message (weak fairness).
  `FuzzerCrash` and `UserBreak` are never obligations, and `faults_anywhere`
  sets `UserBreaks` FALSE: a user break leaves the simulation stopped until
  the user continues it.

`faults_anywhere` checks `VerdictDelivered`, `ReadyDelivered` and
`PeerGoneDetected` under this fairness. Together they cover the hazard at context.rs:241: `handle_stop`
blocks in `recv` with `CTX` held and no timeout. A fuzzer that answers or
dies releases it. A fuzzer that stays alive and never sends would hold it
for ever; the code has no defence, and spec §9 puts the watchdog on the
fuzzer side.

`IpcTest!Fairness` is weak fairness on every module action except the
optional `InitLocalAgain`, and on the fuzzer's answers. Its crash is never
an obligation.

Deadlock is checked on `faults_anywhere`, because `Terminated` is its only
terminal state.

## Proofs (`HarnessProofs.tla`)

* `TypeCorrect`: `Spec => []TypeOK` for every value of the constants.
  * `TypeOK` alone is not inductive. The fuzzer's `runs + 1` needs
    `RunsBound`, which says the fuzzer waits for `Ready` only while its budget
    lasts.
  * `TypeInv == TypeOK /\ RunsBound` is proved inductive (`TypeInit`,
    `TypeStep`), with one step per action.
  * Zenon proves the Boolean fields (`BoolStep`) and the branches of the
    nested IFs. SMT proves the sequence facts, using `AppendProperties`,
    `HeadTailProperties` and `ConcatProperties` of `SequenceTheorems`.
* `SnapshotOnce`: `ErrorsAbort => (Spec => []SnapshotTakenOnce)`.
  * The inductive invariant is `TypeInv /\ SnapshotTakenOnce`.
  * `SnapFrame` shows that every step other than `StartFirst` leaves `saves`
    and `initialized` alone and never revives a failed harness.
  * `StartFirst` finds `saves = 0`, because `initialized` is unset while the
    harness is alive. It then sets `initialized` or, with no processor, aborts.
  * The hypothesis `ErrorsAbort` is necessary: `recover_errors` is the
    counterexample without it.

### Refinement (`ProtocolProofs.tla`, `HarnessRefinement.tla`)

* The lemma `WellFormedHolds`: `HarnessProtocol!Spec => []WellFormed`. It is
  about the abstract protocol alone; its use is as the last step of
  `ProtocolOrderHolds`.
  * The inductive invariant is `TypeOK /\ WellFormed`.
  * `AppendFollows` shows that appending a message allowed after the last
    one keeps a well-formed sequence well formed. `ConcludeAndAnnounce` is
    two such appends.
* `Refinement`: `ErrorsAbort /\ ~FaultsBeforeStart => (Spec => ImplementsProtocol)`.
  * The inductive invariant is `TypeInv /\ ProtoInv`.
  * `LogInv` ties `hpc` to the last message of `hist`: `Ready` while
    awaiting `Run`, `Stopped` while awaiting `Reset`, and `Run` or `SharedMem`
    while idle (after or before the first start).
  * `GuestInv` says that before `initialized` the pending stop reason is
    None or Start. Without it, a stop or crash could be reported with the log
    ending in `SharedMem`. It needs `~FaultsBeforeStart`
    (`fault_before_start` is the counterexample).
  * `ErrorsAbort` is needed because a survived Err leaves `hpc = idle` with
    the log ending in `Ready` or `Stopped`.
  * One lemma per group of actions shows that `ProtoInv` is preserved and
    that the step is a `HarnessProtocol` step or leaves `hist` alone.
    `Handshake`, `Announce`, `Accept`, `Report`, `Conclude` and
    `ConcludeAndAnnounce` are the witnesses.
* `ProtocolOrderHolds`: `Spec => []ProtocolOrder` under the same
  assumptions. It follows from `Refinement` and the instantiated
  `WellFormedHolds`, by PTL.

The assumptions used are those of `Harness.tla`:
* `Triple` is not among the exceptions;
* input lengths and buffer sizes are non-empty sets of naturals;
* the run budget is positive;
* the flags are Boolean.

### Inputs at the snapshot (`InjectProofs.tla`)

* `InjectAtSnapshotHolds`: `ErrorsAbort => (Spec => InjectAtSnapshot)`.
  `InjectAtSnapshot` is an action property: a step that logs a `Run` starts
  with the guest at its start magic.
  * The theorem does not assume `~FaultsBeforeStart`, user breaks or fuzzer
    crashes. It covers the `faults_anywhere` and `harness_protocol`
    configurations at once.
  * `ErrorsAbort` is needed. With survived Errs, TLC finds a `Run` written
    into a guest in its body, using the `recover_errors` constants.
  * The harness alone does not guarantee the property. After `Stop` it sends
    `Ready` while the guest is past its start. Only the fuzzer's turn-taking
    keeps a `Run` from following: it is then in `stopped` or `done`.
  * So the inductive invariant `InjInv` describes the conversation as well as
    the guest. `InjInv == TypeInv /\ ParkInv /\ TurnInv`.
  * `ParkInv`: the guest runs only while the harness is idle with no stop
    pending. A pending `Start` stop leaves the guest at its start. Once
    `initialized` is set, the checkpoint is the start position.
  * `TurnInv`: at most one message is on its way to the harness, and then
    none to the fuzzer. Only `SharedMem` can have another message behind it.
    Each message in flight fixes where both processes are. For example, a
    queued `Run` means the harness awaits it with the guest at its start; a
    pending `Ready` means the harness is initialized and will await a `Run`.
  * TLC checked `InjInv` as an invariant of the `faults_anywhere` and
    `harness_protocol` configurations before the proof.
  * One lemma per group of actions shows that `InjInv` is preserved.
    `RunAtStart` shows that only `RecvRun` logs a `Run` (`LogGrowth`,
    `HistFrame`), and that it finds the guest parked (`RunQueued`).

### Configuration (`ConfigProofs.tla`)

* `TraceModeRoundTripHolds` and `CoverageInOrderHolds` hold for every fault
  set, duration set and map bound. The lemma `TypeCorrect` (`[]TypeOK`) is
  their base; `TypeOK` only restates Rust's types, so no run checks it.
* The inductive invariant is `TypeOK /\ CoverageInOrder`.
  * `CoverageInOrder` (`taken \o maps = added`) is inductive once the lists
    are typed. `with_map` and `with_maps` append to `maps` and `added`
    (`ConcatAssociative`).
  * `coverage()` moves `maps[1]` to the end of `taken`. `SelectFirst` shows
    that `SelectInSeq` picks index 1, since every map is a coverage map.
    `RemoveAtFirst` shows that `RemoveAt(maps, 1)` is `Tail(maps)`.
    `HeadThenTail` shows `maps = <<maps[1]>> \o Tail(maps)`.
* `RoundTripOfModes` shows that `from_str(to_string(m)) = m` for both modes.
  `FromStrModes` shows that `from_str` stores only a mode, never its `Err`.

### Bootstrap (`IpcProofs.tla`)

* `TypeCorrect` holds for every map length, first-message set and call
  bound: `init_local` runs at most `MaxCalls` times and the fill loop never
  writes past the map. `TypeOK` is inductive as it stands (`TypeStep`).

### Input write (`InputWriteProofs.tla`)

* `TypeCorrect` and `InputWrittenExactlyHolds` hold for every address width,
  byte set, input length bound, base and buffer size, under the assumptions of
  `InputWrite`. One of them, `AddrSpaceAssumption` (`2^AddrBits` is a positive
  natural), is a fact of arithmetic the provers do not know; TLC evaluates it.
* The inductive invariant `IWInv` adds one conjunct to `TypeOK /\
  InputWrittenExactly`: memory is all canary until the loop runs. Without it
  the step that ends the loop could start from any memory.
* The argument for the step (`WriteStep`):
  * `NoOverflow`: an input that ends below the top never overflows an
    address. So the panicking build makes the same calls as the wrapping one
    (`PanicFacts`).
  * `CallAt`: chunk `k` is a call at `base + 8k` of width `Width(in, k)` whose
    byte `j` is input byte `8k + j + 1`.
  * `Covering`: an address in the buffer is covered by exactly one call,
    `(a - base) \div 8 + 1`, and an address outside it by none.
  * `MemWritten`: from `Covering`, the closed-form `MemAfter` puts input byte
    `a - base + 1` at `a` and leaves the canary elsewhere.
  * `EdgeCalls`: the clauses on an empty input and on the last partial chunk.
* The panicking build stops at the first overflowing chunk. `PanicFacts`
  types its calls. `LastExists` gives the last call covering an address. Both
  take a least element from `WellFoundedInduction`'s `WFMin`, applied to `<` on
  `Nat`, with no induction over data.

### Only model-checked

* Liveness (`VerdictDelivered`, `ReadyDelivered`, `PeerGoneDetected`,
  `BootstrapEnds`). TLAPS
  does not reason about fairness and ENABLED here.
* `Coverage` (`TypeOK`, `WritesInBounds`). The
  module computes the edge index with `Bitwise`'s XOR, which a module with
  proofs cannot reach.
* The violation runs. They are counterexamples, not theorems.

## Not modelled

* The `discard_future` wrapper of `simics-api` (`core.rs`) is a stateless
  FFI wrapper that `context.rs` does not call; the FFI call it wraps is part
  of `RecvResetOrStop`.
* `src/simics/src/project/mod.rs` (project directories, file copies,
  subprocesses) is file-system work with no concurrency.
* The FFI registration in the `CTX` initialiser is not modelled.
* Logging is not modelled.
* A fuzzer that stays alive and never sends is not modelled. It needs the
  fuzzer's watchdog, which is outside this repository.

## Plan

1. Done: `Coverage`, `InputWrite`, `Config`, `IpcTest`.
2. Done: `HarnessProtocol`, the refinement, and its proof.
3. Done: fairness and liveness, with a fuzzer that may die.
4. Done: an inductive invariant and a proof for `InjectAtSnapshot`, and
   proofs for `Config`, `IpcTest` and `InputWrite`.
5. The fuzzer's watchdog (a `Timeout` stop reason), if its code joins the
   repository.
