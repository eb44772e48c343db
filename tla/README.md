# Pipoco in TLA+

TLA+ models of the Pipoco ECU, the TLC runs that check them on small instances, and TLAPS proofs of
the properties that matter most for every size. The repository's own small models
(`crates/spec/tla`) describe intended behaviour; the modules here are translated from the Rust code,
and `PROJECT.json` names, for every definition, the lines it stands for.

1. [The system](#1-the-system)
2. [Modules and the code they model](#2-modules-and-the-code-they-model)
3. [Runs](#3-runs)
4. [Bounds and fairness](#4-bounds-and-fairness)
5. [Proofs](#5-proofs)
6. [What is only model-checked, and what is left out](#6-what-is-only-model-checked-and-what-is-left-out)

## 1. The system

One control path runs through the workspace:

```
 edges ──> trigger decoder ──> authority ──> BoardAdapter ──> EngineRuntime.step ──> ActionBatch
           (crates/trigger)   (crates/domain)  (boards/common)  (crates/runtime)          │
                                                     ▲                │ cut arbiter       │
                                        sensors, TS, CAN              │ planner           ▼
                                                                      └ own table   lowering, executor,
                                                                                    queue, drain, pins
```

Beside it stand persistence (three key-value stores), the TunerStudio server and its pages, the
CAN/OBD-II transport with its diagnostics, the sensor pipeline, and a simulator.

### Inventory

| Component | State | Operations | What makes it hard | What must hold |
|---|---|---|---|---|
| Trigger decoder (`crates/trigger`) | last edge, reference interval, tooth, lock, phase, loss counter; startup revolutions in the profiled wrapper | primary edge, cam edge or level, reset | lost, doubled and spurious edges; a 32-bit clock that wraps; two objects that count the same lock | authority never exceeds what was seen; a wrong lock does not survive |
| Cut arbiter (`crates/runtime/src/semantic`, reference in `crates/spec`) | latches and counters of safety, hard and soft limiter, launch, flat shift, DFCO, knock | one evaluation per step | early returns skip the latches of the rows below; two implementations | both agree; a limit is never passed uncut |
| Runtime (`crates/runtime`) | engine state, authority, requests, strategy, own window table | step (three forms), observe, set requests, configure | authority lost and found between steps; a batch with a fixed capacity that drops silently | nothing is armed without authority; the batch ends with the snapshot |
| Planner (`crates/scheduler/src/planner.rs`) | none | angle to time window | rounding to zero, saturation at the end of the clock | windows are not empty and in the future |
| Output scheduler (`crates/scheduler`, `boards/common/src/outputs`) | window table, frontier, transition queue, pins | execute, execute_batch, commit horizon, heartbeat, expire, drain, cancel, shutdown | three structures that must agree; drains split by a small buffer; horizons repeated, late or reordered; pins that fail | no window leaks, no two pulses overlap, nothing fires outside a live horizon |
| Board adapter (`boards/common/src/adapter.rs`) | pending inputs, ports | apply_event, tick | the runtime and the executor keep one window table each, linked only by batches; any port may fail in mid-batch | the tables never contradict each other; losing authority empties the board |
| A/B flash store (`boards/rp2040-pico/src/flash_kv.rs`) | two slots, sequence numbers, CRCs | read, write, save snapshot, boot | power loss at any instant of an erase or a program | a write is atomic; the boot diagnostic is no false alarm |
| STM32F4 sector store (`boards/stm32f4/src/store_support.rs`) | two sectors, headers, pages, side records, the last fault | load, save, rewrite, boot | flash errors and power loss at any of six steps; two copies of "newest" | a write is atomic; integrity and fault are reported truthfully |
| Identity provisioning (`boards/stm32f4/src/identity_provisioning.rs`) | armed command, key, nonce; four records on flash | arm, command, key command, boot | two writes per command, each of which may fail with or without effect | nonces and arms are used once; an answer is never ahead of the flash |
| TunerStudio server and pages (`crates/ts`, `crates/calibration`) | page bodies, written-page reports, three copies of the expert trigger, persisted records | write page, import package, burn, commit, reset, boot; reads | burn writes several keys, any of which may fail; store and session check a trigger against different copies; a request split over reads | boot finds what was burned; the runtime has the tune of the pages; a failed burn changes nothing |
| CAN/OBD-II transport (`crates/transport`, `boards/common/src/transport_service.rs`) | reassembly slots, module roster with ages, event log, reader | send, receive frame, observe heartbeat, sweep, read changes | lost and interleaved frames, transfer ids that wrap, silent modules, a log that overflows | what is handed up was sent; a silent module is never trusted; a reader can catch up |
| Diagnostics (`boards/common` adapter and transport service) | conditions, range latches, event log, stored codes, freeze frames, retained copy | capture, tick, observe, answer, clear, persist, boot | clearing races with detection; a failing port ends the tick early; power loss | a present fault is stored with its first freeze frame and none is lost |
| Sensors (`boards/common/src/sensor_sample.rs`, `sensors/`) | filters, phases, validity | sample, poll | stale samples | a value that is used is recent |
| Compatibility core (`crates/compat`) | voltage, load, plausibility and sync monitors, rev limiter, torque requests, knock, trims, a trigger decoder, a capture ring | one poll each, at its own times | time stamps that wrap, zero as "not started"; requests that outlive their reason | a protection starts and ends only after its condition has held; a correction is earned |
| Telemetry (`crates/runtime/src/observations.rs`, adapter) | none of its own | derived from the snapshot and the last step | two derivations with rules of their own; a step that never evaluated a limiter | every cut is explained; what is reported happened |
| Simulator handles (`sim/ffi`) | slots with generations, tokens, a gate per handle | create, call, destroy | several threads; tokens kept after their handle is gone | a call never runs in a destroyed handle; a destroy returns |
| Control strategies, simulator, profiles | integrators, plant | see `PROJECT.json` | arithmetic | bounds |

Every component, modelled or not, is listed in `PROJECT.json` with the reason; every hazard is listed
there at the line where it bites.

## 2. Modules and the code they model

```
SchedulerState ── TransitionQueue ── OutputScheduler ── DrainLoop ── MCOutputs ─┬─ MCLoop
      │                                  │      └── OutputSchedulerProofs        │    ├── TsLink
      │                                  │                                       │    └── SimHandles ── SimHandlesProofs
      │                                  │                                       └─ MCTiming ── CompatSignals
      └── Planner ── CutArbiter ── CutOracle ── Runtime ── Ecu (INSTANCE OutputScheduler) ── Observability ── MCEcu
                                                             └── EcuProofs
MissingTooth ── TriggerWheel ───────┬─ MCWheel   KvRegister <── AbFlashKv ─┬─ MCFlash
     └── MissingToothProofs         │                ▲             │       └─ MCStores
CompatSafety, CompatTrims ──────────┘    (refinement)│             └── AbFlashKvProofs
                                                     └──── SectorStore ── MCStores
TuneSession ──────────────────┬── MCTune         IdentityRecords ── IdentityProvisioning ── MCStores
     └── TuneSessionProofs    │
TsPages ── BoardState ────────┘
CanFraming, CanRoster ── CanBus ─────────────────┐
Obd2History ── Obd2Service ── DiagAdapter ───────┴── MCNetwork
```

**SchedulerState** (`crates/scheduler/src/state.rs`) holds the ownership table (mode, groups, reserved
bits, windows) and the frontier (live horizon, deadline, permit mask, stop reason) as operators on two
records. The code's 16 optional slots are a set of windows: which slot a window is in cannot be
observed, since two windows of one output never share their end.

**TransitionQueue** (`queue.rs`) is the queue as a function from slots to transitions, with the
wrapping comparisons `is_due` and `is_before`; slots matter here, since the drain order of equal
deadlines depends on them. `DrainSet` says in one definition which slots a drain empties.

**OutputScheduler** (`boards/common/src/outputs`) is the state machine: `now`, the adapter `sch`
(table, frontier, queue) and `pins`. `Execute` and `ExecuteBatch` are the two executors (the second
works on a copy that an error discards), `DrainAndApplyDue` and `DrainAndApplyPlain` the two pin banks,
the other actions the frontier's and the shutdown calls. **DrainLoop** is the drain as the code's
loop does it, slot by slot, checked against `DrainSet`.

**MissingTooth** (`crates/trigger`) has one operator per outcome of an edge, `Classify` to choose one,
and the profiled wrapper's startup count. `hist` is a history variable: the age of the last accepted
cam signal and the gaps since the lock, which the properties relate to what the decoder claims.
**TriggerWheel** puts a physical wheel in front of the decoder: teeth at varying speed, lost edges,
spurious edges. With `mounted` false there is no wheel, and the decoder gets any call at any of a few
intervals.

**CutArbiter** (`crates/runtime/src/semantic/fuel.rs`) is the row-by-row arbiter with its early
returns. **CutOracle** is the safety and hard-limit latches of the reference
(`crates/spec/src/safety.rs`, `rev_limit.rs`), which `step` of `spec_oracle.rs` updates on every step.
A direct cut request is an input of both, and they treat it differently: the runtime serves it before
any row, the reference latches it.

**Planner** turns a crank snapshot into windows; angles are in fractions of a revolution, times in
microseconds, both scaled down by constants.

**Runtime** (`crates/runtime/src/engine*`) has one action per public call. A step installs its inputs,
asks the strategy for the cuts (`ComputeFuelIntent`), and emits the batch (`EmitActions`), which also
updates the runtime's *own* window table. Pulse width and advance are inputs of the step. `orc` is the
reference arbiter stepped with the same inputs; it rests while the strategy has no arbiter or the
evaluation fails, which it does only for a calibration the reference does not accept.

**Ecu** composes: the adapter's events write the pending inputs; `Tick` takes a runtime step with them,
executes its batch against the board's scheduler up to the first failing port, and drains. A *host*
caller makes the runtime's other calls, as the simulator and the differential tests do.

**KvRegister** is the abstract store: an operation takes effect at one instant or not at all, also when
power fails. **AbFlashKv** is the RP2040 store: staging, erase, three page programs, return, and power
loss at any of these with any combination of units kept, erased or torn. `Register` is the refinement
mapping.

**SectorStore** (`boards/stm32f4/src/store_support.rs`) is the STM32F4 store: `rewrite` walks through
preflight, erase, header, pages, records and commit mark; `FlashError` ends it with the phase recorded,
`SectorPowerLoss` with whatever the flash holds. `Contract` is the refinement mapping to `KvRegister`,
with the side records as further fields and the key with its audit as a pair written at one instant.
**IdentityRecords** has the byte formats of the records, flag bytes as numbers, and the normalisation
of names. **IdentityProvisioning** is the protocol on top: `job` is a handler that waits for a store
write, which ends in one of three ways (done, failed without effect, failed after taking effect); the
store is the register that SectorStore implements. Who may sign is external: a tag is the tuple it signs.

**CanFraming** cuts messages into frames and reassembles them in a few slots. A message has the bytes
of its encoding, frames and slots hold bytes, and the checksum is the code's CRC of them; a history
field says which message the bytes came from. **CanRoster** keeps the remote modules and the log of
their changes, **CanBus** puts modules, a bus that loses and interleaves
frames, the ECU and a reader around them.

**Obd2History** is the diagnostic log, the stored codes with their freeze frames and the retained
snapshot; **Obd2Service** the answers; **DiagAdapter** the main loop in order: serve one request,
capture, tick (which a failing port ends early), persist if changed, with power lost between any two
steps.

**TuneSession** (`crates/ts`, `crates/calibration`, `crates/compat/src/ts/session.rs`) is a tuning
session over a key-value store: `ram` is what a power loss takes (page bodies, the store's trigger, the
session's active and staged trigger with its diff class, the pages written and not yet reported, the
runtime's copy of the tune), `kv` the persisted records. The server's commands are one action per
outcome (`WriteTriggerSplit` is the page the store takes and the session refuses); a burn takes one
step per record, so that a failure or a power loss may come between two. `PowerLoss` includes the boot
that follows (`BootRam`). `burn`, `apart` and `torn` are history variables: the last burn with the
records it found and its answer, whether a named call set the copies of the trigger apart, and whether
a refused AFR table was left half written. A page body is an
abstract value; whether it passes its codec is a flag of what the tool sends.

**TsPages** (`crates/ts/src/pages`, `server.rs`) is the calibration pages on the wire: the fields a page
shows and writes, the ranges its codec accepts, and how a WritePage payload becomes a write of a whole
page or of a part. **BoardState** adds the RP2040 board's sensor diagnostics, its emergency mode and the
read-only pages. **TsLink** (`serial.rs`, `proto.rs`, the pump) is the serial link byte by byte, with bytes
lost and added; it is the one module with RECURSIVE operators, and no proof uses it.

**CompatSafety**, **CompatTrims** and **CompatSignals** are the compatibility core: the safety monitors
with the rev limiter and the torque arbiter; knock, deceleration cut, enrichments, closed loop and
long-term trim; the trigger decoder, the rate validation and the triggered capture.

**Observability** has no state: it derives, from a state of Ecu, what the runtime's observations and the
board's telemetry say of it.

**SimHandles** (`sim/ffi/src/state/handle_registry.rs`) is the handle registry, one action per critical
section: the registry's lock, the gate of a handle, the lock of its simulation.

## 3. Runs

| Run | Question | Result |
|---|---|---|
| `outputs` | Do table, queue, frontier and pins agree through arming, refusing, cancelling, late and split drains and horizons in any order? Can anything move outside a live horizon, or a withdrawn permit return by itself? Are the signals that come in told as they were? | holds |
| `outputs_live` | Is every window released in the end, every request of the tuning tool answered, every destroyed handle given up? Is a handle safe from late calls? | holds, the first three under fairness |
| `outputs_safe_state` | Does `force_safe_state` leave outputs low? | violated: it empties the queue, the Low of a running pulse included |
| `trigger` | Does the decoder ever claim a lock, phase or startup it does not hold? Does it find the true tooth again after any disturbance? Do the monitors and corrections of the compatibility core act only on what has held for its time? | holds; within 8 clean teeth |
| `wheel_angle` | Does the angle reported with an edge follow the tooth? | violated: it is the tooth-1 angle at every tooth |
| `stores` | Are the A/B store and the sector store atomic registers under power loss and flash errors, are their diagnostics honest, and does provisioning never answer ahead of the flash? | holds |
| `network` | Is what the CAN transport hands up what was sent, is the roster true to what was heard, does no module stay locked out? Is every fault stored, kept and reported? | holds |
| `flash_history` | Does the retained history survive a power loss? | violated: it shares the last page and has no CRC |
| `ecu` | Do cuts, limits and authority hold through the whole path, do the runtime's and the board's tables stay consistent, and is the telemetry true? | holds |
| `tune` | Does the runtime have the tune of the pages, do the copies of the trigger agree, does boot find what was burned, is a certified profile safe from page writes? Does every page read back, does a write reach only what it addresses, do the fault pages agree? | holds |
| `tune_burn` | Does a failed burn leave the records alone? | violated: on the RP2040 flash store every burn fails at its fourth key, after three were replaced |
| `ecu_starves` | Does an enabled step arm something when all its earlier windows are over? | violated: nothing drains the runtime's own table |

The five violations are quoted against the lines they disagree with in `PROJECT.json` under
`findings`. Each property of a passing run has a mutant, an operator just before the definition it
replaces, that changes the code's behaviour as a plausible bug would; TLC finds the property violated
with it.

What the properties of the passing runs say, with the conjuncts of those that have several:

**`outputs`, `outputs_live`**

- `TablesAgree` (`OwnershipMatchesQueue`, `SummariesMatchWindows`, `FrontierConsistent`,
  `ExclusiveOutputs`): the redundant representations of "what is scheduled" agree in every reachable
  state. A leaked window would refuse its output for good; a stray Low would let a second pulse overlap.
- `HighKeepsItsLow`: while pin writes succeed, only a step that throws the whole queue away can leave
  an output driven.
- `HorizonsGovern` (`FiringNeedsLiveHorizon`, `PermitNeedsNewHorizon`): late heartbeats, repeated and
  reordered commits do not revive a horizon. Permits are kept per group of outputs; the drain itself
  tests only whether the mask is empty.
- `LoopIsDrain`: the imperative drain implements its declarative form, across the clock's wrap.
- `SignalsAreFaithful`: the decoder of the compatibility core counts the true tooth after a revolution
  and two teeth; a reading is refused only when it moved faster than the rate, and taken only when it
  did not, with the exceptions the code makes; a capture is read in its order. The frame of the
  trigger is lost when as many frames as the ring holds follow it, which the default of 100 is for
  every smaller ring.
- `HandlesAreSafe`: once a destroy has returned, no call is inside the handle and none can enter;
  a token reaches only the simulation it was made for, also after its slot was used again.
- `WindowsReleased`, `LinkRecovers`, `DestroyReturns`: nothing is held and nobody waits for good.

**`trigger`**

- `DecoderAgrees`, `ClaimsAreBacked` (`AuthorityIsBacked`, `PhaseIsFresh`, `FullAuthorityIsEarned`):
  what the decoder publishes is backed by edges it saw; `RecoversTrueTooth` bounds how long a
  disturbance lasts.
- `TransitionsAreSustained`: a protection of the compatibility core starts and ends only after its
  condition has held for its time.
- `LimitsReachTheEngine`: an update of the torque arbiter commands no more than what is asked for, and
  the actuators take away at least the rest. Two things it has to allow for: limp mode overrides the
  rev limiter, although `crates/compat/src/torque/mod.rs:6` says that the minimum wins, and in cold air
  at full load the torque estimate overflows its i32, which cuts the engine though nobody asked.
- `CorrectionsAreEarned`: no correction without what it claims to rest on. What it has to allow for:
  the first recovery from knock after a start is reckoned from time zero, a stamp of zero reads as
  "never", and the derivative of throttle and pressure is cut to an i16, so that a fast fall looks like
  a rise. (The pressure is in tenths of kPa; the threshold it is compared with is named for kPa/s.)

**`stores`**

- `TunePagesAreAtomic`, `SectorsAreAtomic` (refinements): pages, and the sector store's side records,
  change together or not at all. `BootIsSound` (`FaultMeansLostWrite`, `NoSequenceTie`): see section 5.
- `SectorStateIsHonest`: the half-range comparison of the 16-bit sequence number never sees a pair it
  could misorder; what boot and OBD-II report of the store is no false alarm and not stale.
- `GrantsAreUsedOnce` (`NoncesAreUsedOnce`, `ArmsAreSpentOnce`, `GenerationsAscend`): over failed writes
  and power losses.
- `FlashMatchesAnswers`: RAM, flash and what the tool is told agree. An accepted command is on the
  flash with the identity or key it asked for, not merely with some audit. The one exception, a key
  command whose two writes both failed, is named in `KeySurvivesBoot`.

**`ecu`**

- `LatchesAgree`: the runtime's arbiter returns early and so skips rows that the reference evaluates.
  A direct request parts the safety latches: the reference latches it and the runtime, which serves it
  before its rows, does not (`fm0016_runtime_conformance.rs` has it so). Nothing else does: the runtime
  never holds a latch the reference released, lacks one only if such a request came since the
  reference's last release, and has the same hard limiter whenever the reference is not latched.
- `RevLimitsHold`: whichever row decides, the limits hold. `LatchNeedsStandstill`: a safety latch
  outlives everything but a standstill (or a replaced strategy).
- `StepsAreAuthorized`: what a step arms is authorized, not cut and in the future; the batch always has
  room for its last action.
- `BoardFollowsRuntime` (`BoardWithinRuntime`, `TickNeverRefused`, `UnauthorizedTickEmptiesBoard`): the
  board's table is a subset of the runtime's, whichever port failed; hence the executor never refuses
  what the runtime asks; and a tick without authority leaves nothing scheduled. Stated for the planned
  profiles: in the legacy profile a cut is not told to the board (a listed hazard).
- `TelemetryIsTruthful`: every cut has a reason among those reported, and what is reported happened.

**`network`**

- `ReassemblyIsSound` (`DeliveredIsIntact`, `SlotsAreStreams`): a message is handed up as it was sent,
  never joined from two. It need not be the one on the bus: an end frame completes an older stream of
  the same class and transfer id, or another module's, when the bytes it should have ended with are
  the same. TLC reaches both cases.
- `CleanStreamIsDelivered`: every undisturbed stream that found a slot is handed up.
- `NoModuleLockedOut`: while the slots suffice for the modules that fragment (`SlotsSuffice`), those that
  keep sending get their slots back. Two modules that fragment the same class in step can collide for
  ever; TLC finds that when the condition is dropped.
- `RosterIsSound` (`UnavailableIffStale`, `LatestAgreesWithRoster`, `DeltaReplays`): age and state agree,
  and the log replayed from a watermark gives the roster.
- `HistoryIsFaithful`, `NoDtcLost`: codes are stored when raised, with the frame of their first
  occurrence, and survive what they should.
- `AnswersAreTruthful`: answers agree with each other and with the capture. `BoardActionAgrees`: the
  board's copy of the fault policy equals the reference except for the safety cut of low severity,
  which it reports as less than a shutdown.

**`tune`**

- `CopiesAgree` (`TriggersAreValid`, `RuntimeHasTheTune`, `TriggersAgree`): a page that changed the fuel
  tune is either in the runtime or in a report that waits, but for the half-written AFR table; store
  and session have the same trigger unless one of the named calls set them apart; boot and import
  rejoin them.
- `BootFindsTheBurn`: boot finds the first records of the last burn and the older ones behind them.
  All of them after an answer of OK; the three pages, without the trigger, after the ERR that the
  RP2040's FlashKv always gives; nothing on RamKv512, which keeps nothing whatever it answers. The
  package overrides the trigger record, so between the last two records of a burn an older package
  wins.
- `CertifiedProfileGuarded`: the session's own check looks at the active copy only, and together with
  the store's check that is enough.
- `PagesReadBack`, `WritesAreContained`: no sequence of writes takes the configuration out of the
  codecs' ranges or reaches a field the write does not address. `crates/spec/spec_math.md:1670`
  ("`WritePage` mutates only staged RAM buffer for the addressed page") knows none of three exceptions:
  an accepted AFR table also moves the closed-loop target; a refused one leaves the cells before its
  first bad one; a trigger page the session refuses stays in the store.
- `FaultPagesAgree`: the read-only pages and the emergency mode tell one story. Two things one might
  expect are not so, and not claimed: the time a range fault needs to clear runs on when the sensor
  leaves its range again, and the latest entry of the diagnostic log is that of its last slot, not of
  the last event.

## 4. Bounds and fairness

Time is a clock modulo `UsMod` or `TickMod`, small enough that it wraps in every run that depends on
wrapping, and larger than twice the longest lead so that `is_due` is meaningful (the code relies on
the same for 2^31 microseconds). `MaxLateness` bounds how late the board loop drains; with it the runs
see transitions that are on time, late, and several at once. Queue and table have their capacity
reached: 2 to 4 windows, 4 to 8 slots, and a drain buffer of 2 below the queue's 4. A wheel of 4 teeth
with one missing has every kind of tooth: after the gap, in the middle, before the gap. The counters'
widths (`U8Max`, `U16Max`) are small so that saturation happens. `Recovery` is 8 teeth: two
revolutions and the two teeth that find a reference. In `stores` two values and sequence numbers
below 4 give three complete rewrites and any number of interrupted ones; two slots alternate, so a
fourth shows nothing new. The `ecu` run starts in one of six scenarios (sequential, crank-only,
legacy, limits, overrun, every public call), each a small set of inputs chosen so that its rows and
branches are all taken; one run covers them, since no step leaves its scenario.

The `tune` run has eight scenarios of three kinds (`MCTune`): the copies of the trigger with certified,
unlocked and refusable pages, with and without a host that resets and commits, and with burns on either
durable store; the burned records on the three kinds of store, one of which fails at will; the tune
pages, with an AFR table that is refused half way. One new body per page is enough, since bodies are
only compared.

The sector store has two pages, two records and sequence numbers modulo 4, so that they wrap after four
rewrites. Provisioning has two generations of keys and nonces, in scenarios of three or four messages
that may be sent any number of times in any order. On the CAN bus two modules share two slots with
messages of two and three frames and at most two faults, three modules with messages of one frame share
a roster with room for two, and transfer ids count modulo 2; bytes are small numbers, chosen so that some
messages end alike and others do not. The diagnostic log and the history hold two entries, so that both
overflow. Components of one run do not interact: `part` chooses which one a behaviour is about.

Symmetry is not used: outputs differ by group, times are numbers, and the flash values include a
distinguished zero.

Liveness is checked in `outputs_live` (`MCLoop`) and, for `NoModuleLockedOut`, in `network`. The latter
assumes weak fairness of every module's next frame getting through: each module has a periodic task,
and faults are bounded. The former assumes weak fairness of time and of the two
drains with a working pin: the board main loop calls the drain on every turn, unconditionally, and the
clock is hardware. Nothing is assumed of the runtime, which may arm and cancel as it likes. On the link
the loop pumps on every turn and the host's timeout elapses; a thread inside a call of the simulator
goes on, as threads do that hold or wait for a lock that is given back. Deadlock is checked in every
run.

In `outputs_live` two threads share two slots with two generations each, so that a slot is used again
and one is used up; two threads are enough for a call that meets a destroy and for two calls that meet
each other. The compatibility core has one caller at a time, with readings on both sides of every
threshold and steps of 0 to 2 units of a timer that wraps within the longest of its times.

## 5. Proofs

All proofs are for arbitrary constants under the named assumptions of each module (capacities and
moduli positive, `None` outside the value sets, calibration limits as `crates/spec/src/validation.rs`
enforces them). TLC evaluates each assumption on the instances.

| Module | Theorems | Argument |
|---|---|---|
| OutputSchedulerProofs | `SpecTypeOK`, `SpecOwnershipMatchesQueue`, `SpecExclusiveOutputs`, `SpecSummariesMatchWindows`, `SpecFrontierConsistent`, `SpecFiringNeedsLiveHorizon`, `SpecPermitNeedsNewHorizon`, and their joins `SpecTablesAgree`, `SpecHorizonsGovern` | `IInv` joins all of them: that admitting a window keeps the queue's Lows unique needs exclusiveness, that a drain releases the right window needs the agreement of table and queue. `AdmitOwnInv` and `DrainedOwnInv` do the work; every action is a composition of admit, drain and clear. |
| MissingToothProofs | `SpecTypeOK`, `SpecDecoderConsistent`, `SpecAuthorityIsBacked`, `SpecPhaseIsFresh`, `SpecFullAuthorityIsEarned`, `SpecProfileTracksLock`, and their joins `SpecDecoderAgrees`, `SpecClaimsAreBacked` | One lemma per outcome of an edge, that it preserves `DInv`. `PhaseIsFresh` is not inductive: an accepted gap must drop the phase unless a cam signal was seen since the gap before, which `Fresh` records through the decoder's own flag. |
| AbFlashKvProofs | `SpecTypeOK`, `SpecFaultMeansLostWrite`, `SpecNoSequenceTie`, their join `SpecBootIsSound`, `SpecTunePagesAreAtomic` | `IInv` says what the target slot holds after each step of a rewrite (`TargetAt`) and that the other slot is the one boot would select. Then boot selects the old slot until the last page is programmed and the new one after it: the commit point. Every step is a step of `KvRegister` or stutters. |
| TuneSessionProofs | `SpecRuntimeHasTheTune`, `SpecTriggersAgree`, `SpecTriggersAreValid`, `SpecCopiesAgree`, `SpecBootFindsTheBurn`, `SpecCertifiedProfileGuarded` | `StateOK` types RAM and records. What a boot finds needs `BurnInv`: the records up to the one being written are the burn's and those behind it are the ones it found, on every back end and for every answer, and only a burn touches a record. The guard of a certified profile follows from both checks and the agreement of store and session. |
| SimHandlesProofs | `SpecHandlesAreSafe` | A destroyed handle can no longer be entered because the slot and the gate's flag change under two different locks: `SlotsOK` says that a live slot holds an open or closing gate of its own, `TokensOK` which gate a thread that already left the registry is about to enter, `GateOK` who may be inside, `CountOK` that the gate's count is the number of threads inside it, which is why a destroyer that reads zero may go on. `GateMove` and `Registers` describe what each action does to the gates; every action is an instance of one of them. |
| EcuProofs | `LatchesAlwaysAgree`, `RevLimitsAlwaysHold` | A row that returns early leaves the latches below it untouched (`RowsKeepLatches`), and a row can return early only while the reference is latched, by a request or by its own rule (`Agree`), and it lets go only at a standstill, where no limiter is active; a limiter that is evaluated cuts at its threshold whatever its latch was (`LimiterHolds`). `ArbitrationLemma` and `ArbitersStayTogether` lift this to one evaluation, `EInv` to every call of every caller. |

## 6. What is only model-checked, and what is left out

Only TLC: liveness (`WindowsReleased`, `LinkRecovers`, `DestroyReturns`, `NoModuleLockedOut`) and anything with ENABLED, which the installed provers do not
support; what a recursive function computes for every input, which would need induction over data
(the drain loop against `DrainSet`, the batch against `ActionCap`); the composition properties of
`Ecu` other than the two proved; `RecoversTrueTooth`, which is about a bounded history; `HighKeepsItsLow`;
and the properties of the modules without a proof module.

Abstracted in what is modelled: pulse width and advance are inputs; the CRC of a
flash slot is equality with the value it was computed from (that of a CAN message is computed); a torn header fails validation (the code's header has no CRC of its own, a listed
hazard); the sequence number does not wrap (beyond the flash's endurance); `rev_hyst` is positive, as
calibration validation demands; a launch or flat-shift cycle count below the largest 16-bit value.

Left out for good: floating-point physics of the simulator, byte layouts of pages, frames and reports,
register access, build-time recipes, scripts.

