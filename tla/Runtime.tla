------------------------------- MODULE Runtime ------------------------------
(***************************************************************************)
(* EngineRuntime of crates/runtime/src/engine: every public call that      *)
(* changes its state.                                                      *)
(*   now      the time of the next call                                    *)
(*   engine   [rpm, angle, auth]: EngineState.  `sync` and `phase` are     *)
(*            functions of it whenever a step reads them                   *)
(*   request  [fault, dirty, fuel, spark]: the fault severity, the staged  *)
(*            calibration flag and the direct cut requests                 *)
(*   profile, strategy   the output profile, and "Direct" or "Semantic"    *)
(*            (speed density, alpha-N and MAF differ only in their data)   *)
(*   sem      RuntimeSemanticState of the semantic strategy                *)
(*   latched  safety_latched, which outlives the strategy                  *)
(*   own      the runtime's SchedulerState (its frontier is never used)    *)
(*   step     [kind, fuel, spark, knock, batch] of the step just taken:    *)
(*            which path decided the cuts, the cuts, whether the intensity *)
(*            is above the calibration's threshold, and the ActionBatch    *)
(*   orc      the reference arbiter, fed the inputs of every step of the   *)
(*            semantic strategy, direct requests included                  *)
(* Table lookups, enrichments and trims decide how long a pulse is: they   *)
(* are the input `pw`; an evaluation that returns Err, for a calibration   *)
(* the reference does not accept in the first place, is `ok` = FALSE.      *)
(***************************************************************************)
EXTENDS CutOracle, Planner

CONSTANTS
    MaxRpm,     \* the clamp of validate_step_scalars
    ActionCap   \* RUNTIME_ACTION_CAP

ASSUME CapAssumption == MaxRpm \in Nat /\ ActionCap \in Nat

VARIABLES now, engine, request, profile, strategy, sem, latched, own, step, orc
runtimeVars == <<now, engine, request, profile, strategy, sem, latched, own, step, orc>>

-----------------------------------------------------------------------------
(* EngineTimeAuthority. *)

CrankStates == {"NoSignal", "PrimarySearching", "PrimaryLocked", "SyncLost"}
PhaseStates == {"Unknown", "CrankOnly360", "CamObserved720", "CamValidated720"}
\* ExpertManual stands for the four authorities that allow full-sequential output.
Absolutes == {"None", "GeometryOnly", "ExpertManual"}
AuthorityType == [crank : CrankStates, phase : PhaseStates, absolute : Absolutes]

NoAuthority == [crank |-> "NoSignal", phase |-> "Unknown", absolute |-> "None"]

HasPrimaryLock(a) == a.crank = "PrimaryLocked"
HasAbsoluteTiming(a) == a.absolute # "None"

\* validate; confidence is in range, the trigger decoder sees to that.
Validated(a) == IF HasAbsoluteTiming(a) /\ ~HasPrimaryLock(a) THEN NoAuthority ELSE a

Unsynced(a) == ~HasPrimaryLock(a)
Locked(a) == HasPrimaryLock(a) /\ a.phase # "Unknown" /\ HasAbsoluteTiming(a)

FullSequentialAuthorized(a) ==
    HasPrimaryLock(a) /\ a.phase = "CamValidated720" /\ a.absolute = "ExpertManual"

DeriveAuthority(a, synced, cam, rpm) ==
    IF synced
    THEN [crank |-> "PrimaryLocked",
          phase |-> IF ~cam THEN "CrankOnly360"
                    ELSE IF a.phase = "CamValidated720" THEN a.phase ELSE "CamObserved720",
          absolute |-> IF HasAbsoluteTiming(a) THEN a.absolute ELSE "GeometryOnly"]
    ELSE [NoAuthority EXCEPT !.crank = IF HasPrimaryLock(a) THEN "SyncLost"
                                       ELSE IF rpm > 0 THEN "PrimarySearching" ELSE "NoSignal"]

CamSeen(a) == a.phase \in {"CamObserved720", "CamValidated720"}

\* engine_phase_from_authority; Stopping is never produced.
EnginePhase(a, rpm) ==
    IF rpm = 0 THEN "Off"
    ELSE IF HasPrimaryLock(a) /\ a.phase # "Unknown" THEN "Running" ELSE "Cranking"

-----------------------------------------------------------------------------
(* A step installs its inputs before it decides anything: `c` is what it   *)
(* then reads, [rpm, angle, auth, request].                                 *)

Shutdown(c) == c.request.fault = "Critical"
LimpHome(c) == c.request.fault = "Warning"

SemanticInput(c, in) ==
    [mode |-> EnginePhase(c.auth, c.rpm), rpm |-> c.rpm, tps |-> in.tps, map |-> in.map,
     knock |-> in.knock, launch |-> in.launch, flat |-> in.flat, req |-> in.req,
     fuel_req |-> c.request.fuel, spark_req |-> c.request.spark]

(* compute_fuel_intent: which path decides the cuts, and the cuts. *)

Intent(kind, st, latch, fuel, spark) ==
    [kind |-> kind, sem |-> st, latched |-> latch, fuel |-> fuel, spark |-> spark]

\* Mutant of DirectLatch: a request is honoured, but not remembered.
DirectLatchForgets(c, in) == in.req

DirectLatch(c, in) == (latched /\ EnginePhase(c.auth, c.rpm) # "Off") \/ in.req

DirectIntent(c, in) ==
    LET latch == DirectLatch(c, in)
        cut == latch \/ Shutdown(c) \/ c.auth.crank = "SyncLost"
    IN  Intent("direct", sem, latch, cut \/ c.request.fuel, cut \/ c.request.spark)

\* An Err leaves the strategy's state and the safety latch as they were.
SemanticIntent(c, in) ==
    LET d == EvaluateCutArbitration(sem, SemanticInput(c, in))
    IN  IF in.ok THEN Intent("semantic", d.st, d.st.safety, d.fuel, d.spark)
        ELSE Intent("failed", sem, latched, TRUE, TRUE)

ComputeFuelIntent(c, in) ==
    IF strategy = "Direct" THEN DirectIntent(c, in) ELSE SemanticIntent(c, in)

-----------------------------------------------------------------------------
(* emit_actions: the batch and the runtime's own scheduler, [own, batch].  *)

Simple(kind) == [kind |-> kind]
Cancel(reason) == [kind |-> "Cancel", reason |-> reason]
Arm(ws) == [kind |-> "Arm", ws |-> ws]

Push(batch, action) == IF Len(batch) < ActionCap THEN Append(batch, action) ELSE batch
Emission(o, batch) == [own |-> o, batch |-> batch]

\* Mutant of Attempt: the window is armed whether it was reserved or not.
AttemptUnchecked(t, e, w) ==
    Emission(IF ScheduleOk(e.own, t, w) THEN ReserveWindow(e.own, w) ELSE e.own,
             Push(e.batch, Arm(<<w>>)))

\* schedule_injection or schedule_ignition, and a push if it was Ok.
Attempt(t, e, w) ==
    IF ScheduleOk(e.own, t, w)
    THEN Emission(ReserveWindow(e.own, w), Push(e.batch, Arm(<<w>>))) ELSE e

EmitEvents(t, o, ws) ==
    LET run[k \in 0..Len(ws)] ==
            IF k = 0 THEN Emission(o, <<>>) ELSE Attempt(t, run[k - 1], ws[k])
        done == run[Len(ws)]
    IN  IF done.batch = <<>> THEN Emission(done.own, <<Simple("Idle")>>) ELSE done

\* One group of LegacySingleChannel: reserve its window or, when it is cut,
\* give up the windows it has, in the runtime's table only.
LegacyGroup(t, e, allow, w) ==
    IF ~allow THEN Emission(CancelGroup(e.own, Group[w.output]), e.batch)
    ELSE IF ScheduleOk(e.own, t, w) THEN Emission(ReserveWindow(e.own, w), Append(e.batch, w))
    ELSE e

EmitLegacy(t, o, plan) ==
    LET fuel == LegacyGroup(t, Emission(o, <<>>), ~plan.fuel_cut /\ plan.pw > 0,
                            LegacyWindow(t, Injector(1), plan.pw))
        both == LegacyGroup(t, fuel, ~plan.spark_cut /\ plan.spark.dwell > 0,
                            LegacyWindow(t, Ignition(1), plan.spark.dwell))
    IN  Emission(both.own, IF both.batch = <<>> THEN <<Simple("Idle")>> ELSE <<Arm(both.batch)>>)

NotAuthorized(c) == profile.phased /\ ~FullSequentialAuthorized(c.auth)

\* Mutant of EmitOutputs: windows are only cancelled when sync is lost, not
\* when the profile's authority is.
EmitOutputsLate(t, c, plan) ==
    IF Shutdown(c) THEN Emission(Suspend(own), <<Cancel("SafetyShutdown")>>)
    ELSE IF Unsynced(c.auth) /\ own.mode = "Armed"
    THEN Emission(Suspend(own), <<Cancel("SyncLoss")>>)
    ELSE IF ~Locked(c.auth) THEN Emission(own, <<Simple("Idle")>>)
    ELSE IF profile.kind = "Legacy" THEN EmitLegacy(t, OnSyncRecovered(own), plan)
    ELSE EmitEvents(t, OnSyncRecovered(own), PlannedWindows(t, c, profile, plan))

EmitOutputs(t, c, plan) ==
    IF Shutdown(c) THEN Emission(Suspend(own), <<Cancel("SafetyShutdown")>>)
    ELSE IF (Unsynced(c.auth) \/ NotAuthorized(c)) /\ own.mode = "Armed"
    THEN Emission(Suspend(own), <<Cancel("SyncLoss")>>)
    ELSE IF NotAuthorized(c) \/ ~Locked(c.auth) THEN Emission(own, <<Simple("Idle")>>)
    ELSE IF profile.kind = "Legacy" THEN EmitLegacy(t, OnSyncRecovered(own), plan)
    ELSE EmitEvents(t, OnSyncRecovered(own), PlannedWindows(t, c, profile, plan))

EmitActions(t, c, plan) ==
    LET out == EmitOutputs(t, c, plan)
        limp == IF LimpHome(c) THEN Push(out.batch, Simple("ApplyAux")) ELSE out.batch
        dirty == IF c.request.dirty THEN Push(limp, Simple("PersistCalibration")) ELSE limp
    IN  Emission(out.own, Push(dirty, Simple("PublishSnapshot")))

-----------------------------------------------------------------------------
(* The public calls.  A call that is not a step leaves no batch behind.    *)

NoStep == [kind |-> "none", fuel |-> FALSE, spark |-> FALSE, knock |-> FALSE, batch |-> <<>>]

RuntimeInit(profiles, strategies) ==
    /\ now = 0
    /\ engine = [rpm |-> 0, angle |-> 0, auth |-> NoAuthority]
    /\ request = [fault |-> "None", dirty |-> FALSE, fuel |-> FALSE, spark |-> FALSE]
    /\ profile \in profiles /\ strategy \in strategies
    /\ sem = NewSemanticState /\ orc = NewLogicalState
    /\ latched = FALSE
    /\ own = NewOwnership
    /\ step = NoStep

\* What a caller passes to a step, but for time, sync and authority.
ControlType ==
    [rpm : Nat, angle : Int, tps : Nat, map : Nat, knock : Nat, launch : BOOLEAN, flat : BOOLEAN,
     req : BOOLEAN, ok : BOOLEAN, pw : Nat, spark : [advance : Int, dwell : Nat]]
RequestType == [fault : {"None", "Warning", "Critical"}, dirty : BOOLEAN,
                fuel : BOOLEAN, spark : BOOLEAN]

PlanOf(i, in) ==
    [fuel_cut |-> i.fuel, spark_cut |-> i.spark, pw |-> in.pw, spark |-> in.spark]

\* step_with_validated.  \E i \in {v} only gives v a name.
TakeStep(c, in) ==
    /\ \E i \in {ComputeFuelIntent(c, in)} : \E e \in {EmitActions(now, c, PlanOf(i, in))} :
          /\ sem' = i.sem /\ latched' = i.latched
          /\ own' = e.own
          /\ step' = [kind |-> i.kind, fuel |-> i.fuel, spark |-> i.spark, batch |-> e.batch,
                      knock |-> strategy = "Semantic" /\ in.knock >= Cal.knock_threshold]
          /\ orc' = IF i.kind = "semantic" THEN OracleStep(orc, SemanticInput(c, in)) ELSE orc
    /\ engine' = [rpm |-> c.rpm, angle |-> c.angle, auth |-> c.auth]
    /\ request' = c.request
    /\ UNCHANGED <<now, profile, strategy>>

\* validate_step_scalars clamps, an invalid authority becomes none().
Installed(in, auth, rq) ==
    [rpm |-> IF in.rpm > MaxRpm THEN MaxRpm ELSE in.rpm, angle |-> in.angle,
     auth |-> Validated(auth), request |-> rq]

StepWithAuthority(in, auth) == TakeStep(Installed(in, auth, request), in)

Step(in, synced, cam) ==
    StepWithAuthority(in, DeriveAuthority(engine.auth, synced, cam, in.rpm))

\* The mode of the differential input overrides speed, sync and fault state.
StepWithDifferentialInput(in, mode, synced, fuel, spark) ==
    LET rq == [fault |-> IF mode = "Shutdown" THEN "Critical" ELSE "None",
               dirty |-> request.dirty, fuel |-> fuel, spark |-> spark]
        rpm == CASE mode = "Off" -> 0
                 [] mode = "Shutdown" -> in.rpm
                 [] mode \in {"Cranking", "Running"} -> AtLeast(in.rpm, 1)
        sync == CASE mode \in {"Off", "Cranking"} -> FALSE
                  [] mode = "Running" -> TRUE
                  [] mode = "Shutdown" -> synced
        forced == [in EXCEPT !.rpm = rpm]
        auth == DeriveAuthority(engine.auth, sync, sync, rpm)
    IN  TakeStep(Installed(forced, auth, rq), forced)

OtherCall == step' = NoStep /\ UNCHANGED <<now, profile, strategy, sem, latched, own, orc>>

\* apply_decoder_observation: the trigger, the cam.
ObserveTrigger(rpm, angle, synced) ==
    /\ engine' = [rpm |-> rpm, angle |-> angle,
                  auth |-> DeriveAuthority(engine.auth, synced, CamSeen(engine.auth), rpm)]
    /\ request' = request
    /\ OtherCall

CamAuthority(cam) == DeriveAuthority(engine.auth, HasPrimaryLock(engine.auth), cam, engine.rpm)

ObserveCam(cam) ==
    /\ engine' = [engine EXCEPT !.auth = CamAuthority(cam)]
    /\ request' = request
    /\ OtherCall

\* try_set_engine_time_authority is the same call for a valid authority, and
\* changes nothing for another.
SetEngineTimeAuthority(auth) ==
    /\ engine' = [engine EXCEPT !.auth = Validated(auth)]
    /\ request' = request
    /\ OtherCall

ApplySensorSample(rpm, angle) ==
    /\ engine' = [engine EXCEPT !.rpm = rpm, !.angle = angle]
    /\ request' = request
    /\ OtherCall

\* set_fault_state, set_staged_dirty and set_direct_cut_requests.
SetRequest(rq) ==
    /\ request' = rq
    /\ engine' = engine
    /\ OtherCall

\* configure_runtime_fuel_model and its kin install a fresh semantic state.
ConfigureStrategy(s) ==
    /\ strategy' = s
    /\ sem' = NewSemanticState /\ orc' = NewLogicalState
    /\ step' = NoStep
    /\ UNCHANGED <<now, engine, request, profile, latched, own>>

ConfigureOutputProfile(p) ==
    /\ profile' = p
    /\ step' = NoStep
    /\ UNCHANGED <<now, engine, request, strategy, sem, latched, own, orc>>

-----------------------------------------------------------------------------
(* Properties. *)

\* Everything keeps its type, and the batch its capacity.
RuntimeTypeOK ==
    /\ now \in Times
    /\ engine.rpm \in Nat /\ engine.auth \in AuthorityType
    /\ request \in RequestType
    /\ strategy \in {"Direct", "Semantic"} /\ latched \in BOOLEAN
    /\ sem \in SemanticType /\ orc \in LogicalType
    /\ own.windows \subseteq Windows /\ Cardinality(own.windows) <= MaxWindows
    /\ Len(step.batch) <= ActionCap

\* The runtime's arbiter returns at the first row that cuts and so skips the
\* latches below it; the reference arbiter of crates/spec updates all of them
\* on every step.  A direct request latches the reference and skips all of the
\* runtime's latches (so fm0016_runtime_conformance.rs has it), which is the
\* one way the safety latches part: the runtime never holds one the reference
\* released, and lacks one the reference holds only if a direct request came
\* since.  Once the reference lets go, the hard rev limiters are the same: no
\* row above leaves the runtime's stale for longer than that.
LatchesAgree ==
    strategy = "Semantic" =>
        /\ sem.safety => orc.safety
        /\ orc.safety => sem.safety \/ orc.asked
        /\ ~orc.safety => sem.hard = orc.hard

ArbiterDecided == step.kind = "semantic" /\ ~request.fuel /\ ~request.spark

\* Whatever the arbiter did on the steps before, an engine at or above the
\* hard limit has fuel and spark cut, and one that turns at or above the soft
\* limit has at least one of them cut, whichever row decided.
RevLimitsHold ==
    ArbiterDecided =>
        /\ engine.rpm >= Cal.hard_rev => step.fuel /\ step.spark
        /\ engine.rpm > 0 /\ engine.rpm >= Cal.soft_rev => step.fuel \/ step.spark

\* Once a safety latch is set, only a step with the engine at a standstill
\* clears it; replacing the strategy is the exception, its state starts anew.
LatchNeedsStandstill ==
    [][ latched /\ ~latched' /\ (strategy = "Semantic" => sem.safety)
        => EnginePhase(engine'.auth, engine'.rpm) = "Off" ]_runtimeVars

ArmedWindows == UNION {{a.ws[i] : i \in DOMAIN a.ws} :
                          a \in {step.batch[k] : k \in {j \in DOMAIN step.batch :
                                                          step.batch[j].kind = "Arm"}}}

\* A step arms an output only with the crank locked, no critical fault, the
\* 720-degree authority its profile needs, and the output's group not cut;
\* and every window it arms is in its own table, in the future, so no other
\* window of that output overlaps it (emit_actions).
ArmsAreAuthorized ==
    \A w \in ArmedWindows :
        /\ Locked(engine.auth) /\ request.fault # "Critical"
        /\ profile.phased => FullSequentialAuthorized(engine.auth)
        /\ IF Group[w.output] = "Injector" THEN ~step.fuel ELSE ~step.spark
        /\ w \in own.windows /\ now < w.start

\* A step always ends with the snapshot: however many events it arms, the
\* batch has room for the actions that follow them.
StepPublishes ==
    step.kind # "none" => step.batch[Len(step.batch)] = Simple("PublishSnapshot")

\* What a step hands to the board is authorized, and always carries its
\* snapshot: no full batch loses it.
StepsAreAuthorized == ArmsAreAuthorized /\ StepPublishes
=============================================================================
