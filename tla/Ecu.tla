--------------------------------- MODULE Ecu --------------------------------
(***************************************************************************)
(* The whole control path of one board: BoardAdapter of                    *)
(* boards/common/src/adapter.rs feeds the engine runtime, and              *)
(* run_runtime_scheduled_output_tick executes what a step asks for and     *)
(* drains what is due.                                                     *)
(*   pending  [rpm, angle, auth, launch, flat]: AuthorityStepInputs        *)
(*   sch, pins  the board's scheduler and pins (module OutputScheduler),   *)
(*            with no frontier: no board commits a horizon                 *)
(*   tick     how the last event ended: "none" (it was no tick), "ok",     *)
(*            "refused" (the executor refused an action) or "failed" (the  *)
(*            transport, the calibration store or the watchdog did)        *)
(*   env      the scenario: which caller drives the runtime, with which    *)
(*            inputs.  A "board" delivers events; a "host" (the simulator, *)
(*            the differential tests) calls the runtime's own methods.     *)
(***************************************************************************)
EXTENDS Runtime

CONSTANTS
    QueueCap, DrainCap,   \* as in TransitionQueue
    MaxLateness,          \* the board loop ticks at least this often
    Scenarios             \* the scenarios: [caller, profiles, strategies, rpms, angles,
                          \*  auths, captures, cams, arming, controls, broken, modes,
                          \*  requests]

ASSUME ScenarioAssumption ==
    \A s \in Scenarios :
        /\ s.controls \subseteq ControlType /\ s.requests \subseteq RequestType
        /\ s.rpms \subseteq Nat /\ s.angles \subseteq Int /\ s.auths \subseteq AuthorityType
        /\ s.arming \subseteq BOOLEAN \X BOOLEAN /\ s.modes \subseteq EngineModes
        /\ s.strategies \subseteq {"Direct", "Semantic"}

VARIABLES pending, sch, pins, tick, env
boardVars == <<pending, sch, pins>>
vars == <<now, engine, request, profile, strategy, sem, latched, own, step, orc,
          pending, sch, pins, tick, env>>

Out == INSTANCE OutputScheduler WITH
    Wired <- Outputs, FaultyPins <- {}, Bank <- "ScheduledOutputs4", Executors <- {"execute"},
    CancelReasons <- {"SyncLoss", "SafetyShutdown"}, MaxLead <- 0, MaxPulse <- 0,
    HorizonIds <- {}, HorizonLens <- {}, HeartbeatLeads <- {}, Masks <- {}

NewPending == [rpm |-> 0, angle |-> 0, auth |-> NoAuthority, launch |-> FALSE, flat |-> FALSE]

Init ==
    /\ env \in Scenarios
    /\ RuntimeInit(env.profiles, env.strategies)
    /\ pending = NewPending
    /\ sch = Out!NewAdapter
    /\ pins = [o \in Outputs |-> "Low"]
    /\ tick = "none"

-----------------------------------------------------------------------------
(* BoardAdapter::apply_event. *)

Board == env.caller = "board" /\ env' = env
NoTick == tick' = "none" /\ UNCHANGED <<sch, pins>>
RuntimeIdle == step' = NoStep /\ UNCHANGED <<engine, request, profile, strategy, sem, latched, own, orc>>

\* Time passes between two events, but the loop is never later than MaxLateness.
Advance ==
    /\ Board
    /\ \A i \in Out!DueSlots(sch.queue, now) : Out!Lateness(now, sch.queue[i].at) < MaxLateness
    /\ now' = (now + 1) % UsMod
    /\ RuntimeIdle /\ NoTick /\ UNCHANGED pending

\* A capture sink that fails returns after the pending inputs were written
\* and before the runtime hears of the edge.
TriggerEdge(rpm, angle, auth, captured) ==
    /\ Board
    /\ pending' = [pending EXCEPT !.rpm = rpm, !.angle = angle, !.auth = auth]
    /\ IF captured
       THEN /\ engine' = [rpm |-> rpm, angle |-> angle, auth |-> Validated(auth)]
            /\ request' = request /\ OtherCall
       ELSE RuntimeIdle /\ now' = now
    /\ NoTick

\* The runtime's authority, with the cam, replaces the pending one.
CamEdge(cam) ==
    /\ Board
    /\ ObserveCam(cam)
    /\ pending' = [pending EXCEPT !.auth = Validated(CamAuthority(cam))]
    /\ NoTick

SensorSnapshotCapture(rpm, angle) ==
    /\ Board
    /\ pending' = [pending EXCEPT !.rpm = rpm, !.angle = angle]
    /\ ApplySensorSample(rpm, angle)
    /\ NoTick

SetShiftArming(launch, flat) ==
    /\ Board
    /\ pending' = [pending EXCEPT !.launch = launch, !.flat = flat]
    /\ RuntimeIdle /\ now' = now
    /\ NoTick

\* execute_step, action by action up to the first error: [s, end].  `broken`
\* is the port that fails this time, if any.
ExecuteAction(s, a, broken) ==
    CASE a.kind \in {"Arm", "Cancel"} ->
             [s |-> Out!ApplyLowered(s, a), end |-> IF Out!ActionOk(s, a) THEN "ok" ELSE "refused"]
      [] a.kind = "PersistCalibration" ->
             [s |-> s, end |-> IF broken = "store" THEN "failed" ELSE "ok"]
      [] a.kind = "PublishSnapshot" ->
             [s |-> s, end |-> IF broken = "transport" THEN "failed" ELSE "ok"]
      [] a.kind \in {"Idle", "ApplyAux"} -> [s |-> s, end |-> "ok"]

ExecuteStep(s, batch, broken) ==
    LET run[k \in 0..Len(batch)] ==
            IF k = 0 THEN [s |-> s, end |-> "ok"]
            ELSE LET prev == run[k - 1]
                 IN  IF prev.end = "ok" THEN ExecuteAction(prev.s, batch[k], broken) ELSE prev
        done == run[Len(batch)]
    IN  IF done.end = "ok" /\ broken = "watchdog" THEN [s |-> done.s, end |-> "failed"] ELSE done

\* run_runtime_scheduled_output_tick: a step, its actions and, unless one of
\* them failed, the drain.
Tick(control, broken) ==
    /\ Board
    /\ LET in == [control EXCEPT !.rpm = pending.rpm, !.angle = pending.angle,
                                 !.launch = pending.launch, !.flat = pending.flat]
       IN  StepWithAuthority(in, pending.auth)
    /\ \E ran \in {ExecuteStep(sch, step'.batch, broken)} :
          /\ tick' = ran.end
          /\ IF ran.end = "ok"
             THEN /\ sch' = Out!DrainDueWithFrontier(ran.s)
                  /\ pins' = Out!PinsAfter(pins, ran.s.queue, now,
                                 Out!Applied(ran.s.queue, now, Out!DrainSet(ran.s.queue, now), None))
             ELSE sch' = ran.s /\ pins' = pins
    /\ UNCHANGED pending

-----------------------------------------------------------------------------
(* A caller of the runtime's own methods. *)

Host ==
    /\ env.caller = "host" /\ env' = env
    /\ tick' = "none" /\ UNCHANGED boardVars

HostStep(in, synced, cam) == Host /\ Step(in, synced, cam)
HostStepWithAuthority(in, auth) == Host /\ StepWithAuthority(in, auth)
HostStepWithDifferentialInput(in, mode, synced, fuel, spark) ==
    Host /\ StepWithDifferentialInput(in, mode, synced, fuel, spark)
HostObserveTrigger(rpm, angle, synced) == Host /\ ObserveTrigger(rpm, angle, synced)
HostObserveCam(cam) == Host /\ ObserveCam(cam)
HostSetEngineTimeAuthority(auth) == Host /\ SetEngineTimeAuthority(auth)
HostApplySensorSample(rpm, angle) == Host /\ ApplySensorSample(rpm, angle)

\* The adapter forwards set_staged_dirty, and clear_diagnostics clears the
\* fault state.  No board raises a fault or requests a cut; a scenario may, to
\* show what the board's path does with one.
AnySetRequest(rq) ==
    /\ SetRequest(rq)
    /\ tick' = "none" /\ UNCHANGED <<pending, sch, pins, env>>

HostConfigureStrategy(s) == Host /\ ConfigureStrategy(s)
HostConfigureOutputProfile(p) == Host /\ ConfigureOutputProfile(p)

InputOf(c, r, a) == [c EXCEPT !.rpm = r, !.angle = a]
Inputs == {InputOf(c, r, a) : c \in env.controls, r \in env.rpms, a \in env.angles}

Next ==
    \/ Advance
    \/ \E rpm \in env.rpms, angle \in env.angles,
          auth \in env.auths, captured \in env.captures :
          TriggerEdge(rpm, angle, auth, captured)
    \/ \E cam \in env.cams : CamEdge(cam)
    \/ \E rpm \in env.rpms, angle \in env.angles :
          SensorSnapshotCapture(rpm, angle)
    \/ \E arm \in env.arming : SetShiftArming(arm[1], arm[2])
    \/ \E control \in env.controls, broken \in env.broken : Tick(control, broken)
    \/ \E in \in Inputs, synced \in BOOLEAN, cam \in env.cams : HostStep(in, synced, cam)
    \/ \E in \in Inputs, auth \in env.auths : HostStepWithAuthority(in, auth)
    \/ \E in \in Inputs, mode \in env.modes, synced \in BOOLEAN,
          cut \in {<<rq.fuel, rq.spark>> : rq \in env.requests} :
          HostStepWithDifferentialInput(in, mode, synced, cut[1], cut[2])
    \/ \E rpm \in env.rpms, angle \in env.angles, synced \in BOOLEAN :
          HostObserveTrigger(rpm, angle, synced)
    \/ \E cam \in env.cams : HostObserveCam(cam)
    \/ \E auth \in env.auths : HostSetEngineTimeAuthority(auth)
    \/ \E rpm \in env.rpms, angle \in env.angles :
          HostApplySensorSample(rpm, angle)
    \/ \E rq \in env.requests : AnySetRequest(rq)
    \/ \E s \in env.strategies : HostConfigureStrategy(s)
    \/ \E p \in env.profiles : HostConfigureOutputProfile(p)

Spec == Init /\ [][Next]_vars

-----------------------------------------------------------------------------
(* Properties. *)

\* The runtime, the pending inputs and the board keep their types and bounds.
EcuTypeOK ==
    /\ RuntimeTypeOK
    /\ Out!TypeOK
    /\ pending.auth \in AuthorityType
    /\ tick \in {"none", "ok", "refused", "failed"}

Planned == profile.kind # "Legacy" /\ env.caller = "board"

\* The runtime and the board each keep a window table, and only batches link
\* them.  Every window the board still has is one the runtime knows of, so a
\* window the runtime finds free is free on the board too.
BoardWithinRuntime == Planned => sch.own.windows \subseteq own.windows

\* Hence no tick is ever refused by the executor: the runtime's own checks
\* come first and are at least as strict.
TickNeverRefused == Planned => tick # "refused"

\* After a tick that ran without crank lock, without the authority its
\* profile needs, or with a critical fault, the board has nothing scheduled,
\* whatever was in its queue and whichever port failed in that tick.
UnauthorizedTickEmptiesBoard ==
    LET c == [auth |-> engine.auth, request |-> request]
    IN  Planned /\ tick # "none" /\ (Shutdown(c) \/ Unsynced(engine.auth) \/ NotAuthorized(c))
        => sch.queue = Out!EmptyQueue /\ sch.own.windows = {}

\* A step that is allowed to arm, with every window it ever reserved in the
\* past, arms something (emission rules of crates/spec/spec_math.md).
RearmsWhenFree ==
    /\ step.kind # "none" /\ request.fault # "Critical" /\ Locked(engine.auth)
    /\ profile.phased => FullSequentialAuthorized(engine.auth)
    /\ engine.rpm > 0 /\ ~step.fuel /\ ~step.spark
    /\ now <= MaxUs \div 2
    /\ \A w \in own.windows : w.end <= now
    => ArmedWindows # {}

\* The board never gets ahead of the runtime, whichever ports failed in
\* between: its windows are the runtime's, no tick is refused, and a tick
\* without authority leaves it empty.
BoardFollowsRuntime ==
    EcuTypeOK /\ BoardWithinRuntime /\ TickNeverRefused /\ UnauthorizedTickEmptiesBoard
=============================================================================
