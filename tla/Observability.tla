---------------------------- MODULE Observability ---------------------------
(***************************************************************************)
(* What the ECU says about itself after a step: the observation surface of *)
(* crates/runtime/src/observations.rs and the telemetry that BoardAdapter  *)
(* derives in boards/common/src/adapter.rs.  Both read the same runtime    *)
(* snapshot and step result, with rules of their own, so the module has no *)
(* state: its operators are functions of the state of module Ecu.          *)
(*                                                                         *)
(* The adapter refreshes what it derives from a step result at the end of  *)
(* a tick that succeeded.  A tick whose port failed returns before that:   *)
(* the operators on step.batch speak of the telemetry only when tick = "ok".*)
(***************************************************************************)
EXTENDS Ecu, FiniteSetsExt

\* What refresh_snapshot records of a step: a step that did not evaluate the
\* semantic strategy clears the arbiter's flags, but for the safety latch.
Snapshot ==
    LET flag(f) == step.kind = "semantic" /\ f
    IN  [mode |-> CASE request.fault = "Critical" -> "Shutdown"
                    [] request.fault = "Warning" -> "LimpHome"
                    [] request.fault = "None" /\ EnginePhase(engine.auth, engine.rpm) = "Running" -> "ClosedLoop"
                    [] OTHER -> "OpenLoop",
         severity |-> request.fault,
         safety |-> latched, fuel_req |-> request.fuel, spark_req |-> request.spark,
         hard |-> flag(sem.hard), soft |-> flag(sem.soft),
         launch |-> flag(sem.launch), flat |-> flag(sem.flat),
         retard |-> flag(sem.retard > 0), knock |-> step.knock,
         fuel |-> step.fuel, spark |-> step.spark]

-----------------------------------------------------------------------------
(* Why an output is cut: three rules for one question. *)

CutReasons == {"None", "SafetyLatched", "DirectRequest", "Shutdown", "HardRev", "Launch",
               "FlatShift", "FuelOnly", "SoftRev", "SparkOnly", "KnockRetard"}

\* The first reason of a list of <<condition, reason>> whose condition holds.
FirstOf(rules) ==
    LET holds == {i \in DOMAIN rules : rules[i][1]}
    IN  IF holds = {} THEN "None" ELSE rules[Min(holds)][2]

\* Mutant of FuelCutReason: the limiter is named before the latch that
\* overrides it.
FuelCutReasonLimiterFirst(s) ==
    IF ~s.fuel THEN "None"
    ELSE FirstOf(<< <<s.hard, "HardRev">>, <<s.safety, "SafetyLatched">>,
                    <<s.fuel_req, "DirectRequest">>,
                    <<s.mode = "Shutdown", "Shutdown">>,
                    <<s.launch, "Launch">>, <<s.flat, "FlatShift">>, <<~s.spark, "FuelOnly">>,
                    <<s.soft, "SoftRev">>, <<s.spark_req, "DirectRequest">> >>)

\* common_fuel_cut_reason and common_spark_cut_reason of the adapter.
FuelCutReason(s) ==
    IF ~s.fuel THEN "None"
    ELSE FirstOf(<< <<s.safety, "SafetyLatched">>, <<s.fuel_req, "DirectRequest">>,
                    <<s.mode = "Shutdown", "Shutdown">>, <<s.hard, "HardRev">>,
                    <<s.launch, "Launch">>, <<s.flat, "FlatShift">>, <<~s.spark, "FuelOnly">>,
                    <<s.soft, "SoftRev">>, <<s.spark_req, "DirectRequest">> >>)

LegacyKnockReasonActive(s) == s.retard \/ s.knock

\* The code older tools expect.
LegacyCutReasonCode(s) ==
    FirstOf(<< <<s.safety \/ s.fuel_req \/ s.spark_req \/ s.mode = "Shutdown", "1">>,
               <<s.hard, "2">>, <<s.launch, "3">>, <<s.flat, "4">>,
               <<s.fuel /\ ~s.spark, "5">>, <<s.spark, "6">>, <<LegacyKnockReasonActive(s), "7">> >>)

SparkCutReason(s) ==
    IF ~s.spark THEN "None"
    ELSE FirstOf(<< <<s.safety, "SafetyLatched">>, <<s.spark_req, "DirectRequest">>,
                    <<s.mode = "Shutdown", "Shutdown">>, <<s.hard, "HardRev">>,
                    <<s.launch, "Launch">>, <<s.flat, "FlatShift">>, <<s.soft, "SoftRev">>,
                    <<~s.fuel, "SparkOnly">>,
                    <<LegacyCutReasonCode(s) = "7", "KnockRetard">>,
                    <<s.fuel_req, "DirectRequest">> >>)

\* extract_cut_observations of the runtime.
CutObservation(s) ==
    FirstOf(<< <<s.safety, "SafetyLatched">>, <<s.fuel_req \/ s.spark_req, "DirectRequest">>,
               <<s.mode = "Shutdown", "Shutdown">>, <<s.hard, "HardRev">>,
               <<s.launch, "Launch">>, <<s.flat, "FlatShift">>,
               <<s.fuel /\ ~s.spark, "FuelOnly">>, <<s.soft /\ s.spark, "SoftRev">>,
               <<s.spark, "SparkOnly">>, <<LegacyCutReasonCode(s) = "7", "KnockRetard">> >>)

-----------------------------------------------------------------------------
(* What protects the engine, and what the last batch did about it. *)

Protection(level, source, action, persistence) ==
    [level |-> level, source |-> source, action |-> action, persistence |-> persistence]
NoProtection == Protection("Inactive", "None", "None", "Inactive")

\* runtime_fault_action_policy; a fault is set with a warning or worse.
FaultAction(s) == [None |-> "None", Warning |-> "LimpHome", Critical |-> "Shutdown"][s.severity]

LevelOf(action) == IF action = "Shutdown" THEN "ShutdownDriving" ELSE "Degraded"

OfFaultOrMode(s) ==
    IF s.severity # "None"
    THEN Protection(LevelOf(FaultAction(s)), "RuntimeFault", FaultAction(s), "LatchedUntilClear")
    ELSE IF s.mode \in {"Shutdown", "LimpHome"}
    THEN Protection(LevelOf(s.mode), "ControlMode", s.mode, "Reversible")
    ELSE NoProtection

\* extract_protection_observations.
ProtectionObservation(s) ==
    IF s.safety
    THEN Protection("ShutdownDriving", "SafetyLatch", "OutputSuppressed", "LatchedUntilClear")
    ELSE OfFaultOrMode(s)

\* common_frontier_fault_telemetry: what a stop of the timing island means.
FrontierFault(stop) ==
    CASE stop = "None" -> "None"
      [] stop \in {"HeartbeatExpired", "HorizonExpired"} -> "OutputSuppressed"
      [] OTHER -> "SafeStateTransition"

\* common_protection_telemetry: it reads the frontier and not the safety latch.
ProtectionTelemetry(s, stop) ==
    LET action == FrontierFault(stop)
    IN  IF action = "None" THEN OfFaultOrMode(s)
        ELSE Protection(IF action = "OutputSuppressed" THEN "Degraded" ELSE "ShutdownDriving",
                        "FrontierFault", action, "LatchedUntilRecovery")

Of(batch, kind) == {i \in DOMAIN batch : batch[i].kind = kind}

\* common_action_telemetry and extract_action_observations: the same counts.
ActionTelemetry(batch) ==
    LET cancels == Of(batch, "Cancel")
    IN  [total |-> Len(batch), arms |-> Cardinality(Of(batch, "Arm")),
         aux |-> Cardinality(Of(batch, "ApplyAux")), idle |-> Cardinality(Of(batch, "Idle")),
         publish |-> Cardinality(Of(batch, "PublishSnapshot")),
         persist |-> Cardinality(Of(batch, "PersistCalibration")),
         cancel |-> cancels # {},
         reason |-> IF cancels = {} THEN "Manual" ELSE batch[Max(cancels)].reason,
         mixed |-> \E i, j \in cancels : batch[i].reason # batch[j].reason]

Limp(level, source, persistence) == [level |-> level, source |-> source, persistence |-> persistence]

\* common_limp_action_telemetry.
LimpAction(actions, protection, stop) ==
    IF FrontierFault(stop) # "None"
    THEN Limp(IF FrontierFault(stop) = "OutputSuppressed" THEN "OutputSuppressed" ELSE "ShutdownDriving",
              "FrontierFault", "LatchedUntilRecovery")
    ELSE IF actions.cancel /\ actions.reason = "SyncLoss"
    THEN Limp("OutputSuppressed",
              IF protection.source = "None" THEN "SyncAuthority" ELSE protection.source,
              "LatchedUntilRecovery")
    ELSE IF actions.cancel
    THEN Limp("ShutdownDriving", protection.source, protection.persistence)
    ELSE IF actions.aux > 0 THEN Limp("AuxOnly", protection.source, protection.persistence)
    ELSE Limp("Inactive", "None", "Inactive")

-----------------------------------------------------------------------------
(* extract_transition_observations: when the armed windows open and close. *)

TransitionsOf(group) ==
    {t \in UNION {{<<w.start, w>>, <<w.end, w>>} : w \in ArmedWindows} :
        group = "all" \/ Group[t[2].output] = group}

Transitions(group) ==
    LET ts == TransitionsOf(group)
        at == {t[1] : t \in ts}
    IN  IF ts = {} THEN [count |-> 0, earliest |-> None, latest |-> None]
        ELSE [count |-> Cardinality(ts), earliest |-> Min(at), latest |-> Max(at)]

\* TorqueObservations::from_step: what is left of an allowed torque of 1.
TorqueAllowed(s) ==
    IF s.mode = "Shutdown" \/ EnginePhase(engine.auth, engine.rpm) = "Off" \/ s.hard THEN 0 ELSE 1
TorqueActuated(s) == IF s.fuel \/ s.spark THEN 0 ELSE TorqueAllowed(s)

\* extract_runtime_observed_surface.
ObservedSurface ==
    LET s == Snapshot
    IN  [cut |-> CutObservation(s), code |-> LegacyCutReasonCode(s),
         protection |-> ProtectionObservation(s), actions |-> ActionTelemetry(step.batch),
         transitions |-> [g \in {"all", "Injector", "Ignition"} |-> Transitions(g)],
         allowed |-> TorqueAllowed(s), actuated |-> TorqueActuated(s)]

\* observability_snapshot.  A cancellation leaves its stop reason in the
\* frontier, and only a committed horizon would clear it: on a board that
\* commits none, the first sync loss is reported as a frontier fault from then
\* on, whatever the board does afterwards.
ObservabilitySnapshot ==
    LET s == Snapshot
        stop == sch.fr.reason
        protection == ProtectionTelemetry(s, stop)
    IN  [fuel_reason |-> FuelCutReason(s), spark_reason |-> SparkCutReason(s),
         protection |-> protection,
         limp |-> LimpAction(ActionTelemetry(step.batch), protection, stop)]

-----------------------------------------------------------------------------
(* Properties. *)

\* The two causes no rule names: a direct strategy that lost sync, and an
\* evaluation that failed.  The adapter then reports a cut without a reason,
\* the runtime "SparkOnly".
Unnamed == \/ step.kind = "failed"
           \/ step.kind = "direct" /\ engine.auth.crank = "SyncLost"

CodeOf(reason) ==
    CASE reason \in {"SafetyLatched", "DirectRequest", "Shutdown"} -> "1"
      [] reason = "HardRev" -> "2"   [] reason = "Launch" -> "3"
      [] reason = "FlatShift" -> "4" [] reason = "FuelOnly" -> "5"
      [] reason \in {"SoftRev", "SparkOnly"} -> "6"
      [] reason = "KnockRetard" -> "7" [] reason = "None" -> "None"

\* The limit a reason blames is exceeded now: no flag of an earlier step is
\* read (the arbiter leaves the flags of the rows it skips as they were).
Current(reason) ==
    /\ reason = "HardRev" => engine.rpm > SatSub(Cal.hard_rev, Cal.rev_hyst)
    /\ reason = "SoftRev" => engine.rpm > SatSub(Cal.soft_rev, Cal.rev_hyst)
    /\ reason = "Launch" => engine.rpm >= Cal.launch_rpm
    /\ reason = "FlatShift" => engine.rpm >= Cal.flat_rpm

\* Whatever cut an output, the adapter names a reason, the reason holds now,
\* the runtime's own observation is one of the adapter's two, and the code for
\* older tools is the code of that reason.  With no direct request, a safety
\* latch that cuts is always the reason named.
CutsAreExplained ==
    step.kind # "none" =>
        LET t == ObservabilitySnapshot
            r == ObservedSurface
        IN  /\ t.fuel_reason \in CutReasons /\ t.spark_reason \in CutReasons
            /\ step.fuel /\ ~Unnamed => t.fuel_reason # "None"
            /\ step.spark /\ ~Unnamed => t.spark_reason # "None"
            /\ Current(t.fuel_reason) /\ Current(t.spark_reason)
            /\ (step.fuel \/ step.spark) /\ ~Unnamed
               => r.cut \in {t.fuel_reason, t.spark_reason}
            /\ r.code = CodeOf(r.cut)
            /\ latched /\ ~request.fuel /\ ~request.spark
               => t.fuel_reason = "SafetyLatched" /\ t.spark_reason = "SafetyLatched"

\* A board never reports less than it did: a tick that cancelled is reported as
\* a suppression and has left nothing queued, a critical fault as a shutdown.
\* Until the first cancellation it does not report more either, and then it
\* agrees with the runtime, but for the safety latch, which only the runtime
\* counts.  The transitions it reports lie ahead of it.
ReportsAreReal ==
    Planned /\ tick = "ok" =>
        LET t == ObservabilitySnapshot
            r == ObservedSurface
            armed == r.transitions["all"]
        IN  /\ r.actions.cancel =>
                  /\ t.limp.level \in {"OutputSuppressed", "ShutdownDriving"}
                  /\ sch.queue = Out!EmptyQueue /\ armed.count = 0
            /\ request.fault = "Critical" =>
                  t.protection.level = "ShutdownDriving" /\ t.limp.level = "ShutdownDriving"
            /\ sch.fr.reason = "None" =>
                  /\ t.limp.level \in {"Inactive", "AuxOnly"}
                  /\ ~latched => t.protection = r.protection
            /\ t.limp.level = "Inactive" => t.protection.level = "Inactive"
            /\ r.actions.publish = 1 /\ ~r.actions.mixed
            /\ armed.count = r.transitions["Injector"].count + r.transitions["Ignition"].count
            /\ armed.count > 0 => now < armed.earliest
            /\ r.transitions["Injector"].count > 0 => r.actuated = 1 \/ step.spark

\* The telemetry explains every cut and reports only what the board did.
TelemetryIsTruthful == CutsAreExplained /\ ReportsAreReal
=============================================================================
