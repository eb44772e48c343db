------------------------------ MODULE EcuProofs -----------------------------
(* Theorems about Ecu: the cut arbiter inside the engine runtime, whichever *)
(* of the runtime's calls are made and in whichever order.                  *)
EXTENDS Ecu, TLAPS

-----------------------------------------------------------------------------
(* The arbiter. *)

SemanticFields == {"safety", "hard", "soft", "launch", "flat", "dfco", "dfco_count",
                   "launch_count", "flat_count", "retard", "recovery"}

\* The part of SemanticType the latches need.
SemanticShape(st) ==
    /\ DOMAIN st = SemanticFields
    /\ st.safety \in BOOLEAN /\ st.hard \in BOOLEAN /\ st.soft \in BOOLEAN

SameLatches(s, st) == s.safety = st.safety /\ s.hard = st.hard /\ s.soft = st.soft

\* The DFCO and the knock row leave the latches above them alone.
LEMMA RowsKeepLatches ==
    ASSUME NEW st, NEW in, SemanticShape(st)
    PROVE  /\ SemanticShape(DfcoRow(st, in)) /\ SameLatches(DfcoRow(st, in), st)
           /\ SemanticShape(KnockRow(st, in)) /\ SameLatches(KnockRow(st, in), st)
<1>1. SemanticShape(DfcoRow(st, in)) /\ SameLatches(DfcoRow(st, in), st)
  BY DEF DfcoRow, SemanticShape, SemanticFields, SameLatches
<1>2. SemanticShape(KnockRow(st, in)) /\ SameLatches(KnockRow(st, in), st)
  BY DEF KnockRow, SemanticShape, SemanticFields, SameLatches
<1> QED BY <1>1, <1>2

\* A limiter whose hysteresis is not zero is active whenever the speed is at
\* or above its threshold, whether it was active before or not.
LEMMA LimiterHolds ==
    ASSUME NEW current \in BOOLEAN, NEW rpm \in Nat, NEW threshold \in Nat,
           rpm >= threshold, rpm > 0
    PROVE  LatchWithHysteresis(current, rpm, threshold, Cal.rev_hyst)
<1>1. Cal.rev_hyst \in Nat /\ Cal.rev_hyst > 0
  BY CalAssumption, LimitAssumption DEF CalFields
<1> QED BY <1>1 DEF LatchWithHysteresis, SatSub

\* latch_with_hysteresis returns a bool.
LEMMA LatchIsBoolean ==
    ASSUME NEW current, NEW rpm, NEW threshold, NEW hysteresis
    PROVE  LatchWithHysteresis(current, rpm, threshold, hysteresis) \in BOOLEAN
<1>1. (rpm > SatSub(threshold, hysteresis)) \in BOOLEAN /\ (rpm >= threshold) \in BOOLEAN
  OBVIOUS
<1> QED BY <1>1 DEF LatchWithHysteresis

\* Rows 4 to 8 change neither upper latch, and a turning engine at or above
\* the soft limit is never left without a cut.
LEMMA LowerRowsLemma ==
    ASSUME NEW st, NEW in, SemanticShape(st), in.rpm \in Nat
    PROVE  /\ SemanticShape(LowerRows(st, in).st)
           /\ LowerRows(st, in).st.safety = st.safety
           /\ LowerRows(st, in).st.hard = st.hard
           /\ in.rpm > 0 /\ in.rpm >= Cal.soft_rev
              => LowerRows(st, in).fuel \/ LowerRows(st, in).spark
<1> DEFINE s == DfcoRow(st, in)
           u == [s EXCEPT !.soft = SoftRow(s, in)]
<1>1. SemanticShape(s) /\ SameLatches(s, st)
  BY RowsKeepLatches
<1>2. Cal.soft_rev \in Nat /\ Cal.rev_hyst \in Nat
  BY CalAssumption DEF CalFields
<1> HIDE DEF s
<1>3. SoftRow(s, in) \in BOOLEAN
  BY LatchIsBoolean DEF SoftRow
<1>4. SemanticShape(u) /\ u.safety = st.safety /\ u.hard = st.hard /\ u.soft = SoftRow(s, in)
  BY <1>1, <1>3 DEF SemanticShape, SemanticFields, SameLatches
<1>5. in.rpm > 0 /\ in.rpm >= Cal.soft_rev => SoftRow(s, in)
  BY <1>1, <1>2, LimiterHolds DEF SoftRow, SemanticShape
<1> HIDE DEF u
<1>6. SemanticShape(KnockRow(u, in)) /\ SameLatches(KnockRow(u, in), u)
  BY <1>4, RowsKeepLatches
<1>7. LowerRows(st, in) =
        IF LaunchRow(st, in) THEN Decision([st EXCEPT !.launch = TRUE], TRUE, TRUE)
        ELSE IF FlatRow(st, in) THEN Decision([st EXCEPT !.flat = TRUE], TRUE, TRUE)
        ELSE IF in.mode = "Running" /\ s.dfco THEN Decision(s, TRUE, FALSE)
        ELSE IF u.soft THEN Decision(u, FALSE, TRUE)
        ELSE Decision(KnockRow(u, in), FALSE, FALSE)
  BY DEF LowerRows, s, u
<1>8. CASE LaunchRow(st, in) \/ FlatRow(st, in)
  BY <1>7, <1>8 DEF Decision, SemanticShape, SemanticFields
<1>9. CASE ~LaunchRow(st, in) /\ ~FlatRow(st, in)
  BY <1>1, <1>4, <1>5, <1>6, <1>7, <1>9 DEF Decision, SameLatches
<1> QED BY <1>8, <1>9

\* One call of the arbiter: a direct request changes neither upper latch;
\* otherwise the safety latch is what its row says, the hard limiter's too
\* unless the safety row cut, and both limits are enforced.
LEMMA ArbitrationLemma ==
    ASSUME NEW state, NEW in, SemanticShape(state), in.rpm \in Nat, in.req \in BOOLEAN,
           NEW d, d = EvaluateCutArbitration(state, in)
    PROVE  /\ SemanticShape(d.st)
           /\ in.fuel_req \/ in.spark_req
              => d.st.safety = state.safety /\ d.st.hard = state.hard
           /\ ~(in.fuel_req \/ in.spark_req) =>
              /\ d.st.safety = SafetyRow(state, in)
              /\ ~d.st.safety => d.st.hard = HardRow(state, in)
              /\ in.rpm >= Cal.hard_rev => d.fuel /\ d.spark
              /\ in.rpm > 0 /\ in.rpm >= Cal.soft_rev => d.fuel \/ d.spark
<1> DEFINE st == [state EXCEPT !.launch = FALSE, !.flat = FALSE]
           latch == [st EXCEPT !.safety = SafetyRow(st, in)]
           limited == [latch EXCEPT !.hard = HardRow(st, in)]
<1>1. Cal.hard_rev \in Nat /\ Cal.rev_hyst \in Nat /\ Cal.hard_rev > 0
  <2>1. Cal.hard_rev \in Nat /\ Cal.rev_hyst \in Nat /\ Cal.soft_rev \in Nat
    BY CalAssumption DEF CalFields
  <2> QED BY <2>1, LimitAssumption
<1>2. SemanticShape(st) /\ st.safety = state.safety /\ st.hard = state.hard
  BY DEF SemanticShape, SemanticFields
<1>3. d = IF in.fuel_req \/ in.spark_req THEN Decision(st, in.fuel_req, in.spark_req)
          ELSE IF latch.safety THEN Decision(latch, TRUE, TRUE)
          ELSE IF limited.hard THEN Decision(limited, TRUE, TRUE)
          ELSE LowerRows(limited, in)
  BY DEF EvaluateCutArbitration
<1> HIDE DEF st
<1>4. SafetyRow(st, in) = SafetyRow(state, in) /\ HardRow(st, in) = HardRow(state, in)
  BY <1>2 DEF SafetyRow, HardRow
<1>5. SafetyRow(st, in) \in BOOLEAN
  BY DEF SafetyRow
<1>6. HardRow(st, in) \in BOOLEAN
  BY LatchIsBoolean DEF HardRow
<1>7. SemanticShape(latch) /\ latch.safety = SafetyRow(st, in)
  BY <1>2, <1>5 DEF SemanticShape, SemanticFields
<1> HIDE DEF latch
<1>8. /\ SemanticShape(limited) /\ limited.safety = SafetyRow(st, in)
      /\ limited.hard = HardRow(st, in)
  BY <1>6, <1>7 DEF SemanticShape, SemanticFields
<1> HIDE DEF limited
<1>9. in.rpm >= Cal.hard_rev => HardRow(st, in)
  BY <1>1, <1>2, LimiterHolds DEF HardRow, SemanticShape
<1>10. CASE in.fuel_req \/ in.spark_req
  BY <1>2, <1>3, <1>10 DEF Decision
<1>11. CASE ~(in.fuel_req \/ in.spark_req) /\ (latch.safety \/ limited.hard)
  BY <1>3, <1>4, <1>7, <1>8, <1>11 DEF Decision
<1>12. CASE ~(in.fuel_req \/ in.spark_req) /\ ~latch.safety /\ ~limited.hard
  <2>1. d = LowerRows(limited, in)
    BY <1>3, <1>12
  <2>2. /\ SemanticShape(d.st) /\ d.st.safety = limited.safety /\ d.st.hard = limited.hard
        /\ in.rpm > 0 /\ in.rpm >= Cal.soft_rev => d.fuel \/ d.spark
    BY <2>1, <1>8, LowerRowsLemma
  <2> QED BY <2>2, <1>4, <1>8, <1>9, <1>12
<1> QED BY <1>10, <1>11, <1>12

-----------------------------------------------------------------------------
(* One step of the runtime. *)

OracleShape(ls) == ls.safety \in BOOLEAN /\ ls.hard \in BOOLEAN /\ ls.asked \in BOOLEAN

\* sem and orc agree, as LatchesAgree says of the two variables.
Agree(st, ls) ==
    /\ st.safety => ls.safety
    /\ ls.safety => st.safety \/ ls.asked
    /\ ~ls.safety => st.hard = ls.hard

\* Fed the same input, the runtime's arbiter and the reference arbiter keep
\* agreeing: the hard latch may differ while the reference's safety latch
\* holds, but that is released at a standstill only, where no limiter is
\* active; and a direct request, which the runtime does not latch, sets it.
LEMMA ArbitersStayTogether ==
    ASSUME NEW st, NEW ls, NEW in, SemanticShape(st), OracleShape(ls), Agree(st, ls),
           in.rpm \in Nat, in.req \in BOOLEAN, in.mode = "Off" => in.rpm = 0
    PROVE  Agree(EvaluateCutArbitration(st, in).st, OracleStep(ls, in))
<1> DEFINE d == EvaluateCutArbitration(st, in)
           o == OracleStep(ls, in)
<1>1. /\ o.safety = SafetyStep(ls, in) /\ o.hard = RevLatch(ls.hard, in.rpm, Cal.hard_rev)
      /\ o.asked = (Asks(in) \/ (ls.asked /\ SafetyStep(ls, in)))
  BY DEF OracleStep
<1>2. CASE Asks(in)
  <2>1. o.safety /\ o.asked
    BY <1>1, <1>2 DEF SafetyStep
  <2> QED BY <2>1 DEF Agree
<1>3. CASE ~Asks(in)
  <2>1. /\ d.st.safety = SafetyRow(st, in)
        /\ ~d.st.safety => d.st.hard = HardRow(st, in)
    BY <1>3, ArbitrationLemma DEF Asks
  <2>2. SafetyRow(st, in) => SafetyStep(ls, in)
    BY DEF SafetyRow, SafetyStep, Agree
  <2>3. SafetyStep(ls, in) => SafetyRow(st, in) \/ o.asked
    BY <1>1, <1>3 DEF SafetyRow, SafetyStep, Agree
  <2>4. ASSUME ~SafetyStep(ls, in)
        PROVE  HardRow(st, in) = RevLatch(ls.hard, in.rpm, Cal.hard_rev)
    <3>1. CASE ~ls.safety
      BY <3>1 DEF HardRow, RevLatch, LatchWithHysteresis, Agree
    <3>2. CASE ls.safety
      <4>1. in.rpm = 0
        BY <3>2, <2>4 DEF SafetyStep
      <4>2. Cal.hard_rev \in Nat /\ Cal.rev_hyst \in Nat /\ Cal.soft_rev \in Nat
        BY CalAssumption DEF CalFields
      <4>3. Cal.hard_rev > 0
        BY <4>2, LimitAssumption
      <4>4. ~(0 > SatSub(Cal.hard_rev, Cal.rev_hyst)) /\ ~(0 >= Cal.hard_rev)
        BY <4>2, <4>3 DEF SatSub
      <4> QED BY <4>1, <4>4 DEF HardRow, RevLatch, LatchWithHysteresis
    <3> QED BY <3>1, <3>2 DEF OracleShape
  <2> HIDE DEF d, o
  <2>5. Agree(d.st, o)
    BY <1>1, <2>1, <2>2, <2>3, <2>4 DEF Agree
  <2> QED BY <2>5 DEF d, o
<1> QED BY <1>2, <1>3

\* What a step reads of its inputs.
StepInput(c, in) == c.rpm \in Nat /\ in.req \in BOOLEAN

LatchInv == SemanticShape(sem) /\ OracleShape(orc) /\ LatchesAgree

\* step_with_validated preserves the agreement and enforces the limits.
LEMMA TakeStepLemma ==
    ASSUME LatchInv, NEW c, NEW in, StepInput(c, in), TakeStep(c, in)
    PROVE  LatchInv' /\ RevLimitsHold'
<1> DEFINE i == ComputeFuelIntent(c, in)
           si == SemanticInput(c, in)
           d == EvaluateCutArbitration(sem, si)
           quiet == ~c.request.fuel /\ ~c.request.spark
<1>1. /\ sem' = i.sem /\ engine'.rpm = c.rpm /\ request' = c.request /\ strategy' = strategy
      /\ step'.kind = i.kind /\ step'.fuel = i.fuel /\ step'.spark = i.spark
      /\ orc' = IF i.kind = "semantic" THEN OracleStep(orc, si) ELSE orc
  BY DEF TakeStep
<1>2. /\ si.rpm = c.rpm /\ si.req = in.req /\ si.mode = EnginePhase(c.auth, c.rpm)
      /\ si.fuel_req = c.request.fuel /\ si.spark_req = c.request.spark
  BY DEF SemanticInput
<1>3. si.rpm \in Nat /\ si.req \in BOOLEAN /\ (si.mode = "Off" => si.rpm = 0)
  BY <1>2 DEF StepInput, EnginePhase
<1>4. OracleShape(OracleStep(orc, si))
  <2>1. SafetyStep(orc, si) \in BOOLEAN
    BY DEF SafetyStep
  <2>2. RevLatch(orc.hard, si.rpm, Cal.hard_rev) \in BOOLEAN
    <3>1. (si.rpm > SatSub(Cal.hard_rev, Cal.rev_hyst)) \in BOOLEAN
          /\ (si.rpm >= Cal.hard_rev) \in BOOLEAN
      OBVIOUS
    <3> QED BY <3>1 DEF RevLatch
  <2>3. (Asks(si) \/ (orc.asked /\ SafetyStep(orc, si))) \in BOOLEAN
    OBVIOUS
  <2> QED BY <2>1, <2>2, <2>3 DEF OracleStep, OracleShape
<1> HIDE DEF si
<1>5. CASE strategy = "Direct"
  <2>1. i.kind = "direct" /\ i.sem = sem
    BY <1>5 DEF ComputeFuelIntent, DirectIntent, Intent
  <2> HIDE DEF i
  <2> QED BY <2>1, <1>1, <1>5 DEF LatchInv, LatchesAgree, SemanticShape, OracleShape,
                                  RevLimitsHold, ArbiterDecided
<1>6. CASE strategy # "Direct" /\ ~in.ok
  <2>1. i.kind = "failed" /\ i.sem = sem
    BY <1>6 DEF ComputeFuelIntent, SemanticIntent, Intent
  <2> HIDE DEF i
  <2> QED BY <2>1, <1>1 DEF LatchInv, LatchesAgree, SemanticShape, OracleShape,
                            RevLimitsHold, ArbiterDecided
<1>7. CASE strategy # "Direct" /\ in.ok
  <2>1. i.kind = "semantic" /\ i.sem = d.st /\ i.fuel = d.fuel /\ i.spark = d.spark
    BY <1>7 DEF ComputeFuelIntent, SemanticIntent, Intent, si
  <2> HIDE DEF i, d
  <2>2. /\ SemanticShape(d.st)
        /\ quiet => /\ c.rpm >= Cal.hard_rev => d.fuel /\ d.spark
                    /\ c.rpm > 0 /\ c.rpm >= Cal.soft_rev => d.fuel \/ d.spark
    BY <1>2, <1>3, ArbitrationLemma DEF LatchInv, d
  <2>3. ASSUME strategy = "Semantic" PROVE Agree(d.st, OracleStep(orc, si))
    <3>1. Agree(sem, orc)
      BY <2>3 DEF LatchInv, LatchesAgree, Agree
    <3> QED BY <3>1, <1>3, ArbitersStayTogether DEF LatchInv, d
  <2>4. SemanticShape(sem)' /\ OracleShape(orc)'
    BY <1>1, <1>4, <2>1, <2>2 DEF LatchInv, SemanticShape, OracleShape
  <2>5. LatchesAgree'
    BY <1>1, <2>1, <2>3 DEF LatchesAgree, Agree
  <2>6. RevLimitsHold'
    BY <1>1, <2>1, <2>2 DEF RevLimitsHold, ArbiterDecided
  <2> QED BY <2>4, <2>5, <2>6 DEF LatchInv
<1> QED BY <1>5, <1>6, <1>7

-----------------------------------------------------------------------------
(* Every call. *)

PendingShape ==
    /\ DOMAIN pending = {"rpm", "angle", "auth", "launch", "flat"}
    /\ pending.rpm \in Nat

EInv == LatchInv /\ PendingShape /\ env \in Scenarios /\ RevLimitsHold

\* A call that is no step.
LEMMA OtherCallLemma ==
    ASSUME LatchInv, step' = NoStep, UNCHANGED <<sem, orc, strategy>>
    PROVE  LatchInv' /\ RevLimitsHold'
<1>1. LatchInv'
  BY DEF LatchInv, LatchesAgree, SemanticShape, OracleShape
<1>2. RevLimitsHold'
  BY DEF RevLimitsHold, ArbiterDecided, NoStep
<1> QED BY <1>1, <1>2

\* What the scenarios supply.
LEMMA ControlLemma ==
    ASSUME env \in Scenarios, NEW control \in env.controls
    PROVE  /\ DOMAIN control = {"rpm", "angle", "tps", "map", "knock", "launch", "flat", "req",
                               "ok", "pw", "spark"}
           /\ control.req \in BOOLEAN
<1>1. control \in ControlType
  BY ScenarioAssumption
<1> QED BY <1>1 DEF ControlType

\* So do the inputs a host steps with.
LEMMA InputsLemma ==
    ASSUME env \in Scenarios, NEW in \in Inputs
    PROVE  /\ DOMAIN in = {"rpm", "angle", "tps", "map", "knock", "launch", "flat", "req",
                          "ok", "pw", "spark"}
           /\ in.rpm \in Nat /\ in.req \in BOOLEAN
<1>1. PICK control \in env.controls, rpm \in env.rpms, angle \in env.angles :
          in = InputOf(control, rpm, angle)
  BY DEF Inputs
<1>2. env.rpms \subseteq Nat
  BY ScenarioAssumption
<1>3. rpm \in Nat
  BY <1>1, <1>2
<1> QED BY <1>1, <1>3, ControlLemma DEF InputOf

\* The clamp of validate_step_scalars leaves a speed.
LEMMA InstalledLemma ==
    ASSUME NEW in, NEW auth, NEW rq, in.rpm \in Nat, in.req \in BOOLEAN
    PROVE  StepInput(Installed(in, auth, rq), in)
BY CapAssumption DEF StepInput, Installed

\* The runtime's arbiter starts in agreement with the reference.
LEMMA InitLemma == Init => EInv
<1> SUFFICES ASSUME Init PROVE EInv
  OBVIOUS
<1>1. /\ sem = NewSemanticState /\ orc = NewLogicalState /\ step = NoStep
      /\ pending = NewPending /\ env \in Scenarios
  BY DEF Init, RuntimeInit
<1>2. SemanticShape(sem) /\ OracleShape(orc) /\ LatchesAgree
  <2>1. DOMAIN sem = SemanticFields
    BY <1>1 DEF SemanticFields, NewSemanticState
  <2>2. ~sem.safety /\ ~sem.hard /\ ~sem.soft /\ sem.safety = FALSE /\ sem.hard = FALSE
        /\ sem.soft = FALSE
    BY <1>1 DEF NewSemanticState
  <2>3. orc.safety = FALSE /\ orc.hard = FALSE /\ orc.asked = FALSE
    BY <1>1 DEF NewLogicalState
  <2> QED BY <2>1, <2>2, <2>3 DEF SemanticShape, OracleShape, LatchesAgree
<1>3. PendingShape
  BY <1>1 DEF PendingShape, NewPending
<1>4. RevLimitsHold
  BY <1>1 DEF RevLimitsHold, ArbiterDecided, NoStep
<1> QED BY <1>1, <1>2, <1>3, <1>4 DEF EInv, LatchInv

\* Every call preserves the invariant: one step per action.
LEMMA NextLemma == EInv /\ [Next]_vars => EInv'
<1> SUFFICES ASSUME EInv, [Next]_vars PROVE EInv'
  OBVIOUS
<1> USE DEF EInv
<1>0. env.rpms \subseteq Nat
  BY ScenarioAssumption
<1>1. CASE Advance
  BY <1>1, OtherCallLemma DEF Advance, Board, RuntimeIdle, PendingShape
<1>2. ASSUME NEW rpm \in env.rpms, NEW angle, NEW auth, NEW captured,
             TriggerEdge(rpm, angle, auth, captured)
      PROVE  EInv'
  <2>1. env' = env /\ pending' = [pending EXCEPT !.rpm = rpm, !.angle = angle, !.auth = auth]
        /\ step' = NoStep /\ UNCHANGED <<sem, orc, strategy>>
    BY <1>2 DEF TriggerEdge, Board, RuntimeIdle, OtherCall
  <2>2. PendingShape'
    BY <2>1, <1>0 DEF PendingShape
  <2> QED BY <2>1, <2>2, OtherCallLemma
<1>3. ASSUME NEW cam, CamEdge(cam) PROVE EInv'
  <2>1. env' = env /\ step' = NoStep /\ UNCHANGED <<sem, orc, strategy>>
    BY <1>3 DEF CamEdge, Board, ObserveCam, OtherCall
  <2>2. PendingShape'
    BY <1>3 DEF CamEdge, PendingShape
  <2> QED BY <2>1, <2>2, OtherCallLemma
<1>4. ASSUME NEW rpm \in env.rpms, NEW angle, SensorSnapshotCapture(rpm, angle) PROVE EInv'
  <2>1. env' = env /\ step' = NoStep /\ UNCHANGED <<sem, orc, strategy>>
    BY <1>4 DEF SensorSnapshotCapture, Board, ApplySensorSample, OtherCall
  <2>2. PendingShape'
    BY <1>4, <1>0 DEF SensorSnapshotCapture, PendingShape
  <2> QED BY <2>1, <2>2, OtherCallLemma
<1>5. ASSUME NEW launch, NEW flat, SetShiftArming(launch, flat) PROVE EInv'
  <2>1. env' = env /\ step' = NoStep /\ UNCHANGED <<sem, orc, strategy>>
    BY <1>5 DEF SetShiftArming, Board, RuntimeIdle
  <2>2. PendingShape'
    BY <1>5 DEF SetShiftArming, PendingShape
  <2> QED BY <2>1, <2>2, OtherCallLemma
<1>6. ASSUME NEW control \in env.controls, NEW broken, Tick(control, broken) PROVE EInv'
  <2> DEFINE in == [control EXCEPT !.rpm = pending.rpm, !.angle = pending.angle,
                                   !.launch = pending.launch, !.flat = pending.flat]
  <2>1. in.rpm \in Nat /\ in.req \in BOOLEAN
    BY ControlLemma DEF PendingShape
  <2>2. /\ TakeStep(Installed(in, pending.auth, request), in)
        /\ env' = env /\ pending' = pending
    BY <1>6 DEF Tick, Board, StepWithAuthority
  <2> HIDE DEF in
  <2> QED BY <2>1, <2>2, InstalledLemma, TakeStepLemma DEF PendingShape
<1>7. ASSUME NEW in \in Inputs, NEW auth, Host, StepWithAuthority(in, auth) PROVE EInv'
  <2>1. in.rpm \in Nat /\ in.req \in BOOLEAN
    BY InputsLemma
  <2>2. TakeStep(Installed(in, auth, request), in) /\ env' = env /\ pending' = pending
    BY <1>7 DEF StepWithAuthority, Host, boardVars
  <2> QED BY <2>1, <2>2, InstalledLemma, TakeStepLemma DEF PendingShape
<1>8. ASSUME NEW in \in Inputs, NEW synced, NEW cam, HostStep(in, synced, cam) PROVE EInv'
  BY <1>7, <1>8 DEF HostStep, Step
<1>9. ASSUME NEW in \in Inputs, NEW mode \in EngineModes, NEW synced, NEW fuel, NEW spark,
             HostStepWithDifferentialInput(in, mode, synced, fuel, spark)
      PROVE  EInv'
  <2> DEFINE rq == [fault |-> IF mode = "Shutdown" THEN "Critical" ELSE "None",
                    dirty |-> request.dirty, fuel |-> fuel, spark |-> spark]
             rpm == CASE mode = "Off" -> 0
                      [] mode = "Shutdown" -> in.rpm
                      [] mode \in {"Cranking", "Running"} -> AtLeast(in.rpm, 1)
             sync == CASE mode \in {"Off", "Cranking"} -> FALSE
                       [] mode = "Running" -> TRUE
                       [] mode = "Shutdown" -> synced
             forced == [in EXCEPT !.rpm = rpm]
             auth == DeriveAuthority(engine.auth, sync, sync, rpm)
  <2>1. in.rpm \in Nat /\ in.req \in BOOLEAN
    BY InputsLemma
  <2>2. rpm \in Nat
    BY <2>1 DEF EngineModes, AtLeast
  <2>3. TakeStep(Installed(forced, auth, rq), forced) /\ env' = env
        /\ pending' = pending
    BY <1>9 DEF HostStepWithDifferentialInput, StepWithDifferentialInput, Host, boardVars
  <2> HIDE DEF rpm
  <2>4. forced.rpm \in Nat /\ forced.req \in BOOLEAN
    BY <2>1, <2>2, InputsLemma
  <2> HIDE DEF forced, auth, rq
  <2> QED BY <2>3, <2>4, InstalledLemma, TakeStepLemma DEF PendingShape
<1>10. ASSUME Host, step' = NoStep, UNCHANGED <<sem, orc, strategy>> PROVE EInv'
  BY <1>10, OtherCallLemma DEF Host, boardVars, PendingShape
<1>11. ASSUME NEW rpm, NEW angle, NEW synced, HostObserveTrigger(rpm, angle, synced) PROVE EInv'
  BY <1>10, <1>11 DEF HostObserveTrigger, ObserveTrigger, OtherCall
<1>12. ASSUME NEW cam, HostObserveCam(cam) PROVE EInv'
  BY <1>10, <1>12 DEF HostObserveCam, ObserveCam, OtherCall
<1>13. ASSUME NEW auth, HostSetEngineTimeAuthority(auth) PROVE EInv'
  BY <1>10, <1>13 DEF HostSetEngineTimeAuthority, SetEngineTimeAuthority, OtherCall
<1>14. ASSUME NEW rpm, NEW angle, HostApplySensorSample(rpm, angle) PROVE EInv'
  BY <1>10, <1>14 DEF HostApplySensorSample, ApplySensorSample, OtherCall
<1>15. ASSUME NEW rq, AnySetRequest(rq) PROVE EInv'
  BY <1>15, OtherCallLemma DEF AnySetRequest, SetRequest, OtherCall, PendingShape
<1>16. ASSUME NEW s, HostConfigureStrategy(s) PROVE EInv'
  <2>1. /\ sem' = NewSemanticState /\ orc' = NewLogicalState /\ step' = NoStep
        /\ pending' = pending /\ env' = env
    BY <1>16 DEF HostConfigureStrategy, ConfigureStrategy, Host, boardVars
  <2>2. DOMAIN sem' = SemanticFields
    BY <2>1 DEF SemanticFields, NewSemanticState
  <2>3. sem'.safety = FALSE /\ sem'.hard = FALSE /\ sem'.soft = FALSE
    BY <2>1 DEF NewSemanticState
  <2>4. orc'.safety = FALSE /\ orc'.hard = FALSE /\ orc'.asked = FALSE
    BY <2>1 DEF NewLogicalState
  <2>5. LatchInv'
    BY <2>2, <2>3, <2>4 DEF LatchInv, SemanticShape, OracleShape, LatchesAgree
  <2>6. RevLimitsHold'
    BY <2>1 DEF RevLimitsHold, ArbiterDecided, NoStep
  <2> QED BY <2>1, <2>5, <2>6 DEF PendingShape
<1>17. ASSUME NEW p, HostConfigureOutputProfile(p) PROVE EInv'
  BY <1>10, <1>17 DEF HostConfigureOutputProfile, ConfigureOutputProfile
<1>18. CASE UNCHANGED vars
  <2>1. UNCHANGED <<sem, orc, strategy, step, request, engine, pending, env>>
    BY <1>18 DEF vars
  <2> QED BY <2>1 DEF LatchInv, LatchesAgree, SemanticShape, OracleShape, PendingShape,
                      RevLimitsHold, ArbiterDecided
<1>19. env.modes \subseteq EngineModes
  BY ScenarioAssumption
<1>20. CASE Next
  BY <1>20, <1>1, <1>2, <1>3, <1>4, <1>5, <1>6, <1>7, <1>8, <1>9, <1>11, <1>12, <1>13, <1>14,
     <1>15, <1>16, <1>17, <1>19 DEF Next, HostStepWithAuthority
<1> QED BY <1>18, <1>20

\* Whatever calls a board or a host makes, the runtime's latches follow the
\* reference arbiter's, which runs on every step: the safety latch is the same
\* but for a direct request since its last release, the hard limiter the same
\* whenever the reference holds no safety latch.
THEOREM LatchesAlwaysAgree == Spec => []LatchesAgree
<1>1. EInv => LatchesAgree
  BY DEF EInv, LatchInv
<1> QED BY <1>1, InitLemma, NextLemma, PTL DEF Spec

\* Whatever the arbiter's latches and counters have come to be, no step the
\* arbiter decides lets an engine above its limits run uncut.
THEOREM RevLimitsAlwaysHold == Spec => []RevLimitsHold
<1>1. EInv => RevLimitsHold
  BY DEF EInv
<1> QED BY <1>1, InitLemma, NextLemma, PTL DEF Spec
=============================================================================
