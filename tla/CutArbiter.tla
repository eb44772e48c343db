----------------------------- MODULE CutArbiter -----------------------------
(***************************************************************************)
(* The cut arbiter of crates/runtime/src/semantic/fuel.rs: one call of     *)
(* evaluate_cut_arbitration per control step decides whether fuel and      *)
(* spark are cut.  Its eight rows are tried in order and the first that    *)
(* cuts returns, so the latches of the rows below it keep the value of an  *)
(* earlier step.                                                           *)
(*                                                                         *)
(* A state is the part of RuntimeSemanticState the arbiter owns.  An input *)
(* is [mode, rpm, tps, map, knock, launch, flat, req, fuel_req, spark_req].*)
(* The fields fuel_cut and spark_cut of RuntimeSemanticInputSnapshot are   *)
(* left out: semantic_input_for_strategy always passes false.              *)
(***************************************************************************)
EXTENDS Integers

CONSTANTS
    Cal,        \* the calibration record
    CountMax    \* u16::MAX, at which the cycle counters saturate

EngineModes == {"Off", "Cranking", "Running", "Shutdown"}

CalFields == {"hard_rev", "soft_rev", "rev_hyst", "launch_rpm", "launch_cycles", "flat_rpm",
              "flat_cycles", "dfco_entry_rpm", "dfco_exit_rpm", "dfco_entry_tps",
              "dfco_exit_tps", "dfco_entry_map", "dfco_delay", "knock_threshold",
              "knock_step", "knock_max", "knock_recovery", "knock_delay"}

ASSUME CalAssumption == Cal \in [CalFields -> Nat] /\ CountMax \in Nat \ {0}
\* validate_calibration refuses any other limits (crates/spec/src/validation.rs).
ASSUME LimitAssumption == Cal.hard_rev > Cal.soft_rev /\ Cal.rev_hyst > 0
\* At u16::MAX the code's `cycles + 1` overflows.
ASSUME CyclesAssumption == Cal.launch_cycles < CountMax /\ Cal.flat_cycles < CountMax

ArbiterInput == [mode : EngineModes, rpm : Nat, tps : Nat, map : Nat, knock : Nat,
                 launch : BOOLEAN, flat : BOOLEAN, req : BOOLEAN,
                 fuel_req : BOOLEAN, spark_req : BOOLEAN]

SemanticType ==
    [safety : BOOLEAN, hard : BOOLEAN, soft : BOOLEAN, launch : BOOLEAN, flat : BOOLEAN,
     dfco : BOOLEAN, dfco_count : 0..CountMax, launch_count : 0..CountMax,
     flat_count : 0..CountMax, retard : Nat, recovery : 0..CountMax]

NewSemanticState ==
    [safety |-> FALSE, hard |-> FALSE, soft |-> FALSE, launch |-> FALSE, flat |-> FALSE,
     dfco |-> FALSE, dfco_count |-> 0, launch_count |-> 0, flat_count |-> 0,
     retard |-> 0, recovery |-> 0]

Increment(n) == IF n < CountMax THEN n + 1 ELSE n
SatSub(a, b) == IF a > b THEN a - b ELSE 0

\* Mutant of LatchWithHysteresis: entry is strict, as release is.
LatchStrict(current, value, threshold, hysteresis) ==
    IF current THEN value > SatSub(threshold, hysteresis) ELSE value > threshold

LatchWithHysteresis(current, value, threshold, hysteresis) ==
    IF current THEN value > SatSub(threshold, hysteresis) ELSE value >= threshold

-----------------------------------------------------------------------------
(* The rows. *)

\* Mutant of SafetyRow: the latch lets go as soon as nothing asks for it.
SafetyRowUnlatched(st, in) == in.mode = "Shutdown" \/ in.req

SafetyRow(st, in) ==
    IF st.safety THEN ~(in.mode = "Off" /\ ~in.req)
    ELSE in.mode = "Shutdown" \/ in.req

HardRow(st, in) == LatchWithHysteresis(st.hard, in.rpm, Cal.hard_rev, Cal.rev_hyst)
SoftRow(st, in) == LatchWithHysteresis(st.soft, in.rpm, Cal.soft_rev, Cal.rev_hyst)

\* The cut pattern of launch and flat shift: `cycles` cuts, then one without.
\* Nothing in the runtime advances the counter it is indexed with.
InCutPhase(count, cycles) == cycles = 0 \/ count % (cycles + 1) < cycles

LaunchRow(st, in) ==
    in.launch /\ in.rpm >= Cal.launch_rpm /\ InCutPhase(st.launch_count, Cal.launch_cycles)
FlatRow(st, in) ==
    in.flat /\ in.rpm >= Cal.flat_rpm /\ InCutPhase(st.flat_count, Cal.flat_cycles)

DfcoQualifies(in) ==
    /\ in.rpm >= Cal.dfco_entry_rpm
    /\ in.tps <= Cal.dfco_entry_tps
    /\ in.map <= Cal.dfco_entry_map
DfcoKept(in) == in.rpm > Cal.dfco_exit_rpm /\ in.tps <= Cal.dfco_exit_tps

\* Outside Running the row is skipped and its state kept; leaving DFCO keeps
\* the qualification count.
DfcoRow(st, in) ==
    IF in.mode # "Running" THEN st
    ELSE IF st.dfco THEN [st EXCEPT !.dfco = DfcoKept(in)]
    ELSE IF DfcoQualifies(in)
         THEN [st EXCEPT !.dfco_count = Increment(@),
                         !.dfco = Increment(st.dfco_count) >= Cal.dfco_delay]
         ELSE [st EXCEPT !.dfco_count = 0]

Retarded(r) == IF r + Cal.knock_step > Cal.knock_max THEN Cal.knock_max ELSE r + Cal.knock_step

KnockRow(st, in) ==
    IF in.knock >= Cal.knock_threshold
    THEN [st EXCEPT !.recovery = 0, !.retard = IF @ < Cal.knock_max THEN Retarded(@) ELSE @]
    ELSE IF st.retard > 0 /\ st.recovery < Cal.knock_delay
    THEN [st EXCEPT !.recovery = Increment(@)]
    ELSE [st EXCEPT !.recovery = 0, !.retard = SatSub(@, Cal.knock_recovery)]

-----------------------------------------------------------------------------
(* evaluate_cut_arbitration: the next state and the two cuts. *)

Decision(st, fuel, spark) == [st |-> st, fuel |-> fuel, spark |-> spark]

\* Rows 4 to 8, for a state whose safety and hard latches are both clear.
LowerRows(st, in) ==
    IF LaunchRow(st, in) THEN Decision([st EXCEPT !.launch = TRUE], TRUE, TRUE)
    ELSE IF FlatRow(st, in) THEN Decision([st EXCEPT !.flat = TRUE], TRUE, TRUE)
    ELSE LET s == DfcoRow(st, in) IN
         IF in.mode = "Running" /\ s.dfco THEN Decision(s, TRUE, FALSE)
         ELSE LET u == [s EXCEPT !.soft = SoftRow(s, in)] IN
              IF u.soft THEN Decision(u, FALSE, TRUE)
              ELSE Decision(KnockRow(u, in), FALSE, FALSE)

EvaluateCutArbitration(state, in) ==
    LET st == [state EXCEPT !.launch = FALSE, !.flat = FALSE]
        latched == [st EXCEPT !.safety = SafetyRow(st, in)]
        limited == [latched EXCEPT !.hard = HardRow(st, in)]
    IN  IF in.fuel_req \/ in.spark_req THEN Decision(st, in.fuel_req, in.spark_req)
        ELSE IF latched.safety THEN Decision(latched, TRUE, TRUE)
        ELSE IF limited.hard THEN Decision(limited, TRUE, TRUE)
        ELSE LowerRows(limited, in)
=============================================================================
