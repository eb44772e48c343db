----------------------------- MODULE CutOracle ------------------------------
(***************************************************************************)
(* The latches of the reference arbiter of crates/spec/src, which the      *)
(* repository calls the spec oracle: safety.rs and the hard limit of       *)
(* rev_limit.rs.  `step` of spec_oracle.rs runs both on every step and only*)
(* then chooses a row, so neither ever goes stale.  `req` stands for the   *)
(* latched sensor-plausibility fault, the oracle's counterpart of the      *)
(* runtime's safety_latch_request; the runtime's direct requests are the   *)
(* fields fuel_cut and spark_cut of the oracle's input, which it latches.  *)
(* History: `asked` says that one of those came since the latch was last   *)
(* released.                                                               *)
(***************************************************************************)
EXTENDS CutArbiter

NewLogicalState == [safety |-> FALSE, hard |-> FALSE, asked |-> FALSE]
LogicalType == [safety : BOOLEAN, hard : BOOLEAN, asked : BOOLEAN]

Asks(in) == in.fuel_req \/ in.spark_req

SafetyStep(ls, in) ==
    \/ Asks(in) \/ in.mode = "Shutdown" \/ in.req
    \/ ls.safety /\ in.mode # "Off"

RevLatch(active, rpm, threshold) ==
    IF active THEN rpm > SatSub(threshold, Cal.rev_hyst) ELSE rpm >= threshold

OracleStep(ls, in) ==
    [safety |-> SafetyStep(ls, in), hard |-> RevLatch(ls.hard, in.rpm, Cal.hard_rev),
     asked |-> Asks(in) \/ (ls.asked /\ SafetyStep(ls, in))]
=============================================================================
