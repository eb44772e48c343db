------------------------------ MODULE MCTiming ------------------------------
(* The timing side of a board for TLC, one part at a time: "outputs", the     *)
(* scheduled outputs of MCOutputs, and "signals", the signals that come in    *)
(* at the compatibility core.                                                 *)
EXTENDS MCOutputs, CompatSignals

VARIABLE part   \* "outputs" or "signals"

MCInit ==
    /\ part \in {"outputs", "signals"}
    /\ Init /\ SignalInit
    /\ part # "signals" => signal = "capture" /\ capture.want = 0
    /\ signal # "crank" => crank.pos = 1
    /\ signal # "capture" => capture.want = 0

MCNext ==
    \/ part = "outputs" /\ Next /\ UNCHANGED <<part, signalvars>>
    \/ part = "signals" /\ SignalNext /\ UNCHANGED <<part, vars>>

MCSpec == MCInit /\ [][MCNext]_<<part, vars, signalvars>>
=============================================================================
