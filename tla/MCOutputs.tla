------------------------------ MODULE MCOutputs -----------------------------
(* TLC instances of OutputScheduler: one injector and one ignition output.  *)
(* The permit masks leave out one group, or both.                           *)
EXTENDS DrainLoop

CONSTANTS inj, ign

MCGroup == [o \in Outputs |-> IF o = ign THEN "Ignition" ELSE "Injector"]
MCMasks == {{}, {"Injector"}}
=============================================================================
