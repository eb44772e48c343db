------------------------------- MODULE MCWheel ------------------------------
(* TLC instance of TriggerWheel: a wheel of 4 teeth with 1 missing whose     *)
(* teeth take 3 or 4 ticks, with spurious edges 0 or 2 ticks after an edge;  *)
(* or no wheel, and edges after any of a few intervals.  Beside it the       *)
(* compatibility core, one caller of its monitors or its corrections at a    *)
(* time.                                                                     *)
EXTENDS TriggerWheel, CompatSafety, CompatTrims

VARIABLE part   \* "wheel", "monitors" or "trims"

MCIntervals == {0, 2, 3, 4}
MCGlitches == {0, 2}
MCToothTimes == {3, 4}

NoCalls == [use |-> "", rpms |-> {0}, volts |-> {}, maps |-> {1000}, tps |-> {0}, pedals |-> {}, idles |-> {},
            iats |-> {25}, others |-> {}, enables |-> {TRUE}, diags |-> {FALSE}, emergencies |-> {FALSE}, cfg |-> DefaultLimits,
            elapses |-> {0, 1, 2}]

\* One monitor at a time, every reading on both sides of each threshold.
MonitorUses ==
    {[NoCalls EXCEPT !.use = "power", !.volts = {7000, 9000, 11000, 13000, 17000}],
     [NoCalls EXCEPT !.use = "load", !.rpms = {3000, 4000}, !.enables = BOOLEAN, !.diags = BOOLEAN],
     [NoCalls EXCEPT !.use = "plausibility", !.rpms = {1000}, !.maps = {300, 950}, !.tps = {10, 80}],
     [NoCalls EXCEPT !.use = "plausibility", !.rpms = {900, 1000}, !.maps = {300}, !.tps = {10, 80},
                     !.enables = BOOLEAN, !.elapses = {1, 2}],
     [NoCalls EXCEPT !.use = "sync"]}

\* The three presets of the rev limiter and the two configurations that do not
\* cut, under full pedal; the other sources of torque in a few combinations;
\* and full load in warm and in cold air.
LimitUses ==
    {[NoCalls EXCEPT !.use = "limits", !.elapses = {0}, !.rpms = {400, c.soft - 1, c.soft, c.max}, !.tps = {90},
                     !.volts = {9000}, !.pedals = {100}, !.maps = {700}, !.cfg = c] :
        c \in {DefaultLimits, RaceLimits, LaunchLimits, RetardLimits, OneCutLimits}}
    \cup {[NoCalls EXCEPT !.use = "limits", !.elapses = {0}, !.rpms = {0, 800, 4000},
                          !.pedals = p, !.idles = i, !.others = o] :
            <<p, i, o>> \in {<<{100}, {850}, {"Over"}>>, <<{50}, {}, {"Knock", "Over"}>>,
                          <<{}, {}, {"Knock", "Traction", "Grip"}>>, <<{}, {900}, {"AntiStall"}>>}}
    \cup {[NoCalls EXCEPT !.use = "limits", !.elapses = {0}, !.rpms = {3000, 4000}, !.iats = {25, -10},
                          !.pedals = {30, 100}, !.maps = {900, 1000}, !.others = {"Over"}, !.emergencies = BOOLEAN]}

MCMonitorCallers == MonitorUses \cup LimitUses

NoTrim == [use |-> "", steps |-> {0, 1, 2}, errors |-> {}, kp |-> 50, ki |-> 0, rpms |-> {}, loads |-> {400},
           tps |-> {0}, maps |-> {1000}, us |-> 20000]
MCTrimCallers ==
    {[NoTrim EXCEPT !.use = "knock"], [NoTrim EXCEPT !.use = "dfco"],
     [NoTrim EXCEPT !.use = "enrichment", !.tps = {0, 1, 30}, !.maps = {1000, 1001}],
     [NoTrim EXCEPT !.use = "enrichment", !.maps = {960, 1000}, !.us = 1000],
     [NoTrim EXCEPT !.use = "lambda", !.errors = {-4, 0, 6}, !.rpms = {2000, 2300}, !.steps = {2}],
     [NoTrim EXCEPT !.use = "lambda", !.errors = {-4, 0, 6}, !.rpms = {2000}, !.loads = {400, 460}, !.steps = {2}],
     [NoTrim EXCEPT !.use = "lambda", !.errors = {-3, 6}, !.rpms = {2000}, !.steps = {4}, !.ki = 10000]}

wheelvars == <<vars, wheel>>
MCVars == <<part, wheelvars, compatvars, trimvars>>

MCInit ==
    /\ part \in {"wheel", "monitors", "trims"}
    /\ WheelInit /\ CompatInit /\ TrimInit
    /\ part # "wheel" => ~profiled /\ ~mounted /\ pos = 1
    /\ part # "monitors" => caller.use = "sync"
    /\ part # "trims" => driver.use = "knock"

MCNext ==
    \/ part = "wheel" /\ WheelNext /\ UNCHANGED <<part, compatvars, trimvars>>
    \/ part = "monitors" /\ CompatNext /\ UNCHANGED <<part, wheelvars, trimvars>>
    \/ part = "trims" /\ TrimNext /\ UNCHANGED <<part, wheelvars, compatvars>>

MCSpec == MCInit /\ [][MCNext]_MCVars

\* The wheel alone.
MCWheelSpec == MCInit /\ part = "wheel" /\ [][MCNext]_MCVars
=============================================================================
