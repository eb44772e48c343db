---------------------------- MODULE CompatSafety ----------------------------
(***************************************************************************)
(* The safety monitors of the compatibility core (crates/compat): what     *)
(* EcuState latches from the battery voltage, the load sensor, the         *)
(* plausibility of throttle against pressure and the loss of trigger sync, *)
(* how the rev limiter and the torque arbiter act on it, and the master    *)
(* check before an injection.                                              *)
(*                                                                         *)
(* Every time stamp is a u32 of microseconds: it wraps, and several of the *)
(* monitors read a stamp of zero as "not started".                         *)
(***************************************************************************)
EXTENDS Integers, Sequences, FiniteSetsExt, TLC

CONSTANTS
    U32,                        \* where the microsecond timer wraps
    SyncWindow,                 \* SYNC_RECOVERY_WINDOW_US
    VoltRecovery,               \* RECOVERY_TIME_US
    LoadDebounce, LoadRecovery, \* of LoadFailureConfig
    PlausDebounce,              \* of PlausibilityConfig
    MonitorCallers                        \* the callers: which monitors one drives, with which inputs

VARIABLES
    caller,     \* which monitors it drives, the time between its calls and their arguments
    clk,
    inputs,     \* [rpm, map, tps, iat, synced, mapDiag, enable, emergency]
    power,      \* VoltageMonitor
    load,       \* LoadFailureTracker
    plaus,      \* PlausibilityState
    losses,     \* SyncLossTracker
    flood,      \* FloodClearState::active
    limiter,    \* RevLimiterState
    torque,     \* TorqueController
    span        \* history: how long the observed conditions have held

compatvars == <<caller, clk, inputs, power, load, plaus, losses, flood, limiter, torque, span>>

Wrapped(t) == (clk' - t) % U32
Elapse == \E dt \in caller.elapses : clk' = (clk + dt) % U32
Dt == (clk' - clk) % U32

\* How long a condition has held at every call that observed it: -1 while it
\* does not hold; a call that does not look at it leaves the clock running.
SpanCap == Max({VoltRecovery, LoadRecovery, LoadDebounce, PlausDebounce})
Running(s) == IF s < 0 THEN s ELSE Min({s + Dt, SpanCap})
Held(s, seen) == CASE seen = "holds" -> IF s < 0 THEN 0 ELSE Running(s)
                   [] seen = "breaks" -> -1
                   [] seen = "unseen" -> Running(s)

-----------------------------------------------------------------------------
(* VoltageMonitor. *)

Critical(mv) == mv < 8000
Warning(mv) == mv >= 8000 /\ mv < 10000
Good(mv) == mv >= 11500 /\ mv <= 16500
Over(mv) == mv > 16500

\* Three critical readings in a row cut the fuel; one reading above gives it
\* back at the warning level; limp mode lasts until the voltage has been good
\* for VoltRecovery.  An overvoltage replaces the state and keeps the cuts.
RecoverVolts(p, mv) ==
    LET start == CASE ~Good(mv) -> 0
                   [] p.start = 0 /\ p.state # "Normal" -> clk'
                   [] OTHER -> p.start
        state == IF p.state = "Overvoltage" THEN "Normal" ELSE p.state
    IN  IF start # 0 /\ Wrapped(start) >= VoltRecovery
        THEN [state |-> "Normal", start |-> 0, count |-> 0, cut |-> FALSE, limp |-> FALSE]
        ELSE [p EXCEPT !.state = state, !.start = start, !.count = 0]

\* Mutant of VoltageUpdate: a reading between the warning and the recovery
\* level leaves the recovery timer running.
VoltageUpdateKeepsTimer(p, mv) ==
    CASE Over(mv) -> [p EXCEPT !.state = "Overvoltage", !.count = 0]
      [] Critical(mv) -> IF p.count + 1 < 3 THEN [p EXCEPT !.count = @ + 1]
                         ELSE [state |-> "Critical", start |-> 0, count |-> 3, cut |-> TRUE, limp |-> TRUE]
      [] Warning(mv) -> [state |-> "Warning", start |-> 0, count |-> 0, cut |-> FALSE, limp |-> TRUE]
      [] OTHER -> RecoverVolts(p, 12000)

VoltageUpdate(p, mv) ==
    CASE Over(mv) -> [p EXCEPT !.state = "Overvoltage", !.count = 0]
      [] Critical(mv) -> IF p.count + 1 < 3 THEN [p EXCEPT !.count = @ + 1]
                         ELSE [state |-> "Critical", start |-> 0, count |-> 3, cut |-> TRUE, limp |-> TRUE]
      [] Warning(mv) -> [state |-> "Warning", start |-> 0, count |-> 0, cut |-> FALSE, limp |-> TRUE]
      [] OTHER -> RecoverVolts(p, mv)

update_voltage ==
    /\ caller.use \in {"power", "limits"}
    /\ Elapse
    /\ \E mv \in caller.volts :
        /\ power' = VoltageUpdate(power, mv)
        /\ span' = [span EXCEPT !.good = Held(@, CASE Good(mv) -> "holds"
                                                   [] Over(mv) \/ (Critical(mv) /\ power'.count < 3) -> "unseen"
                                                   [] OTHER -> "breaks")]
    /\ UNCHANGED <<caller, inputs, load, plaus, losses, flood, limiter, torque>>

-----------------------------------------------------------------------------
(* LoadFailureTracker. *)

LoadFault == inputs.mapDiag /\ inputs.rpm >= 4000

LoadCheck(t) ==
    LET starts == LoadFault /\ ~t.pending
        enters == LoadFault /\ t.pending /\ ~t.limp /\ Wrapped(t.detected) >= LoadDebounce
        recovers == ~LoadFault /\ t.limp
        leaves == recovers /\ t.good # 0 /\ Wrapped(t.good) >= LoadRecovery
    IN  [limp |-> (t.limp \/ enters) /\ ~leaves,
         pending |-> LoadFault,
         detected |-> CASE ~LoadFault -> 0 [] starts -> clk' [] OTHER -> t.detected,
         good |-> CASE LoadFault \/ leaves -> 0
                    [] recovers /\ t.good = 0 -> clk'
                    [] OTHER -> t.good]

\* A disabled check answers FALSE and leaves the tracker, its limp included.
check_load_failure ==
    /\ caller.use = "load"
    /\ Elapse
    /\ load' = IF inputs.enable THEN LoadCheck(load) ELSE load
    /\ span' = LET seen == CASE ~inputs.enable -> "unseen" [] LoadFault -> "holds" [] OTHER -> "breaks"
                   unseen == CASE seen = "holds" -> "breaks" [] seen = "breaks" -> "holds" [] OTHER -> seen
               IN  [span EXCEPT !.bad = Held(@, seen), !.good = Held(@, unseen)]
    /\ UNCHANGED <<caller, inputs, power, plaus, losses, flood, limiter, torque>>

-----------------------------------------------------------------------------
(* PlausibilityState. *)

detect_fault == CASE inputs.tps >= 80 /\ inputs.map <= 300 -> "TpsHighMapLow"
                  [] inputs.tps <= 10 /\ inputs.map >= 950 -> "TpsLowMapHigh"
                  [] OTHER -> "None"

\* The fault kept is the first one confirmed.  Below 1000 rpm nothing is
\* looked at: a fault that was pending is forgotten, a recovery goes on.
PlausibilityCheck(s) ==
    LET fault == detect_fault
        same == s.pending = fault
        clear == IF s.clear = 0 THEN clk' ELSE s.clear
    IN  CASE inputs.rpm < 1000 -> [s EXCEPT !.pending = "None"]
          [] inputs.rpm >= 1000 /\ fault # "None" ->
                [s EXCEPT !.clear = 0, !.pending = fault,
                          !.start = IF same THEN @ ELSE clk',
                          !.confirmed = IF same /\ @ = "None" /\ Wrapped(s.start) >= PlausDebounce
                                        THEN fault ELSE @]
          [] inputs.rpm >= 1000 /\ fault = "None" ->
                CASE s.confirmed = "None" -> [s EXCEPT !.pending = "None"]
                  [] s.confirmed # "None" /\ Wrapped(clear) >= PlausDebounce ->
                        [s EXCEPT !.pending = "None", !.confirmed = "None", !.clear = 0]
                  [] OTHER -> [s EXCEPT !.pending = "None", !.clear = clear]

check_plausibility ==
    /\ caller.use = "plausibility"
    /\ Elapse
    /\ plaus' = IF inputs.enable THEN PlausibilityCheck(plaus) ELSE plaus
    /\ span' = LET fault == detect_fault
                   looked == inputs.enable /\ inputs.rpm >= 1000
               IN  [kind |-> CASE ~inputs.enable -> span.kind [] inputs.rpm < 1000 -> "None" [] OTHER -> fault,
                    bad |-> CASE ~inputs.enable -> Held(span.bad, "unseen")
                              [] inputs.rpm < 1000 \/ fault = "None" -> -1
                              [] OTHER -> Held(IF fault = span.kind THEN span.bad ELSE -1, "holds"),
                    good |-> Held(span.good, CASE ~looked -> "unseen" [] fault = "None" -> "holds"
                                               [] OTHER -> "breaks")]
    /\ UNCHANGED <<caller, inputs, power, load, losses, flood, limiter, torque>>

-----------------------------------------------------------------------------
(* SyncLossTracker, and FloodClearState. *)

SyncLoss(l) ==
    IF l.count = 0 \/ Wrapped(l.window) > SyncWindow
    THEN [l EXCEPT !.count = 1, !.window = clk']
    ELSE [l EXCEPT !.count = Min({@ + 1, 3}), !.shutdown = @ \/ l.count + 1 >= 3]

\* The ages of the last two losses, up to where the timer wraps.
Aged(ages) == [i \in DOMAIN ages |-> Min({ages[i] + Dt, U32})]

record_sync_loss ==
    /\ caller.use = "sync"
    /\ Elapse
    /\ losses' = [SyncLoss(losses) EXCEPT !.ages = LET a == Aged(losses.ages) IN
                    <<0>> \o SubSeq(a, 1, Min({Len(a), 1}))]
    /\ inputs' = [inputs EXCEPT !.synced = FALSE]
    /\ UNCHANGED <<caller, power, load, plaus, flood, limiter, torque, span>>

record_sync_recovery ==
    /\ caller.use = "sync"
    /\ Elapse
    /\ inputs' = [inputs EXCEPT !.synced = TRUE]
    /\ losses' = [losses EXCEPT !.ages = Aged(@)]
    /\ UNCHANGED <<caller, power, load, plaus, flood, limiter, torque, span>>

\* reset_window, after a long stretch of good sync; clear_shutdown on a key cycle.
reset_sync_loss_window ==
    /\ caller.use = "sync" /\ inputs.synced
    /\ Elapse
    /\ \E key \in BOOLEAN :
        losses' = [count |-> 0, window |-> 0, ages |-> <<>>, shutdown |-> losses.shutdown /\ ~key]
    /\ UNCHANGED <<caller, inputs, power, load, plaus, flood, limiter, torque, span>>

update_flood_clear ==
    /\ caller.use = "limits"
    /\ flood' = (inputs.rpm < 500 /\ inputs.tps >= 90)
    /\ UNCHANGED <<caller, clk, inputs, power, load, plaus, losses, limiter, torque, span>>

-----------------------------------------------------------------------------
(* The rev limiter. *)

DefaultLimits == [max |-> 7000, soft |-> 6500, strategy |-> "SoftCut", cylinders |-> 2, retard |-> 15, hyst |-> 200]
RaceLimits == [max |-> 8000, soft |-> 7800, strategy |-> "HardCut", cylinders |-> 4, retard |-> 0, hyst |-> 200]
RetardLimits == [DefaultLimits EXCEPT !.strategy = "IgnitionRetard"]
OneCutLimits == [RaceLimits EXCEPT !.cylinders = 1]
LaunchLimits == [max |-> 4000, soft |-> 3900, strategy |-> "Combined", cylinders |-> 1, retard |-> 10, hyst |-> 100]

NoLimit == [active |-> FALSE, cut |-> 0, retard |-> 0]
Percent(rpm, c) == ((rpm - c.soft) * 100) \div (c.max - c.soft)

apply_hard_cut(c) == [active |-> TRUE, cut |-> Min({(c.cylinders * 100) \div 4, 100}), retard |-> 0]
apply_soft_cut(rpm, c) ==
    [active |-> TRUE, retard |-> 0,
     cut |-> CASE rpm < c.soft -> 0 [] rpm >= c.max -> 100 [] OTHER -> Percent(rpm, c)]
apply_ignition_retard(c) == [active |-> TRUE, cut |-> 0, retard |-> c.retard]
apply_combined(rpm, c) ==
    [active |-> TRUE, cut |-> IF rpm >= c.max THEN 50 ELSE 0,
     retard |-> CASE rpm < c.soft -> 0 [] rpm >= c.max -> c.retard
                  [] OTHER -> (c.retard * Percent(rpm, c)) \div 100]

\* Limiting starts at the activation speed and ends a hysteresis below it.
update_limiter(rpm, c, s) ==
    LET activation == IF c.strategy \in {"SoftCut", "Combined"} THEN c.soft ELSE c.max
    IN  IF (s.active /\ rpm < Max({activation - c.hyst, 0})) \/ (~s.active /\ rpm < activation)
        THEN NoLimit
        ELSE CASE c.strategy = "HardCut" -> apply_hard_cut(c)
               [] c.strategy = "SoftCut" -> apply_soft_cut(rpm, c)
               [] c.strategy = "IgnitionRetard" -> apply_ignition_retard(c)
               [] c.strategy = "Combined" -> apply_combined(rpm, c)

should_inject(s) == ~s.active \/ s.cut < 50

update_rev_limiter ==
    /\ caller.use = "limits"
    /\ limiter' = update_limiter(inputs.rpm, caller.cfg, limiter)
    /\ UNCHANGED <<caller, clk, inputs, power, load, plaus, losses, flood, torque, span>>

should_inject_with_all_safety ==
    /\ inputs.synced /\ ~inputs.emergency
    /\ ~power.cut
    /\ ~flood /\ ~losses.shutdown
    /\ should_inject(limiter)

-----------------------------------------------------------------------------
(* The torque controller. *)

Sources == {"Driver", "Idle", "RevLimiter", "Traction", "Limp", "External", "AntiStall", "Knock"}
Priority == [Driver |-> 50, Idle |-> 40, RevLimiter |-> 200, Traction |-> 100, Limp |-> 250,
             External |-> 60, AntiStall |-> 30, Knock |-> 180]
Unlimited == 32767
NoRequest == [active |-> FALSE, nm |-> 0]
Request(on, nm) == IF on THEN [active |-> TRUE, nm |-> nm] ELSE [active |-> FALSE, nm |-> Unlimited]

\* i32 division truncates towards zero.
Trunc(a, b) == IF a >= 0 THEN a \div b ELSE -((-a) \div b)
Clamp(x, lo, hi) == Max({lo, Min({x, hi})})

PercentOf(x, percent) == Trunc(x * percent, 100)

rpm_torque_factor(rpm) ==
    CASE rpm = 0 -> 0
      [] rpm > 0 /\ rpm <= 4000 -> (rpm * 100) \div 4000
      [] OTHER -> Clamp(100 - ((rpm - 4000) * 10) \div 1000, 50, 100)
iat_torque_factor(iat) == Clamp(100 + Trunc((25 - iat) * 3, 10), 80, 115)

\* In 0.1 Nm, of an engine of 2000 * 0.1 Nm.  The product of 2000 and the three
\* percentages is an i32 divided by 10^6: it turns negative above 2^31 / 2000 and
\* starts again from nothing above 2^32 / 2000.
percents(rpm, map, iat) == ((map * 100) \div 1000) * rpm_torque_factor(rpm) * iat_torque_factor(iat)
Overflows(p) == p > 1073741
estimate_max_torque(rpm, map, iat) ==
    LET p == percents(rpm, map, iat)
        wrapped == CASE ~Overflows(p) -> p
                     [] Overflows(p) /\ p <= 2147483 -> 0
                     [] p > 2147483 -> p - 2147484
    IN  Min({wrapped \div 500, 2000})

Active == {s \in Sources : torque.requests[s].active}
High == {s \in Active : Priority[s] >= Priority["RevLimiter"] /\ torque.requests[s].nm < Unlimited}

\* Mutant of arbitrate: the low-priority requests are not looked at.
arbitrate_high_only(max) ==
    IF High # {}
    THEN LET top == CHOOSE s \in High : \A o \in High : Priority[o] <= Priority[s]
         IN  Max({Min({torque.requests[top].nm, max}), 0})
    ELSE max

\* A request of the priority of the rev limiter or above wins whatever the
\* others ask for, the highest of them first; else the least request wins.
arbitrate(max) ==
    IF High # {}
    THEN LET top == CHOOSE s \in High : \A o \in High : Priority[o] <= Priority[s]
         IN  Max({Min({torque.requests[top].nm, max}), 0})
    ELSE Max({Min({max} \cup {torque.requests[s].nm : s \in Active}), 0})

update_torque ==
    /\ caller.use = "limits"
    /\ LET max == estimate_max_torque(inputs.rpm, inputs.map, inputs.iat)
       IN  torque' = [torque EXCEPT !.max = max, !.target = arbitrate(max)]
    /\ UNCHANGED <<caller, clk, inputs, power, load, plaus, losses, flood, limiter, span>>

\* Timing is retarded first, half a degree a percent up to 15 degrees; then
\* fuel is taken away, down to 70 percent; then it is cut.
convert(target, max) ==
    LET reduction == CASE max <= 0 \/ target <= 0 -> 100
                       [] max > 0 /\ target >= max -> 0
                       [] OTHER -> ((max - target) * 100) \div max
    IN  CASE reduction >= 100 -> [fuel |-> 0, retard |-> 0, cut |-> TRUE]
          [] reduction <= 30 -> [fuel |-> 100, retard |-> reduction * 5, cut |-> FALSE]
          [] reduction > 30 /\ reduction <= 60 -> [fuel |-> 130 - reduction, retard |-> 150, cut |-> FALSE]
          [] reduction > 60 /\ reduction < 100 -> [fuel |-> 0, retard |-> 150, cut |-> TRUE]

Requested(req) ==
    /\ torque' = [torque EXCEPT !.requests = req @@ torque.requests]
    /\ UNCHANGED <<caller, clk, inputs, power, load, plaus, losses, flood, limiter, span>>

request_driver_torque ==
    /\ caller.use = "limits"
    /\ \E pedal \in caller.pedals :
        Requested("Driver" :> Request(TRUE, (torque.max * pedal) \div 100))

request_idle_torque ==
    /\ caller.use = "limits"
    /\ \E target \in caller.idles :
        Requested("Idle" :> Request(TRUE, Clamp(Trunc((target - inputs.rpm) * 50, 100), -50, 50)))

\* knock_torque_request, traction_torque_request and anti_stall_torque_request;
\* clear_source when an intervention is over.
knock_torque(retard) == Request(TRUE, Trunc(torque.max * (100 - (retard * 2) \div 10), 100))
traction_torque(slip) == Request(slip # 0, Trunc(torque.max * (100 - Min({slip, 100})), 100))
anti_stall_torque(stall) ==
    Request(inputs.rpm < stall, Trunc(100 * Min({((stall - inputs.rpm) * 100) \div (stall \div 2), 100}), 100))

request_intervention ==
    /\ caller.use = "limits"
    /\ \E r \in caller.others :
        Requested(CASE r = "Knock" -> "Knock" :> knock_torque(150)
                    [] r = "Traction" -> "Traction" :> traction_torque(40)
                    [] r = "Grip" -> "Traction" :> traction_torque(0)
                    [] r = "AntiStall" -> "AntiStall" :> anti_stall_torque(900)
                    [] r = "Over" -> [x \in {"Knock", "Traction", "AntiStall", "Driver", "Idle"} |->
                                        [active |-> FALSE, nm |-> Unlimited]])

apply_safety_torque_limits ==
    /\ caller.use = "limits"
    /\ Requested("RevLimiter" :> Request(limiter.active, 0)
                 @@ "Limp" :> Request(power.limp \/ load.limp, (torque.max * 30) \div 100))

reset_torque ==
    /\ caller.use = "limits"
    /\ torque' = [torque EXCEPT !.requests = [s \in Sources |-> NoRequest], !.target = 0]
    /\ UNCHANGED <<caller, clk, inputs, power, load, plaus, losses, flood, limiter, span>>

-----------------------------------------------------------------------------
\* What the callers store in EcuState, and the configuration a tool edits.
Sense ==
    /\ \E rpm \in caller.rpms, map \in caller.maps, tps \in caller.tps, iat \in caller.iats,
          enable \in caller.enables, diag \in caller.diags, emergency \in caller.emergencies :
        inputs' = [rpm |-> rpm, map |-> map, tps |-> tps, iat |-> iat, synced |-> inputs.synced,
                   mapDiag |-> diag, enable |-> enable, emergency |-> emergency]
    /\ UNCHANGED <<caller, clk, power, load, plaus, losses, flood, limiter, torque, span>>

CompatInit ==
    /\ caller \in MonitorCallers
    /\ clk = 0
    /\ inputs = [rpm |-> 0, map |-> 1000, tps |-> 0, iat |-> 25, synced |-> caller.use = "limits",
                 mapDiag |-> FALSE, enable |-> TRUE, emergency |-> FALSE]
    /\ power = [state |-> "Normal", start |-> 0, count |-> 0, cut |-> FALSE, limp |-> FALSE]
    /\ load = [limp |-> FALSE, pending |-> FALSE, detected |-> 0, good |-> 0]
    /\ plaus = [pending |-> "None", confirmed |-> "None", start |-> 0, clear |-> 0]
    /\ losses = [count |-> 0, window |-> 0, shutdown |-> FALSE, ages |-> <<>>]
    /\ flood = FALSE
    /\ limiter = NoLimit
    /\ torque = [requests |-> [s \in Sources |-> NoRequest], max |-> 0, target |-> 0]
    /\ span = [good |-> -1, bad |-> -1, kind |-> "None"]

CompatNext ==
    \/ Sense
    \/ update_voltage \/ check_load_failure \/ check_plausibility
    \/ record_sync_loss \/ record_sync_recovery \/ reset_sync_loss_window
    \/ update_flood_clear \/ update_rev_limiter
    \/ update_torque \/ request_driver_torque \/ request_idle_torque \/ request_intervention
    \/ apply_safety_torque_limits \/ reset_torque

CompatSpec == CompatInit /\ [][CompatNext]_compatvars

-----------------------------------------------------------------------------
\* No monitor changes its mind on a glitch, whatever is called in between,
\* however often the configuration is edited and wherever the timer wraps:
\* limp mode is left only after the voltage has been good for the recovery
\* time with no reading below it but one the debounce discards; the load
\* failure starts and ends only after its condition has held for its time;
\* a plausibility fault is the one that held for the debounce, and goes only
\* after as long without one; and sync loss shuts the engine down only for
\* three losses in a window, or in windows a turn of the timer apart.
TransitionsAreSustained ==
    [][/\ power.limp /\ ~power'.limp => span'.good >= VoltRecovery
       /\ ~load.limp /\ load'.limp => span'.bad >= LoadDebounce
       /\ load.limp /\ ~load'.limp => span'.good >= LoadRecovery
       /\ plaus.confirmed = "None" /\ plaus'.confirmed # "None" =>
            span'.bad >= PlausDebounce /\ span'.kind = plaus'.confirmed
       /\ plaus.confirmed # "None" /\ plaus'.confirmed = "None" => span'.good >= PlausDebounce
       /\ ~losses.shutdown /\ losses'.shutdown =>
            /\ Len(losses.ages) = 2
            /\ losses.ages[2] + Dt <= SyncWindow \/ losses.ages[2] + Dt >= U32]_compatvars

\* The reduction of torque that timing and fuel together bring, in percent.
Reduction(c) == IF c.cut THEN 100 ELSE (c.retard * 2) \div 10 + (100 - c.fuel)

\* The strategies under which the limiter cuts the fuel at the maximum speed:
\* not when it only retards, nor when it cuts one cylinder of four.
CutsFuel(c) == c.strategy \in {"SoftCut", "Combined"} \/ (c.strategy = "HardCut" /\ c.cylinders >= 2)

\* What the limiters ask for reaches the engine, and nothing else does: an
\* update of the arbiter commands no more than the limp torque in limp mode,
\* none at the rev limit, else no more than any source asks for; the actuators
\* take away at least what the target demands, and cut the engine only when a
\* source asks for less than two fifths of the maximum, when the engine stands,
\* or when cold air at full load takes the i32 product past its range.  At or
\* above the maximum speed the limiter is at work, with the configured retard
\* where it has no other means, and leaves no injection where it cuts.
LimitsReachTheEngine ==
    [][/\ update_torque =>
            /\ torque'.target \in 0..torque'.max
            /\ "Limp" \in Active => torque'.target <= Max({torque.requests["Limp"].nm, 0})
            /\ "RevLimiter" \in Active /\ "Limp" \notin Active =>
                 convert(torque'.target, torque'.max).cut
            /\ Active \cap {"Limp", "RevLimiter"} = {} =>
                 \A s \in Active : torque'.target <= Max({torque.requests[s].nm, 0})
            /\ torque'.max > 0 =>
                 torque'.max * (100 - Reduction(convert(torque'.target, torque'.max)))
                   < torque'.target * 100 + torque'.max
            /\ convert(torque'.target, torque'.max).cut =>
                 \/ \E s \in Active : torque.requests[s].nm * 100 < torque'.max * 40
                 \/ inputs.rpm = 0 \/ Overflows(percents(inputs.rpm, inputs.map, inputs.iat))
       /\ update_rev_limiter /\ inputs.rpm >= caller.cfg.max =>
            /\ limiter'.active
            /\ caller.cfg.strategy = "IgnitionRetard" => limiter'.retard = caller.cfg.retard
            /\ CutsFuel(caller.cfg) => ~should_inject_with_all_safety'
       ]_compatvars
=============================================================================
