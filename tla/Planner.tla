------------------------------- MODULE Planner ------------------------------
(***************************************************************************)
(* From a crank snapshot to timed output windows:                          *)
(* crates/scheduler/src/planner.rs, with the output topologies of          *)
(* crates/board-api/src/output_profiles.rs.  Angles are in units of        *)
(* 1/CrankRev of a revolution, speeds in rpm, times in microseconds.       *)
(*                                                                         *)
(* A profile is [kind, events, injectors, coils, phased]: how many events  *)
(* one pass over the crank revolution (IgnitionOnly, InjectionOnly) or the *)
(* engine cycle (FullEcu) has, over how many channels they are spread, and *)
(* whether it needs 720-degree authority.  A full-ECU profile that         *)
(* is_valid rejects has no events.                                         *)
(***************************************************************************)
EXTENDS SchedulerState, Sequences

CONSTANTS
    CrankRev,   \* CRANK_REV_DEGREES10
    MinuteUs    \* the 60_000_000 microseconds of a minute

ASSUME CrankAssumption == CrankRev \in Nat \ {0} /\ MinuteUs \in Nat \ {0}

EngineCycle == 2 * CrankRev

ProfileKinds == {"Legacy", "IgnitionOnly", "InjectionOnly", "FullEcu"}
ProfileType == [kind : ProfileKinds, events : Nat, injectors : Nat \ {0}, coils : Nat \ {0},
                phased : BOOLEAN]

Injector(ch) == <<"Injector", ch>>
Ignition(ch) == <<"Ignition", ch>>

Window(output, start, end) == [output |-> output, start |-> start, end |-> end]

AtLeast(a, b) == IF a > b THEN a ELSE b

ForwardAngleDelta(current, target, modulo) ==
    IF target > current THEN target - current ELSE modulo - current + target

MicrosForAngleDelta(delta, rpm) ==
    LET us == (MinuteUs * delta) \div (CrankRev * rpm)
    IN  IF rpm = 0 THEN 0 ELSE IF us > MaxUs THEN MaxUs ELSE AtLeast(us, 1)

\* event_tdc_angle_deg10 and full_cycle_slot_angle_deg10.
SlotAngle(cycle, slot, events) == (slot * cycle) \div events

\* plan_event of InjectionScheduler spaces its events by a rounded-down slot.
RevSlotAngle(slot, events) == slot * AtLeast(CrankRev \div events, 1)

\* plan_event of the two ignition schedulers: dwell ends at the spark angle.
IgnitionWindow(t, crank, output, tdc, cycle, spark) ==
    LET target == (tdc - spark.advance) % cycle
        delay == MicrosForAngleDelta(ForwardAngleDelta(crank.angle % cycle, target, cycle), crank.rpm)
        start == IF delay > spark.dwell THEN SatAdd(t, delay - spark.dwell) ELSE SatAdd(t, 1)
        fire == SatAdd(t, delay)
    IN  Window(output, start, IF fire > start THEN fire ELSE SatAdd(start, 1))

\* plan_event of the two injection schedulers: the pulse starts at the angle.
InjectionWindow(t, crank, output, target, cycle, pw) ==
    LET delta == ForwardAngleDelta(crank.angle % cycle, target, cycle)
        start == SatAdd(t, MicrosForAngleDelta(AtLeast(delta, 1), crank.rpm))
    IN  Window(output, start, AtLeast(SatAdd(start, pw), SatAdd(start, 1)))

\* The two windows of LegacySingleChannel, both on channel 1, start at once.
LegacyWindow(t, output, len) == Window(output, SatAdd(t, 1), AtLeast(SatAdd(t, len), SatAdd(t, 2)))

IgnitionOf(t, crank, p, slot, spark) ==
    LET cycle == IF p.kind = "FullEcu" THEN EngineCycle ELSE CrankRev
    IN  IgnitionWindow(t, crank, Ignition(slot % p.coils), SlotAngle(cycle, slot, p.events), cycle, spark)

InjectionOf(t, crank, p, slot, pw) ==
    IF p.kind = "FullEcu"
    THEN InjectionWindow(t, crank, Injector(slot % p.injectors),
                         SlotAngle(EngineCycle, slot, p.events), EngineCycle, pw)
    ELSE InjectionWindow(t, crank, Injector(slot % p.injectors),
                         RevSlotAngle(slot, p.events), CrankRev, pw)

\* The windows one step asks for, in the order it asks for them.
PlannedWindows(t, crank, p, plan) ==
    LET injections == [k \in 1..p.events |-> InjectionOf(t, crank, p, k - 1, plan.pw)]
        ignitions == [k \in 1..p.events |-> IgnitionOf(t, crank, p, k - 1, plan.spark)]
        fuel == ~plan.fuel_cut /\ plan.pw > 0
        fire == ~plan.spark_cut /\ (p.kind = "FullEcu" => plan.spark.dwell > 0)
    IN  IF crank.rpm = 0 \/ p.events = 0 THEN <<>>
        ELSE CASE p.kind = "IgnitionOnly" -> IF fire THEN ignitions ELSE <<>>
          [] p.kind = "InjectionOnly" -> IF fuel THEN injections ELSE <<>>
          [] p.kind = "FullEcu" ->
             IF fuel /\ fire
             THEN [k \in 1..(2 * p.events) |->
                     IF k % 2 = 1 THEN injections[(k + 1) \div 2] ELSE ignitions[k \div 2]]
             ELSE IF fuel THEN injections ELSE IF fire THEN ignitions ELSE <<>>
=============================================================================
