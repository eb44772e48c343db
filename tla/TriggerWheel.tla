---------------------------- MODULE TriggerWheel ----------------------------
(***************************************************************************)
(* The decoder of MissingTooth behind a physical wheel, through            *)
(* SplitTriggerAdapter::on_trigger_edge of                                 *)
(* boards/common/src/trigger_adapter.rs.                                   *)
(*   pos    the tooth that passed the sensor last, 1 after the gap         *)
(*   sub    ticks since it passed                                          *)
(*   clean  teeth delivered since the last disturbance, up to Recovery     *)
(*   mounted  whether the edges come from the wheel, or at any Intervals   *)
(* A tooth takes one of ToothTimes to pass, the gap (Missing + 1) times as *)
(* long.  A disturbance is an edge that is lost, or a spurious one.        *)
(***************************************************************************)
EXTENDS MissingTooth

CONSTANTS
    ToothTimes,     \* ticks from one tooth to the next
    Glitches,       \* ticks from an edge to a spurious one
    Recovery        \* the bound on the decoder's recovery, in teeth

ASSUME ToothTimesAssumption == ToothTimes \subseteq Nat \ {0} /\ Glitches \subseteq Nat
ASSUME RecoveryAssumption == Recovery \in Nat

\* The wheel turns steadily enough: a tooth is never taken for the gap, and the
\* gap never for a tooth.
ASSUME SteadyAssumption ==
    \A s, t \in ToothTimes : ~IsGap(t, s) /\ IsGap((Missing + 1) * t, s)

VARIABLES pos, sub, clean, mounted
wheel == <<pos, sub, clean, mounted>>

WheelInit ==
    /\ Init /\ mounted \in BOOLEAN /\ (mounted => ~profiled)
    /\ pos = 1 /\ sub = 0 /\ clean = 0

NextPos == IF pos = Observed THEN 1 ELSE pos + 1
TimeToNext(t) == IF pos = Observed THEN (Missing + 1) * t ELSE t

\* The next tooth is captured.
Tooth(t) ==
    /\ mounted /\ mounted' = mounted
    /\ sub < TimeToNext(t)
    /\ PrimaryEdge(TimeToNext(t) - sub)
    /\ pos' = NextPos /\ sub' = 0
    /\ clean' = SatInc(clean, Recovery)

\* The next tooth passes and no edge is captured.
LostEdge(t) ==
    /\ mounted /\ mounted' = mounted
    /\ sub < TimeToNext(t)
    /\ now' = (now + TimeToNext(t) - sub) % TickMod
    /\ pos' = NextPos /\ sub' = 0 /\ clean' = 0
    /\ UNCHANGED <<d, prof, hist, profiled>>

\* An edge is captured where there is no tooth, or a tooth twice.
SpuriousEdge(dt) ==
    /\ mounted /\ mounted' = mounted
    /\ sub + dt < TimeToNext(CHOOSE t \in ToothTimes : \A u \in ToothTimes : t <= u)
    /\ PrimaryEdge(dt)
    /\ sub' = sub + dt /\ clean' = 0
    /\ UNCHANGED pos

\* A cam edge or level at any time, good or bad, and edges of the wrong kind.
OtherSignal ==
    /\ mounted
    /\ \/ \E signal \in {"SingleToothCam", "PollLevel"}, good \in BOOLEAN :
              SecondarySignal(signal, good)
       \/ WrongPrimaryEdge
    /\ UNCHANGED wheel

\* No wheel: every call the decoder takes, with edges after any interval.
AnyCall == ~mounted /\ Next /\ UNCHANGED wheel

WheelNext ==
    \/ \E t \in ToothTimes : Tooth(t)
    \/ \E t \in ToothTimes : LostEdge(t)
    \/ \E dt \in Glitches : SpuriousEdge(dt)
    \/ OtherSignal
    \/ AnyCall

WheelSpec == WheelInit /\ [][WheelNext]_<<vars, wheel>>

-----------------------------------------------------------------------------
(* The angle a trigger edge is reported with. *)

CrankRev == 3600
EngineCycle == 7200

\* MissingToothDecoder::crank_angle_at, for a tooth-1 angle of `trigger`.
AngleAt(x, t, trigger) ==
    LET toothAngle == CrankRev \div Nominal
        elapsed == IF x.norm > 0 THEN (Elapsed(t, x.last) * toothAngle) \div x.norm ELSE 0
    IN  (trigger + (x.tooth - 1) * toothAngle + elapsed) % EngineCycle

\* ProfiledMissingToothDecoder::crank_angle_at, with no latency configured.
ProfiledAngleAt(x, t, trigger) ==
    LET rev == x.norm * Observed
    IN  IF rev = 0 \/ t <= x.last THEN trigger
        ELSE (trigger + ((t - x.last) * CrankRev) \div rev) % EngineCycle

-----------------------------------------------------------------------------
(* Properties. *)

\* However many edges were lost or spurious, and whatever the decoder made of
\* them, it is locked to the true tooth after Recovery undisturbed teeth: no
\* wrong lock survives, and no state of the decoder is a dead end.
RecoversTrueTooth == clean = Recovery => d.locked /\ d.tooth = pos

\* The angle an edge is reported with moves with the tooth.
AngleFollowsTooth ==
    d.locked /\ d.last = now => ProfiledAngleAt(d, now, 0) = AngleAt(d, now, 0)
=============================================================================
