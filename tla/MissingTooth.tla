---------------------------- MODULE MissingTooth ----------------------------
(***************************************************************************)
(* The crank trigger decoder: MissingToothDecoder of                       *)
(* crates/trigger/src/missing_tooth.rs inside the startup gating of        *)
(* ProfiledMissingToothDecoder (crates/trigger/src/profiled.rs).           *)
(*   now   the free-running tick counter, at the last edge seen            *)
(*   d     the decoder                                                     *)
(*   prof  [revs, saw_gap]: revolutions_since_lock and saw_primary_gap     *)
(*   hist  history, not in the code: [cam_age, gaps], the gaps accepted    *)
(*         since a secondary signal last validated the phase (at most 2)   *)
(*         and those accepted since the lock was last gained               *)
(*                                                                         *)
(* The event and the loss reason of a call, `cam_seen` and the observation *)
(* record are reported, never read back, and are left out; the observed    *)
(* rpm is a function of `norm` and the observed angle is AngleAt.          *)
(***************************************************************************)
EXTENDS Integers

CONSTANTS
    Nominal, Missing,    \* teeth of the full wheel, and of the gap
    SecondaryMode,       \* "None", "SingleToothCam" or "PollLevel"
    Absolute,            \* the authority a known tooth-1 angle carries, or "None"
    MinInterval,         \* minimum_edge_interval
    GapThreshold,        \* gap_ratio_threshold_x1000, never 0
    SkipRevolutions, RequireFullCycle,  \* StartupSyncPolicy
    Drivers,             \* the ways it is driven: TRUE through the profiled decoder
    TickMod,             \* 2^32
    U8Max, U16Max,       \* where the tooth and the loss counters saturate
    Intervals,           \* times between two edges that occur
    None

ASSUME WheelAssumption ==
    /\ Nominal \in Nat /\ Missing \in Nat \ {0}
    /\ Missing < Nominal /\ Nominal - Missing >= 2
ASSUME ModeAssumption == SecondaryMode \in {"None", "SingleToothCam", "PollLevel"}
ASSUME PolicyAssumption ==
    /\ SkipRevolutions \in Nat /\ RequireFullCycle \in BOOLEAN /\ Drivers \subseteq BOOLEAN
    /\ Absolute \in {"None", "ExpertManual"}
ASSUME TickAssumption ==
    /\ TickMod \in Nat \ {0} /\ Intervals \subseteq Nat
    /\ MinInterval \in Nat /\ GapThreshold \in Nat \ {0}
ASSUME WidthAssumption == U8Max \in Nat /\ U16Max \in Nat /\ Nominal <= U8Max
ASSUME NoneNotTick == None \notin Nat

VARIABLES now, d, prof, hist, profiled
vars == <<now, d, prof, hist, profiled>>

Observed == Nominal - Missing
Ticks == 0..(TickMod - 1)

SatInc(x, max) == IF x < max THEN x + 1 ELSE x
Elapsed(t, u) == (t - u) % TickMod
IsGap(interval, previous) == interval * 1000 >= previous * GapThreshold

-----------------------------------------------------------------------------
(* EngineTimeAuthority snapshots. *)

Authorities ==
    [crank : {"NoSignal", "PrimarySearching", "PrimaryLocked", "SyncLost"},
     phase : {"Unknown", "CrankOnly360", "CamValidated720"},
     absolute : {"None", "ExpertManual"}, losses : 0..U16Max]

Authority(crank, phase, absolute, losses) ==
    [crank |-> crank, phase |-> phase, absolute |-> absolute, losses |-> losses]

NoAuthority == Authority("NoSignal", "Unknown", "None", 0)
SearchingAuthority(losses) == Authority("PrimarySearching", "Unknown", "None", losses)

LockedAuthority(phase, losses) ==
    IF phase THEN Authority("PrimaryLocked", "CamValidated720", Absolute, losses)
    ELSE Authority("PrimaryLocked", "CrankOnly360", "None", losses)

CompatibilitySummary(a) ==
    IF a.crank # "PrimaryLocked" THEN "Unsynced"
    ELSE IF a.phase = "Unknown" \/ a.absolute = "None" THEN "Provisional" ELSE "Locked"

-----------------------------------------------------------------------------
(* MissingToothDecoder. *)

Decoders ==
    [last : Ticks \cup {None}, prev : Ticks, norm : Ticks, tooth : 0..U8Max,
     since_gap : 0..U8Max, locked : BOOLEAN, phase : BOOLEAN, sec : BOOLEAN,
     auth : Authorities]

NewDecoder ==
    [last |-> None, prev |-> 0, norm |-> 0, tooth |-> 0, since_gap |-> 0,
     locked |-> FALSE, phase |-> FALSE, sec |-> FALSE, auth |-> NoAuthority]

FirstEdge(x, t) ==
    [last |-> t, prev |-> x.prev, norm |-> x.norm, tooth |-> x.tooth,
     since_gap |-> x.since_gap, locked |-> x.locked, phase |-> x.phase, sec |-> x.sec,
     auth |-> SearchingAuthority(x.auth.losses)]

\* The first interval after a start or a loss, or two edges at the same tick:
\* the authority is searching again, but `locked` is left as it is.
NoReference(x, t) ==
    [last |-> t, prev |-> Elapsed(t, x.last), norm |-> Elapsed(t, x.last), tooth |-> x.tooth,
     since_gap |-> SatInc(x.since_gap, U8Max), locked |-> x.locked, phase |-> x.phase,
     sec |-> x.sec, auth |-> SearchingAuthority(x.auth.losses)]

DropSync(x, t) ==
    [last |-> t, prev |-> 0, norm |-> 0, tooth |-> 0, since_gap |-> 0,
     locked |-> FALSE, phase |-> FALSE, sec |-> FALSE,
     auth |-> Authority("SyncLost", "Unknown", "None", SatInc(x.auth.losses, U16Max))]

WrongToothCount(x, gap) ==
    x.locked /\ IF gap THEN x.since_gap # Observed ELSE x.tooth >= Observed

\* Mutant of PhaseAfterGap: a missing secondary signal is not noticed.
PhaseKept(x) == x.phase

\* validate_secondary_before_next_gap: a revolution without a secondary
\* signal loses the phase.
PhaseAfterGap(x) == x.phase /\ ~(x.locked /\ SecondaryMode # "None" /\ ~x.sec)

\* Mutant of AcceptGap: the edge after the gap is not counted.
AcceptGapCountsFromZero(x, t) ==
    [last |-> t, prev |-> x.norm, norm |-> x.norm, tooth |-> 1, since_gap |-> 0,
     locked |-> TRUE, phase |-> PhaseAfterGap(x), sec |-> FALSE,
     auth |-> LockedAuthority(PhaseAfterGap(x), x.auth.losses)]

AcceptGap(x, t) ==
    [last |-> t, prev |-> x.norm, norm |-> x.norm, tooth |-> 1, since_gap |-> 1,
     locked |-> TRUE, phase |-> PhaseAfterGap(x), sec |-> FALSE,
     auth |-> LockedAuthority(PhaseAfterGap(x), x.auth.losses)]

AcceptTooth(x, t) ==
    [last |-> t, prev |-> Elapsed(t, x.last), norm |-> Elapsed(t, x.last),
     tooth |-> IF x.locked THEN SatInc(x.tooth, U8Max) ELSE x.tooth,
     since_gap |-> SatInc(x.since_gap, U8Max),
     locked |-> x.locked, phase |-> x.phase, sec |-> x.sec,
     auth |-> IF x.locked THEN LockedAuthority(x.phase, x.auth.losses)
              ELSE SearchingAuthority(x.auth.losses)]

\* What an edge of the configured kind at tick t is taken for.
Classify(x, t) ==
    IF x.last = None THEN "FirstEdge"
    ELSE LET interval == Elapsed(t, x.last)
         IN  IF interval < MinInterval THEN "Ignored"
             ELSE IF x.prev = 0 \/ interval = 0 THEN "Searching"
             ELSE IF WrongToothCount(x, IsGap(interval, x.prev)) THEN "Dropped"
             ELSE IF IsGap(interval, x.prev) THEN "Gap" ELSE "Tooth"

IngestPrimaryEdge(x, t) ==
    CASE Classify(x, t) = "FirstEdge" -> FirstEdge(x, t)
      [] Classify(x, t) = "Ignored"   -> x
      [] Classify(x, t) = "Searching" -> NoReference(x, t)
      [] Classify(x, t) = "Dropped"   -> DropSync(x, t)
      [] Classify(x, t) = "Gap"       -> AcceptGap(x, t)
      [] Classify(x, t) = "Tooth"     -> AcceptTooth(x, t)

WithPhase(x, phase, sec, auth) ==
    [last |-> x.last, prev |-> x.prev, norm |-> x.norm, tooth |-> x.tooth,
     since_gap |-> x.since_gap, locked |-> x.locked, phase |-> phase, sec |-> sec,
     auth |-> auth]

\* An edge of the other kind keeps a lock, and everything else.
UnexpectedPrimaryEdge(x) ==
    IF x.locked THEN x
    ELSE WithPhase(x, x.phase, x.sec, SearchingAuthority(x.auth.losses))

SecondaryFault(x) ==
    WithPhase(x, FALSE, FALSE, IF x.locked THEN LockedAuthority(FALSE, x.auth.losses)
                               ELSE SearchingAuthority(x.auth.losses))

Validated(x) == WithPhase(x, TRUE, TRUE, LockedAuthority(TRUE, x.auth.losses))

ValidatesPhase(x, signal, good) ==
    x.locked /\ signal = SecondaryMode /\ good /\ x.tooth = 1

\* A cam edge (or a polled level) that matches the configuration (`good`) is
\* accepted at tooth 1; a good cam edge before the lock is merely noted.
IngestSecondary(x, signal, good) ==
    IF ValidatesPhase(x, signal, good) THEN Validated(x)
    ELSE IF signal = "SingleToothCam" /\ SecondaryMode = signal /\ good /\ ~x.locked THEN x
    ELSE SecondaryFault(x)

-----------------------------------------------------------------------------
(* ProfiledMissingToothDecoder. *)

NewProfile == [revs |-> 0, saw_gap |-> FALSE]

\* Mutant of ProfileAfter: a loss of sync does not restart the count.
ProfileKeepsCount(p, event, locked) ==
    CASE event = "Gap" -> [revs |-> IF p.saw_gap THEN SatInc(p.revs, U8Max) ELSE p.revs,
                           saw_gap |-> TRUE]
      [] event \in {"FirstEdge", "Searching"} /\ ~locked -> NewProfile
      [] OTHER -> p

ProfileAfter(p, event, locked) ==
    CASE event = "Dropped" -> NewProfile
      [] event = "Gap" -> [revs |-> IF p.saw_gap THEN SatInc(p.revs, U8Max) ELSE p.revs,
                           saw_gap |-> TRUE]
      [] event \in {"FirstEdge", "Searching", "Tooth"} /\ ~locked -> NewProfile
      [] OTHER -> p

StartupReady(revs) == revs >= SkipRevolutions /\ (RequireFullCycle => revs > 0)

ProfiledAuthority(x, p) ==
    IF x.auth.crank # "PrimaryLocked" \/ StartupReady(p.revs) THEN x.auth
    ELSE Authority("PrimaryLocked", "CrankOnly360", "None", x.auth.losses)

-----------------------------------------------------------------------------
(* The state machine. *)

Init ==
    /\ now = 0 /\ d = NewDecoder
    /\ prof = NewProfile /\ hist = [cam_age |-> 2, gaps |-> 0]
    /\ profiled \in Drivers

HistoryAfter(h, event, locked) ==
    [cam_age |-> IF event = "Gap" THEN SatInc(h.cam_age, 2) ELSE h.cam_age,
     gaps |-> IF ~locked THEN 0
              ELSE IF event = "Gap" THEN SatInc(h.gaps, U8Max + 1) ELSE h.gaps]

\* Gaps are counted for the profiled decoder only.
Noted(h) == [cam_age |-> h.cam_age, gaps |-> IF profiled THEN h.gaps ELSE 0]

PrimaryEdge(dt) ==
    LET t == (now + dt) % TickMod
        event == Classify(d, t)
    IN  /\ now' = t
        /\ d' = IngestPrimaryEdge(d, t)
        /\ prof' = IF profiled THEN ProfileAfter(prof, event, d'.locked) ELSE prof
        /\ hist' = Noted(HistoryAfter(hist, event, d'.locked))
        /\ profiled' = profiled

WrongPrimaryEdge ==
    /\ ~profiled
    /\ d' = UnexpectedPrimaryEdge(d)
    /\ UNCHANGED <<now, prof, hist, profiled>>

SecondarySignal(signal, good) ==
    /\ d' = IngestSecondary(d, signal, good)
    /\ hist' = IF ValidatesPhase(d, signal, good)
               THEN [cam_age |-> 0, gaps |-> hist.gaps] ELSE hist
    /\ UNCHANGED <<now, prof, profiled>>

ResetSync ==
    /\ d' = NewDecoder
    /\ prof' = NewProfile
    /\ hist' = [cam_age |-> hist.cam_age, gaps |-> 0]
    /\ UNCHANGED <<now, profiled>>

Next ==
    \/ \E dt \in Intervals : PrimaryEdge(dt)
    \/ WrongPrimaryEdge
    \/ \E signal \in {"SingleToothCam", "PollLevel"}, good \in BOOLEAN :
          SecondarySignal(signal, good)
    \/ ResetSync

Spec == Init /\ [][Next]_vars

-----------------------------------------------------------------------------
(* Properties. *)

\* The counters keep their widths and the decoder its shape.
TypeOK ==
    /\ now \in Ticks
    /\ d \in Decoders
    /\ prof \in [revs : 0..U8Max, saw_gap : BOOLEAN]
    /\ hist \in [cam_age : 0..2, gaps : 0..(U8Max + 1)]
    /\ profiled \in BOOLEAN

\* The decoder's fields agree: the reference interval is the last normal one,
\* a locked decoder knows which of the observed teeth it is at, and an
\* unlocked one has no tooth and no phase left over from an earlier lock.
DecoderConsistent ==
    /\ d.prev = d.norm
    /\ d.locked => d.last # None /\ d.tooth \in 1..Observed
    /\ ~d.locked => d.tooth = 0 /\ ~d.phase /\ ~d.sec

\* The published authority never claims more than the decoder holds: a primary
\* lock only while locked, a validated phase and an absolute angle only while
\* the phase is validated.
AuthorityIsBacked ==
    /\ d.auth.crank = "PrimaryLocked"
         => d.locked /\ (d.auth.phase = "CamValidated720" <=> d.phase)
    /\ d.auth.crank # "PrimaryLocked" => d.auth.phase = "Unknown"
    /\ d.auth.absolute # "None" => d.auth.phase = "CamValidated720"

\* A validated phase is never older than one revolution: a secondary signal
\* was accepted at tooth 1 since the gap before last.
PhaseIsFresh == d.phase => hist.cam_age <= 1

\* The profiled decoder's revolution count follows the decoder's lock through
\* losses, filtered edges and resets.
ProfileTracksLock ==
    profiled => /\ prof.saw_gap <=> d.locked
                /\ d.locked => prof.revs + 1 = hist.gaps
                /\ ~d.locked => prof.revs = 0

\* What the runtime takes for a full lock is earned: it needs an unbroken lock
\* over the startup revolutions and a secondary signal of the last revolution.
FullAuthorityIsEarned ==
    profiled /\ CompatibilitySummary(ProfiledAuthority(d, prof)) = "Locked"
        => d.locked /\ hist.cam_age <= 1 /\ hist.gaps > SkipRevolutions

\* The decoder, and the profiled wrapper that counts the same lock, agree with
\* themselves and each other after every edge, filtered edge, loss and reset.
DecoderAgrees == TypeOK /\ DecoderConsistent /\ ProfileTracksLock

\* What the decoder publishes is backed by edges it saw: the crank lock, a phase
\* no older than a revolution, and full authority only after the startup
\* revolutions.
ClaimsAreBacked == AuthorityIsBacked /\ PhaseIsFresh /\ FullAuthorityIsEarned
=============================================================================
