----------------------------- MODULE CanRoster ------------------------------
(***************************************************************************)
(* The roster of remote modules that an ECU keeps from their heartbeats,   *)
(* the event log of its changes, and what a reader makes of both:          *)
(* CanModuleRosterRegistry and its views in crates/transport/src/can.rs.   *)
(*                                                                         *)
(* A roster is [slots, log]: the occupied slots in order (none is ever     *)
(* freed) and the log.  A slot's availability_transition is its field      *)
(* "from": NoChange when from is the state itself.  The CPU load, which    *)
(* decides nothing, is left out.                                           *)
(***************************************************************************)
EXTENDS Integers, Sequences, SequencesExt, FiniteSets

CONSTANTS
    RosterCapacity,    \* CAN_MODULE_ROSTER_CAPACITY
    LogCapacity,       \* CAN_MODULE_ROSTER_EVENT_LOG_CAPACITY
    TimeoutMs,         \* CAN_HEARTBEAT_TIMEOUT_MS
    StartupSeconds,    \* CAN_HEARTBEAT_STARTUP_WINDOW_SECONDS
    AgeMax,            \* where the u32 age saturates
    DroppedMax,        \* where the u32 count of dropped events saturates
    Unknown            \* no state: a module that is not in the roster

ASSUME RosterAssumption ==
    {RosterCapacity, LogCapacity, TimeoutMs, StartupSeconds, AgeMax,
     DroppedMax} \subseteq Nat
ASSUME AgeAssumption == TimeoutMs < AgeMax

States == {"Starting", "Alive", "Degraded", "Unavailable"}
Policies == {"RemoteDataTrusted", "HoldLastKnownGood", "RequireLocalFallback"}

---------------------------------------------------------------------------
\* Heartbeats: [node, uptime, status, errors].

IsStale(age) == age = Unknown \/ age > TimeoutMs

\* The age that is recorded: an unknown one counts as just too old.
ObservedAge(age) == IF age = Unknown THEN TimeoutMs + 1 ELSE age

\* CanModuleHeartbeatContract::from_fields
StateOf(hb, stale) ==
    IF stale THEN "Unavailable"
    ELSE IF hb.uptime <= StartupSeconds THEN "Starting"
    ELSE IF hb.status = "Ok" /\ hb.errors = 0 THEN "Alive"
    ELSE "Degraded"

\* CanRemoteModuleFallbackPolicy::from_state, and fallback_impact of a change
PolicyOf(state) ==
    IF state = "Alive" THEN "RemoteDataTrusted"
    ELSE IF state \in {"Starting", "Degraded"} THEN "HoldLastKnownGood"
    ELSE "RequireLocalFallback"

---------------------------------------------------------------------------
\* The event log.

NewLog == [entries |-> <<>>, dropped |-> 0]

\* Mutant of PushChange: an overwritten event is not counted.
PushChangeUncounted(log, node, previous, current) ==
    LET entry == [node |-> node, previous |-> previous, current |-> current]
    IN  IF previous = current THEN log
        ELSE IF Len(log.entries) < LogCapacity
        THEN [log EXCEPT !.entries = Append(@, entry)]
        ELSE [log EXCEPT !.entries = Append(Tail(@), entry)]

PushChange(log, node, previous, current) ==
    LET entry == [node |-> node, previous |-> previous, current |-> current]
    IN  IF previous = current THEN log
        ELSE IF Len(log.entries) < LogCapacity
        THEN [log EXCEPT !.entries = Append(@, entry)]
        ELSE [entries |-> Append(Tail(log.entries), entry), 
              dropped |-> IF log.dropped < DroppedMax THEN log.dropped + 1 ELSE DroppedMax]

\* total_written_event_count of the watermark
TotalWritten(log) == log.dropped + Len(log.entries)

Larger(a, b) == IF a > b THEN a ELSE b
Monus(a, b) == IF a > b THEN a - b ELSE 0

DeltaSince(log, mark) ==
    LET total == TotalWritten(log)
        start == Larger(mark, Monus(total, Len(log.entries)))
        retained == Monus(total, start)
        first == Len(log.entries) - retained + 1
    IN  [entries |-> SubSeq(log.entries, first, Len(log.entries)),
         dropped |-> Monus(Monus(total, mark), retained)]

\* latest_per_node: the last unread entry of each module, in the order in
\* which the modules first appear, as many as the set holds
LatestPerNode(delta) ==
    FoldLeft(LAMBDA latest, e :
               LET at == {i \in 1 .. Len(latest) : latest[i].node = e.node}
               IN  IF at # {} THEN [i \in 1 .. Len(latest) |-> IF i \in at THEN e ELSE latest[i]]
                   ELSE IF Len(latest) < RosterCapacity THEN Append(latest, e)
                   ELSE latest,
             <<>>, delta.entries)

---------------------------------------------------------------------------
\* What one change means.

Meaning(e) ==
    IF e.previous = Unknown THEN "FirstObservation"
    ELSE IF e.current = "Alive" THEN "RecoveryToAlive"
    ELSE IF e.current = "Degraded" THEN "TransitionToDegraded"
    ELSE IF e.current = "Unavailable" THEN "TimedOutToUnavailable"
    ELSE "Other"

ShutdownOf(e) ==
    IF PolicyOf(e.current) = "RequireLocalFallback" THEN "LocalTakeoverRequired"
    ELSE IF \/ Meaning(e) = "FirstObservation" /\ e.current = "Degraded"
            \/ Meaning(e) = "TransitionToDegraded"
    THEN "CoordinatedShutdownRecommended"
    ELSE "NoShutdownNeeded"

ReadinessOf(e) ==
    IF PolicyOf(e.current) = "RequireLocalFallback" THEN "BlockedByUnavailable"
    ELSE IF PolicyOf(e.current) = "RemoteDataTrusted" THEN "ReadyForTrust"
    ELSE IF Meaning(e) \in {"FirstObservation", "Other"} /\ e.current = "Starting"
    THEN "WaitingForStartup"
    ELSE "HoldingLastKnownGood"

\* The impact counts of an unread summary.
ImpactCounts(entries) ==
    [p \in Policies |-> Cardinality({i \in 1 .. Len(entries) : PolicyOf(entries[i].current) = p})]

---------------------------------------------------------------------------
\* The registry.

NewRoster == [slots |-> <<>>, log |-> NewLog]

SlotsOf(roster, node) == {i \in 1 .. Len(roster.slots) : roster.slots[i].node = node}
StateIn(slots, node) ==
    IF \E i \in 1 .. Len(slots) : slots[i].node = node
    THEN slots[CHOOSE i \in 1 .. Len(slots) : slots[i].node = node].state
    ELSE Unknown

StatesIn(slots) == [i \in 1 .. Len(slots) |-> [node |-> slots[i].node, state |-> slots[i].state]]

\* observe_message with the heartbeat's age when it is handed over
Observe(roster, hb, given) ==
    LET state == StateOf(hb, IsStale(given))
        entry(from) == [node |-> hb.node, state |-> state, from |-> from,
                        age |-> ObservedAge(given)]
    IN  IF SlotsOf(roster, hb.node) # {}
        THEN LET i == CHOOSE i \in SlotsOf(roster, hb.node) : TRUE
                 previous == roster.slots[i].state
             IN  [slots |-> [roster.slots EXCEPT ![i] = entry(previous)],
                  log |-> PushChange(roster.log, hb.node, previous, state)]
        ELSE IF Len(roster.slots) < RosterCapacity
        THEN [slots |-> Append(roster.slots, entry(state)),
              log |-> PushChange(roster.log, hb.node, Unknown, state)]
        ELSE roster   \* RejectedCapacity

Older(age, ms) == IF age + ms > AgeMax THEN AgeMax ELSE age + ms

\* One slot of sweep_stale.
SweepSlot(e, ms) ==
    LET age == Older(e.age, ms)
    IN  IF IsStale(age) THEN [e EXCEPT !.age = age, !.state = "Unavailable", !.from = e.state]
        ELSE [e EXCEPT !.age = age]

SweepStale(roster, ms) ==
    [slots |-> [i \in 1 .. Len(roster.slots) |-> SweepSlot(roster.slots[i], ms)],
     log |-> FoldLeft(LAMBDA log, e : PushChange(log, e.node, e.state, SweepSlot(e, ms).state),
                      roster.log, roster.slots)]

---------------------------------------------------------------------------
\* The views of a snapshot.

PolicyCounts(slots) ==
    [p \in Policies |-> Cardinality({i \in 1 .. Len(slots) : PolicyOf(slots[i].state) = p})]

Count(slots, state) == Cardinality({i \in 1 .. Len(slots) : slots[i].state = state})

StartupReadiness(slots) ==
    IF slots = <<>> THEN "NoRemoteModules"
    ELSE IF Count(slots, "Unavailable") > 0 THEN "BlockedByUnavailable"
    ELSE IF Count(slots, "Degraded") > 0 THEN "HoldingLastKnownGood"
    ELSE IF Count(slots, "Starting") > 0 THEN "WaitingForStartup"
    ELSE "ReadyForTrust"

ShutdownCoordination(slots) ==
    IF slots = <<>> THEN "NoRemoteModules"
    ELSE IF Count(slots, "Unavailable") > 0 THEN "LocalTakeoverRequired"
    ELSE IF Count(slots, "Degraded") > 0 THEN "CoordinatedShutdownRecommended"
    ELSE "NoShutdownNeeded"

\* change_set_since: the modules of the new snapshot, then those it lost
ChangeSetSince(slots, previous) ==
    LET here == [i \in 1 .. Len(slots) |->
                    [node |-> slots[i].node, previous |-> StateIn(previous, slots[i].node),
                     current |-> slots[i].state]]
        gone == SelectSeq([i \in 1 .. Len(previous) |->
                              [node |-> previous[i].node, previous |-> previous[i].state,
                               current |-> Unknown]],
                          LAMBDA e : StateIn(slots, e.node) = Unknown)
    IN  SelectSeq(here \o gone, LAMBDA e : e.previous # e.current)
=============================================================================
