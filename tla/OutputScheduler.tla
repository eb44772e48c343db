-------------------------- MODULE OutputScheduler ---------------------------
(***************************************************************************)
(* The board's output scheduler: ScheduledQueueAdapter and                 *)
(* ScheduledActionExecutor of boards/common/src/outputs/scheduler.rs with  *)
(* the pin banks of boards/common/src/outputs/pins.rs.                     *)
(*   now   the free-running microsecond clock                              *)
(*   sch   [own, fr, queue]: the adapter's SchedulerState and its queue    *)
(*   pins  the level each wired output is driven to                        *)
(* A board uses one pin bank: ScheduledOutputs4 drains through the         *)
(* executor's drain_and_apply_due, the generic ScheduledOutputs through    *)
(* drain_due.                                                              *)
(***************************************************************************)
EXTENDS TransitionQueue, Sequences

CONSTANTS
    Wired,              \* outputs that have a pin in the bank
    FaultyPins,         \* wired outputs whose pin write may fail
    Bank,               \* "ScheduledOutputs4" or "ScheduledOutputs"
    Executors,          \* "execute", "execute_batch": the entry points it calls
    CancelReasons,      \* reasons of Action::CancelScheduler that occur
    MaxLead,            \* a plan starts at most this far ahead
    MaxPulse,           \* and lasts at most this long
    MaxLateness,        \* the board loop drains at least this often
    HorizonIds,         \* horizon sequence ids the timing side may send
    HorizonLens,        \* lengths of the horizons it may send
    HeartbeatLeads,     \* heartbeat deadlines it may send, after now
    Masks               \* permit masks it may send

ASSUME WiredAssumption == Wired \subseteq Outputs /\ FaultyPins \subseteq Wired
ASSUME NoneOutput == None \notin Outputs
ASSUME InputAssumption ==
    /\ MaxLead \in Nat /\ MaxPulse \in Nat /\ MaxLateness \in Nat
    /\ HorizonIds \subseteq Nat /\ HorizonLens \subseteq Nat /\ HeartbeatLeads \subseteq Nat
    /\ Masks \subseteq SUBSET Groups
    /\ CancelReasons \subseteq {"Manual", "SyncLoss", "SafetyShutdown", "Commit", "Timeout"}

VARIABLES now, sch, pins
vars == <<now, sch, pins>>

SchedulerType == [own : OwnershipType, fr : FrontierType, queue : QueueType]

-----------------------------------------------------------------------------
(* ScheduledQueueAdapter. *)

NewAdapter == [own |-> NewOwnership, fr |-> NewFrontier, queue |-> EmptyQueue]

WithFrontier(s, fr) == [own |-> s.own, fr |-> fr, queue |-> s.queue]

HasLiveFrontier(s) == s.fr.active_id # None

CancelAllWithReason(s, reason) ==
    [own |-> ClearScheduledOwnership(s.own),
     fr |-> ClearLiveFrontierState(s.fr, reason),
     queue |-> EmptyQueue]

\* A lowered arm action is a sequence of one window, or of an injection and
\* an ignition window; each window is a High and a Low transition.
BatchOk(s, ws) ==
    /\ Cardinality(FreeSlots(s.queue)) >= 2 * Len(ws)
    /\ ReserveOk(s.own, ws[1])
    /\ Len(ws) = 2 => ReserveOk(ReserveWindow(s.own, ws[1]), ws[2])

Admit(s, w) ==
    [own |-> ReserveWindow(s.own, w), fr |-> s.fr, queue |-> EnqueueWindow(s.queue, w)]

ApplyWindows(s, ws) ==
    IF BatchOk(s, ws)
    THEN IF Len(ws) = 2 THEN Admit(Admit(s, ws[1]), ws[2]) ELSE Admit(s, ws[1])
    ELSE IF HasLiveFrontier(s) THEN CancelAllWithReason(s, "AdmittedEventRejected") ELSE s

MapCancelReason(r) ==
    CASE r = "Manual" -> "PermitDenied"
      [] r = "SyncLoss" -> "SyncLost"
      [] r = "SafetyShutdown" -> "TimingFault"
      [] r = "Commit" -> "HorizonExpired"
      [] r = "Timeout" -> "HeartbeatExpired"

Actions == [kind : {"Cancel"}, reason : CancelReasons]
           \cup [kind : {"Arm"}, ws : {<<w>> : w \in Windows} \cup (Windows \X Windows)]

ActionOk(s, a) == a.kind = "Arm" => BatchOk(s, a.ws)

ApplyLowered(s, a) ==
    IF a.kind = "Cancel" THEN CancelAllWithReason(s, MapCancelReason(a.reason))
    ELSE ApplyWindows(s, a.ws)

-----------------------------------------------------------------------------
(* Pins: apply_drained_transitions on the drained slots d of queue q.  Every *)
(* transition is validated first; then they are applied in drain order up to *)
(* the first failing pin write, here the first one on output `bad`.          *)

Applied(q, t, d, bad) ==
    IF \E i \in d : q[i].output \notin Wired THEN {}
    ELSE {i \in d : \A k \in d : q[k].output = bad => k # i /\ ~DrainsBefore(q, t, k, i)}

\* The applied transition of output o that comes last in drain order is High.
LastIsHigh(q, t, a, o) ==
    \E i \in a : /\ q[i].output = o /\ q[i].level = "High"
                 /\ \A k \in a : q[k].output = o => ~DrainsBefore(q, t, i, k)

PinsAfter(p, q, t, a) ==
    [o \in Wired |-> IF \A i \in a : q[i].output # o THEN p[o]
                     ELSE IF LastIsHigh(q, t, a, o) THEN "High" ELSE "Low"]

-----------------------------------------------------------------------------
(* Draining. *)

\* drain_due empties the slots, then releases the windows their Lows close.
Drained(s, fr, slots) ==
    [own |-> NoteDrained(s.own, {s.queue[i] : i \in slots}), fr |-> fr,
     queue |-> Without(s.queue, slots)]

FrontierDead(fr) == fr.active_id = None \/ fr.mask = {}

\* The frontier a drain decides on, and the slots it then empties.
DrainFrontier(s) == IF s.fr.last_id = None THEN s.fr ELSE ExpireFrontier(s.fr, now)
DrainDenied(s) == s.fr.last_id # None /\ FrontierDead(DrainFrontier(s))

DrainDueWithFrontier(s) ==
    IF DrainDenied(s)
    THEN [own |-> ClearScheduledOwnership(s.own), fr |-> DrainFrontier(s), queue |-> EmptyQueue]
    ELSE Drained(s, DrainFrontier(s), DrainSet(s.queue, now))

-----------------------------------------------------------------------------
(* The state machine. *)

Init == now = 0 /\ sch = NewAdapter /\ pins = [o \in Wired |-> "Low"]

\* Time passes, but no queued transition stays due longer than MaxLateness.
Advance ==
    /\ \A i \in DueSlots(sch.queue, now) : Lateness(now, sch.queue[i].at) < MaxLateness
    /\ now' = (now + 1) % UsMod
    /\ UNCHANGED <<sch, pins>>

\* The windows the runtime plans at `now`: in the future, not empty.
Plans == {w \in [output : Outputs, start : (now + 1)..SatAdd(now, MaxLead),
                 end : (now + 1)..SatAdd(now, MaxLead + MaxPulse)] :
              w.start < w.end /\ w.end - w.start <= MaxPulse}
ArmActions ==
    [kind : {"Arm"}, ws : {<<w>> : w \in Plans}]
    \cup [kind : {"Arm"}, ws : {<<w, x>> : w \in {p \in Plans : Group[p.output] = "Injector"},
                                         x \in {p \in Plans : Group[p.output] = "Ignition"}}]
CancelActions == [kind : {"Cancel"}, reason : CancelReasons]

Execute(a) ==
    /\ "execute" \in Executors
    /\ sch' = ApplyLowered(sch, a)
    /\ UNCHANGED <<now, pins>>

\* execute_batch works on a local copy that an error throws away.
ExecuteBatch(a, b) ==
    /\ "execute_batch" \in Executors
    /\ sch' = IF ActionOk(sch, a) /\ ActionOk(ApplyLowered(sch, a), b)
              THEN ApplyLowered(ApplyLowered(sch, a), b) ELSE sch
    /\ UNCHANGED <<now, pins>>

CommitFrontierHorizon(id, len, lead, mask) ==
    /\ CommitOk(sch.fr, id, now, SatAdd(now, len))
    /\ sch' = WithFrontier(sch, CommitHorizon(sch.fr, id, SatAdd(now, len), SatAdd(now, lead), mask))
    /\ UNCHANGED <<now, pins>>

NoteFrontierHeartbeat ==
    /\ sch' = WithFrontier(sch, NoteHeartbeat(sch.fr, now))
    /\ UNCHANGED <<now, pins>>

ExpireFrontierNow ==
    /\ sch' = WithFrontier(sch, ExpireFrontier(sch.fr, now))
    /\ UNCHANGED <<now, pins>>

OnSyncLoss ==
    /\ sch' = [own |-> Suspend(sch.own), fr |-> ClearLiveFrontierState(sch.fr, "SyncLost"),
               queue |-> EmptyQueue]
    /\ UNCHANGED <<now, pins>>

OnHardSafetyShutdown ==
    /\ sch' = [own |-> Suspend(sch.own), fr |-> ClearLiveFrontierState(sch.fr, "TimingFault"),
               queue |-> EmptyQueue]
    /\ UNCHANGED <<now, pins>>

\* OutputScheduler::cancel_all, which is also force_safe_state.
ForceSafeState ==
    /\ sch' = CancelAllWithReason(sch, "PermitDenied")
    /\ UNCHANGED <<now, pins>>

\* ScheduledOutputs4: the executor drains, gated by the frontier once a
\* horizon was ever accepted, and cancels everything if a pin write fails.
DrainAndApplyDue(bad) ==
    LET d == IF DrainDenied(sch) THEN {} ELSE DrainSet(sch.queue, now)
        a == Applied(sch.queue, now, d, bad)
        s == DrainDueWithFrontier(sch)
    IN  /\ Bank = "ScheduledOutputs4"
        /\ pins' = PinsAfter(pins, sch.queue, now, a)
        /\ sch' = IF a # d /\ HasLiveFrontier(sch)
                  THEN CancelAllWithReason(s, "BoardOutputFault") ELSE s
        /\ now' = now

\* ScheduledOutputs: drain_due, whatever the frontier says.
DrainAndApplyPlain(bad) ==
    LET d == DrainSet(sch.queue, now)
    IN  /\ Bank = "ScheduledOutputs"
        /\ pins' = PinsAfter(pins, sch.queue, now, Applied(sch.queue, now, d, bad))
        /\ sch' = Drained(sch, sch.fr, d)
        /\ now' = now

Next ==
    \/ Advance
    \/ \E a \in ArmActions : Execute(a)
    \/ \E a \in CancelActions : Execute(a)
    \/ \E a \in ArmActions \cup CancelActions, b \in ArmActions : ExecuteBatch(a, b)
    \/ \E id \in HorizonIds, len \in HorizonLens, lead \in HeartbeatLeads, mask \in Masks :
          CommitFrontierHorizon(id, len, lead, mask)
    \/ NoteFrontierHeartbeat
    \/ ExpireFrontierNow
    \/ OnSyncLoss
    \/ OnHardSafetyShutdown
    \/ ForceSafeState
    \/ \E bad \in FaultyPins \cup {None} : DrainAndApplyDue(bad)
    \/ \E bad \in FaultyPins \cup {None} : DrainAndApplyPlain(bad)

Spec == Init /\ [][Next]_vars

-----------------------------------------------------------------------------
(* Properties. *)

\* The clock, the adapter and the pins keep their types, the queue and the
\* window table their capacities.
TypeOK ==
    /\ now \in Times
    /\ sch \in SchedulerType
    /\ pins \in [Wired -> Levels]
    /\ Cardinality(sch.own.windows) <= MaxWindows

LowSlots(q) == {i \in Slots : q[i] # None /\ q[i].level = "Low"}

OwnershipMatches(own, q) ==
    /\ \A w \in own.windows : \E i \in LowSlots(q) : Releases(q[i], w)
    /\ \A i \in LowSlots(q) : \E w \in own.windows : Releases(q[i], w)
    /\ \A i, j \in LowSlots(q) : q[i] = q[j] => i = j

Exclusive(own) ==
    /\ \A w \in own.windows : w.start < w.end
    /\ \A w, x \in own.windows : w.output = x.output /\ w # x => ~WindowsOverlap(w, x)

SummariesMatch(own) ==
    /\ own.reserved = OutputsOf(own.windows)
    /\ own.groups = GroupsOf(own.reserved)
    /\ own.mode = "Armed" <=> own.windows # {}

FrontierOK(fr) ==
    /\ fr.active_id = None => fr.mask = {} /\ fr.deadline = None
    /\ fr.active_id # None => fr.active_id = fr.last_id /\ fr.deadline # None
    /\ fr.active_id = None <=> fr.horizon_end = None
    /\ fr.mask # {} => fr.reason = "None"

\* The ownership table and the queue agree: every reserved window has its
\* closing Low in the queue, every queued Low closes a reserved window, and no
\* two queued Lows close the same one.  A leaked window would refuse its
\* output for ever; a Low without a window would let a second pulse overlap.
OwnershipMatchesQueue == OwnershipMatches(sch.own, sch.queue)

\* Two reserved windows of one output never overlap, so an injector or a coil
\* is never claimed by two pulses at once, whatever was drained, cancelled or
\* rejected in between.
ExclusiveOutputs == Exclusive(sch.own)

\* The cached summaries of the window table are never stale: the reserved
\* bits, the active groups and the mode are what the windows say.
SummariesMatchWindows == SummariesMatch(sch.own)

\* A frontier without a live horizon permits nothing, the live horizon is the
\* last one accepted, and a frontier that permits anything has no stop reason.
FrontierConsistent == FrontierOK(sch.fr)

\* Once a horizon was ever accepted, the frontier-aware bank moves a pin only
\* while a horizon is live, unexpired, its heartbeat fresh and its permit mask
\* not empty.
FiringNeedsLiveHorizon ==
    [][ Bank = "ScheduledOutputs4" /\ pins' # pins /\ sch.fr.last_id # None
        => /\ sch.fr.active_id # None /\ sch.fr.mask # {}
           /\ now <= sch.fr.horizon_end /\ now <= sch.fr.deadline ]_vars

\* A permission that was withdrawn comes back only with a newer horizon:
\* neither a late heartbeat nor a repeated or reordered commit revives it, and
\* the accepted ids only grow.
PermitNeedsNewHorizon ==
    [][ /\ sch.fr.mask = {} /\ sch'.fr.mask # {} => sch'.fr.last_id # sch.fr.last_id
        /\ sch.fr.last_id # None /\ sch'.fr.last_id # sch.fr.last_id
             => sch'.fr.last_id > sch.fr.last_id ]_vars

\* The window table, the queue, the cached summaries and the frontier of one
\* scheduler always agree, within their capacities, and no two windows of one
\* output overlap: they are updated by separate calls of execute, drain and
\* the shutdown paths.
TablesAgree ==
    /\ TypeOK /\ OwnershipMatchesQueue /\ SummariesMatchWindows /\ FrontierConsistent
    /\ ExclusiveOutputs

\* Horizons govern what fires: nothing outside a live one, and a withdrawn
\* permission returns only with a newer one.
HorizonsGovern == FiringNeedsLiveHorizon /\ PermitNeedsNewHorizon

HasLow(q, o) == \E i \in LowSlots(q) : q[i].output = o

\* While nothing is cancelled and no transition of a pin that may fail is
\* drained, a pin that is driven High keeps a Low in the queue until that Low
\* is applied: only a step that throws the whole queue away, or a failed write,
\* leaves an injector open or a coil charging.
HighKeepsItsLow ==
    [][ \A o \in Wired :
          /\ pins[o] = "High" => HasLow(sch.queue, o)
          /\ sch'.queue # EmptyQueue
          /\ \A i \in Slots : sch.queue[i] # None /\ sch'.queue[i] = None
                              => sch.queue[i].output \notin FaultyPins
          => (pins'[o] = "High" => HasLow(sch'.queue, o)) ]_vars

\* Every reserved window is released in the end, by the drain of its Low or by
\* a cancellation: the window table does not fill up for good.
WindowsReleased ==
    \A o \in Outputs, e \in Times :
        LET held == \E w \in sch.own.windows : w.output = o /\ w.end = e
        IN  held ~> ~held

\* force_safe_state leaves no output driven High.
SafeStateIsLow == [][ ForceSafeState => \A o \in Wired : pins'[o] = "Low" ]_vars
=============================================================================
