--------------------------- MODULE SchedulerState ---------------------------
(***************************************************************************)
(* The scheduler bookkeeping of crates/scheduler/src/state.rs, as          *)
(* operators on two records that together are one `SchedulerState`:        *)
(*   - an ownership record [mode, groups, reserved, windows]: which output *)
(*     channels are reserved, for which time windows;                      *)
(*   - a frontier record [last_id, active_id, horizon_end, deadline, mask, *)
(*     reason]: the horizon the timing side is allowed to execute in.      *)
(* Two copies of this state exist at run time: one inside the engine       *)
(* runtime and one inside the board's ScheduledQueueAdapter.               *)
(*                                                                         *)
(* `scheduled_windows` is an array of 16 optional slots in the code.  Here *)
(* it is a set of at most MaxWindows windows: the slot a window sits in is *)
(* never observable, because two windows of one output cannot share their  *)
(* end, so "the first slot that matches" is "the window that matches".     *)
(* The fields that are written and only ever reported (last_*_start/end,   *)
(* the start of a horizon, the two counts) are left out.                   *)
(***************************************************************************)
EXTENDS Integers, FiniteSets

CONSTANTS
    Outputs,            \* the logical outputs (group, channel)
    Group,              \* output -> "Injector" or "Ignition"
    WideOutputs,        \* outputs whose channel number has no reservation bit
    MaxWindows,         \* MAX_SCHEDULED_WINDOWS
    UsMod,              \* 2^w: the microsecond clock counts modulo UsMod
    MaxHorizonUs,       \* FRONTIER_MAX_HORIZON_US
    HeartbeatExpiryUs,  \* FRONTIER_HEARTBEAT_EXPIRY_US
    None                \* Option::None

Groups == {"Injector", "Ignition"}

ASSUME GroupAssumption == Group \in [Outputs -> Groups]
ASSUME WideAssumption == WideOutputs \subseteq Outputs
ASSUME MaxWindowsAssumption == MaxWindows \in Nat \ {0}
ASSUME UsModAssumption == UsMod \in Nat /\ UsMod > 1
ASSUME FrontierAssumption == MaxHorizonUs \in Nat /\ HeartbeatExpiryUs \in Nat
ASSUME NoneAssumption == None \notin Nat

Times == 0..(UsMod - 1)
MaxUs == UsMod - 1
SatAdd(a, b) == IF a + b > MaxUs THEN MaxUs ELSE a + b

Modes == {"Idle", "Armed", "Suspended"}
StopReasons == {"None", "SyncLost", "HeartbeatExpired", "HorizonExpired", "PermitDenied",
                "TimingFault", "AdmittedEventRejected", "BoardOutputFault"}
Windows == [output : Outputs, start : Times, end : Times]

OwnershipType == [mode : Modes, groups : SUBSET Groups,
                  reserved : SUBSET Outputs, windows : SUBSET Windows]
FrontierType == [last_id : Nat \cup {None}, active_id : Nat \cup {None},
                 horizon_end : Times \cup {None}, deadline : Times \cup {None},
                 mask : SUBSET Groups, reason : StopReasons]

NewOwnership == [mode |-> "Idle", groups |-> {}, reserved |-> {}, windows |-> {}]
NewFrontier == [last_id |-> None, active_id |-> None, horizon_end |-> None,
                deadline |-> None, mask |-> {}, reason |-> "None"]

-----------------------------------------------------------------------------
(* Ownership. *)

WindowsOverlap(w, x) == w.start < x.end /\ x.start < w.end

OutputsOf(ws) == {w.output : w \in ws}
GroupsOf(outs) == {Group[o] : o \in outs}

\* The checks of reserve_window, all of which must pass for Ok(()).
ReserveOk(own, w) ==
    /\ w.start < w.end
    /\ w.output \notin WideOutputs
    /\ \A x \in own.windows : x.output = w.output => ~WindowsOverlap(w, x)
    /\ Cardinality(own.windows) < MaxWindows

\* arm_group makes the mode Armed whatever it was, Suspended included.
ReserveWindow(own, w) ==
    [own EXCEPT !.windows = @ \cup {w},
                !.groups = @ \cup {Group[w.output]},
                !.mode = "Armed",
                !.reserved = OutputsOf(own.windows \cup {w})]

RefreshMode(mode, groups) ==
    IF mode = "Suspended" THEN mode ELSE IF groups = {} THEN "Idle" ELSE "Armed"

CancelGroup(own, g) ==
    [own EXCEPT !.windows = {w \in @ : Group[w.output] # g},
                !.reserved = {o \in @ : Group[o] # g},
                !.groups = @ \ {g},
                !.mode = IF own.groups \ {g} = {} /\ @ # "Suspended" THEN "Idle" ELSE @]

ClearScheduledOwnership(own) ==
    [mode |-> RefreshMode(own.mode, {}), groups |-> {}, reserved |-> {}, windows |-> {}]

Suspend(own) == [ClearScheduledOwnership(own) EXCEPT !.mode = "Suspended"]

OnSyncRecovered(own) == [own EXCEPT !.mode = IF @ = "Suspended" THEN "Idle" ELSE @]

\* note_drained_transition for every transition of `drained`, a set of
\* [output, at, level].  A Low releases the window that ends at it.
Releases(t, w) == t.level = "Low" /\ t.output = w.output /\ t.at = w.end

\* Mutant of NoteDrained: it releases every window of the output.
NoteDrainedAnyEnd(own, drained) ==
    LET kept == {w \in own.windows : \A t \in drained : t.level # "Low" \/ t.output # w.output}
        groups == GroupsOf(OutputsOf(kept))
    IN  [mode |-> RefreshMode(own.mode, groups), groups |-> groups,
         reserved |-> OutputsOf(kept), windows |-> kept]

NoteDrained(own, drained) ==
    LET kept == {w \in own.windows : \A t \in drained : ~Releases(t, w)}
        reserved == OutputsOf(kept)
        groups == GroupsOf(reserved)
    IN  IF kept = own.windows THEN own
        ELSE [mode |-> RefreshMode(own.mode, groups), groups |-> groups,
              reserved |-> reserved, windows |-> kept]

\* schedule_injection / schedule_ignition: ensure_schedulable, then
\* convert_deadline, then reserve_window.
ScheduleOk(own, now, w) ==
    /\ own.mode # "Suspended"
    /\ now < w.start
    /\ ReserveOk(own, w)

-----------------------------------------------------------------------------
(* Frontier. *)

\* Mutant of CommitOk: a repeated horizon id is accepted again.
CommitOkRepeated(fr, id, start, end) ==
    /\ start < end /\ end - start <= MaxHorizonUs
    /\ fr.last_id # None => id >= fr.last_id

CommitOk(fr, id, start, end) ==
    /\ start < end
    /\ end - start <= MaxHorizonUs
    /\ fr.last_id # None => id > fr.last_id

CommitHorizon(fr, id, end, deadline, mask) ==
    [last_id |-> id, active_id |-> id, horizon_end |-> end,
     deadline |-> deadline, mask |-> mask, reason |-> "None"]

NoteHeartbeat(fr, now) ==
    IF fr.active_id # None
    THEN [fr EXCEPT !.deadline = SatAdd(now, HeartbeatExpiryUs)] ELSE fr

ClearLiveFrontierState(fr, reason) ==
    [last_id |-> fr.last_id, active_id |-> None, horizon_end |-> None,
     deadline |-> None, mask |-> {}, reason |-> reason]

ExpireHeartbeat(fr, now) ==
    IF fr.deadline # None /\ now > fr.deadline
    THEN [fr EXCEPT !.mask = {}, !.reason = IF @ = "None" THEN "HeartbeatExpired" ELSE @]
    ELSE fr

ExpireHorizon(fr, now) ==
    IF fr.horizon_end # None /\ now > fr.horizon_end
    THEN ClearLiveFrontierState(fr, IF fr.reason = "None" THEN "HorizonExpired" ELSE fr.reason)
    ELSE fr

ExpireFrontier(fr, now) == ExpireHorizon(ExpireHeartbeat(fr, now), now)
=============================================================================
