-------------------------- MODULE TransitionQueue ---------------------------
(***************************************************************************)
(* ScheduledTransitionQueue of crates/scheduler/src/queue.rs: a fixed      *)
(* array of optional transitions [output, at, level].  Deadlines are       *)
(* compared on the wrapping clock: a deadline is due when                  *)
(* (now - at) mod 2^w < (2^w - 1) div 2.                                   *)
(*                                                                         *)
(* drain_due repeats next_due_index until the buffer is full or nothing is *)
(* due.  next_due_index scans the slots and replaces its candidate by any  *)
(* later slot that is_before it, and is_before holds on equality: so it    *)
(* picks the most overdue transition and, among equal deadlines, the LAST  *)
(* slot.  DrainSet and DrainsBefore state that order without the loop; the *)
(* loop itself is DrainLoop, where it is compared with these definitions.  *)
(***************************************************************************)
EXTENDS SchedulerState

CONSTANTS
    QueueCap,           \* N of ScheduledTransitionQueue<N>
    DrainCap            \* M of TransitionDrainBuffer<M>

ASSUME QueueCapAssumption == QueueCap \in Nat \ {0} /\ DrainCap \in Nat \ {0}
ASSUME NoneTransition == None \notin [output : Outputs, at : Times, level : {"High", "Low"}]

Slots == 1..QueueCap
Levels == {"High", "Low"}
Transitions == [output : Outputs, at : Times, level : Levels]
QueueType == [Slots -> Transitions \cup {None}]

EmptyQueue == [i \in Slots |-> None]
Occupied(q) == {i \in Slots : q[i] # None}
FreeSlots(q) == {i \in Slots : q[i] = None}

FirstFree(q) == CHOOSE i \in FreeSlots(q) : \A j \in FreeSlots(q) : i <= j
EnqueueTransition(q, t) == [q EXCEPT ![FirstFree(q)] = t]

High(w) == [output |-> w.output, at |-> w.start, level |-> "High"]
Low(w) == [output |-> w.output, at |-> w.end, level |-> "Low"]

\* The two transitions of a window with start < end, in export order.
EnqueueWindow(q, w) == EnqueueTransition(EnqueueTransition(q, High(w)), Low(w))

Lateness(now, at) == (now - at) % UsMod
IsDue(now, at) == Lateness(now, at) < MaxUs \div 2

DueSlots(q, now) == {i \in Occupied(q) : IsDue(now, q[i].at)}

\* Mutant of DrainsBefore: the least overdue transition goes first.
DrainsNewestFirst(q, now, i, j) ==
    \/ Lateness(now, q[i].at) < Lateness(now, q[j].at)
    \/ Lateness(now, q[i].at) = Lateness(now, q[j].at) /\ i > j

DrainsBefore(q, now, i, j) ==
    \/ Lateness(now, q[i].at) > Lateness(now, q[j].at)
    \/ Lateness(now, q[i].at) = Lateness(now, q[j].at) /\ i > j

\* The slots one drain_due call empties, DrainCap at most.
DrainSet(q, now) ==
    {i \in DueSlots(q, now) :
        Cardinality({j \in DueSlots(q, now) : DrainsBefore(q, now, j, i)}) < DrainCap}

\* Mutant of Without: drained slots stay occupied.
WithoutNothing(q, slots) == q

Without(q, slots) == [i \in Slots |-> IF i \in slots THEN None ELSE q[i]]
=============================================================================
