------------------------------ MODULE DrainLoop -----------------------------
(***************************************************************************)
(* ScheduledTransitionQueue::drain_due as the loop of                      *)
(* crates/scheduler/src/queue.rs: next_due_index scans the slots, the      *)
(* selected one is emptied and pushed into the drain buffer, until the     *)
(* buffer is full or nothing is due.  The state machine and its proofs use *)
(* DrainSet and DrainsBefore of TransitionQueue for what this loop does;   *)
(* the two are compared on every queue the state machine reaches.          *)
(***************************************************************************)
EXTENDS OutputScheduler, SequencesExt

IsBefore(candidate, current) == (current - candidate) % UsMod < MaxUs \div 2

\* Mutant of Select: the first due slot is kept.
SelectFirstDue(q, t, selected, i) ==
    IF selected = None /\ q[i] # None /\ (q[i] # None => IsDue(t, q[i].at)) THEN i ELSE selected

\* The scan of next_due_index: the candidate so far, then the next slot.
Select(q, t, selected, i) ==
    IF q[i] = None \/ ~IsDue(t, q[i].at) THEN selected
    ELSE IF selected = None \/ IsBefore(q[i].at, q[selected].at) THEN i ELSE selected

NextDueIndex(q, t) ==
    FoldLeft(LAMBDA selected, i : Select(q, t, selected, i), None, [i \in Slots |-> i])

\* One iteration on [queue, out]: the queue left and the slots taken so far.
DrainOne(run, t) ==
    LET idx == NextDueIndex(run.queue, t)
    IN  IF idx = None THEN run
        ELSE [queue |-> [run.queue EXCEPT ![idx] = None], out |-> Append(run.out, idx)]

DrainDue(q, t) ==
    FoldLeft(LAMBDA run, k : DrainOne(run, t), [queue |-> q, out |-> <<>>],
             [k \in 1..DrainCap |-> k])

\* What the loop takes is what DrainSet says, and nothing else leaves the
\* queue: no due transition is skipped for one that is less overdue, across
\* the wrap of the clock as well (drain_due, next_due_index, is_before).
LoopTakesDrainSet ==
    LET run == DrainDue(sch.queue, now)
    IN  /\ ToSet(run.out) = DrainSet(sch.queue, now)
        /\ run.queue = Without(sch.queue, DrainSet(sch.queue, now))

\* The buffer is filled in the order DrainsBefore says: most overdue first
\* and, of equal deadlines, the last slot first (next_due_index).
LoopOrderIsDrainsBefore ==
    LET out == DrainDue(sch.queue, now).out
    IN  \A i, j \in DOMAIN out : i < j => DrainsBefore(sch.queue, now, out[i], out[j])

\* The loop of drain_due implements the declarative drain, set and order.
LoopIsDrain == LoopTakesDrainSet /\ LoopOrderIsDrainsBefore
=============================================================================
