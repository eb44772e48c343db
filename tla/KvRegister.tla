----------------------------- MODULE KvRegister -----------------------------
(***************************************************************************)
(* What a persistent tune store promises its callers, whatever flash it    *)
(* sits on: a register holding one value per field that an operation       *)
(* rewrites as a whole.  An operation changes the fields it names, one or  *)
(* two, takes effect at a single instant or not at all, and reports        *)
(* success only once it has; a power loss before that instant leaves       *)
(* the previous contents.                                                  *)
(*                                                                         *)
(* This is the contract of ecu_calibration::KvStore and of the retained-   *)
(* history store that the callers in crates/ts and boards rely on.  The    *)
(* flash stores FlashKv (RP2040, STM32F4) are shown to implement it.       *)
(***************************************************************************)
CONSTANTS
    Fields,      \* what the register holds: page keys, and sidecar records
    Pairs,       \* pairs of fields that one operation may write together
    Values,      \* contents of one field
    Default,     \* [Fields -> Values]: what an operation on a blank store builds on
    Empty,       \* the store of a device that has never committed anything
    None         \* no operation in progress

VARIABLES
    store,       \* what a read returns: Empty or [Fields -> Values]
    pending,     \* contents the running operation is about to commit, or None
    ret          \* how the last operation ended: "none", "ok" or "fail"

vars == <<store, pending, ret>>

Base(s) == IF s = Empty THEN Default ELSE s

Init ==
    /\ store = Empty
    /\ pending = None
    /\ ret = "none"

(* An operation on field f is accepted. *)
Put(f, v) ==
    /\ pending = None
    /\ pending' = [Base(store) EXCEPT ![f] = v]
    /\ ret' = "none"
    /\ UNCHANGED store

(* An operation on the two fields f and g is accepted. *)
PutBoth(f, v, g, w) ==
    /\ pending = None
    /\ pending' = [Base(store) EXCEPT ![f] = v, ![g] = w]
    /\ ret' = "none"
    /\ UNCHANGED store

(* An operation is turned away before it touches the store. *)
Refuse ==
    /\ pending = None
    /\ ret' = "fail"
    /\ UNCHANGED <<store, pending>>

(* The one instant at which the operation takes effect. *)
Commit ==
    /\ pending # None
    /\ store' = pending
    /\ UNCHANGED <<pending, ret>>

Return ==
    /\ pending # None
    /\ store = pending
    /\ pending' = None
    /\ ret' = "ok"
    /\ UNCHANGED store

(* The medium reports an error: the operation took effect or it did not. *)
Fail ==
    /\ pending # None
    /\ store' \in {store, pending}
    /\ pending' = None
    /\ ret' = "fail"

(* Power is lost and the device boots again. *)
PowerLoss ==
    /\ store' = store \/ (pending # None /\ store' = pending)
    /\ pending' = None
    /\ ret' = "none"

Next ==
    \/ \E f \in Fields, v \in Values : Put(f, v)
    \/ \E p \in Pairs, v, w \in Values : PutBoth(p[1], v, p[2], w)
    \/ Refuse
    \/ Commit
    \/ Return
    \/ Fail
    \/ PowerLoss

Spec == Init /\ [][Next]_vars

=============================================================================
