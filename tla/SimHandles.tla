----------------------------- MODULE SimHandles -----------------------------
(***************************************************************************)
(* The handle registry of the simulator's C interface                      *)
(* (sim/ffi/src/state/handle_registry.rs).  Threads create handles, call   *)
(* into them and destroy them.  A handle is a token of a slot, the slot's  *)
(* generation and a nonce; callers keep tokens as long as they like.       *)
(*                                                                         *)
(* One action per critical section: the registry's lock, the gate of a     *)
(* handle, the lock of its simulation.  A panic inside a call unwinds      *)
(* through the guard and poisons nothing (every lock recovers), so it ends *)
(* the call like a return does.                                            *)
(***************************************************************************)
EXTENDS Naturals, SequencesExt

CONSTANTS
    Threads,
    SlotMax,       \* the slots a token can name are 0..SlotMax
    GenerationMax, \* HANDLE_GENERATION_MASK
    NonceMax,      \* HANDLE_NONCE_MASK
    MaxCreated     \* bound on the handles created in a behaviour

ASSUME ThreadsAssumption == IsFiniteSet(Threads)
ASSUME NonceAssumption == NonceMax \in Nat \ {0}

VARIABLES
    registry,   \* [slots, free, nonce]
    controls,   \* the controls made so far: [token, destroyed, active, holder]
    thread      \* Threads -> [at, control]

handleVars == <<registry, controls, thread>>

NoControl == 0
Idle == [at |-> "idle", control |-> NoControl]

HandlesInit ==
    /\ registry = [slots |-> <<>>, free |-> <<>>, nonce |-> 0]
    /\ controls = <<>>
    /\ thread = [t \in Threads |-> Idle]

-----------------------------------------------------------------------------
Goto(t, at, control) == thread' = [thread EXCEPT ![t] = [at |-> at, control |-> control]]

allocate_nonce == (registry.nonce % NonceMax) + 1

\* Slots are numbered from 0 in tokens, from 1 in the sequence.
encode_handle_token(slot, generation, nonce) ==
    [slot |-> slot - 1, generation |-> generation, nonce |-> nonce]

NewControl(token) == [token |-> token, destroyed |-> FALSE, active |-> 0, holder |-> {}]

\* A free slot is used before a new one; with neither, the nonce is spent.
create_handle(t) ==
    LET reused == registry.free # <<>>
        slot == IF reused THEN Last(registry.free) ELSE Len(registry.slots) + 1
        room == reused \/ slot - 1 <= SlotMax
        generation == IF reused THEN registry.slots[slot].generation ELSE 1
        token == encode_handle_token(slot, generation, allocate_nonce)
        entry == [generation |-> generation, nonce |-> allocate_nonce, control |-> Len(controls) + 1]
    IN  /\ thread[t] = Idle /\ Len(controls) < MaxCreated
        /\ registry' =
              [slots |-> IF ~room THEN registry.slots
                         ELSE IF reused THEN [registry.slots EXCEPT ![slot] = entry]
                         ELSE Append(registry.slots, entry),
               free |-> IF reused THEN Front(registry.free) ELSE registry.free,
               nonce |-> allocate_nonce]
        /\ controls' = IF room THEN Append(controls, NewControl(token)) ELSE controls
        /\ UNCHANGED thread

\* The control a token names now.
Lookup(token) ==
    IF /\ token.slot + 1 \in DOMAIN registry.slots
       /\ registry.slots[token.slot + 1].generation = token.generation
       /\ registry.slots[token.slot + 1].nonce = token.nonce
    THEN registry.slots[token.slot + 1].control
    ELSE NoControl

\* Every token a caller can still hold.
Tokens == {controls[c].token : c \in DOMAIN controls}

\* The registry without the handle of a slot: a slot whose generations are
\* used up is never used again.
Retire(slot) ==
    IF registry.slots[slot].generation = GenerationMax
    THEN [registry EXCEPT !.slots[slot].control = NoControl]
    ELSE [registry EXCEPT !.slots[slot].control = NoControl,
                          !.slots[slot].generation = @ + 1,
                          !.free = Append(@, slot)]

\* destroy_handle up to the end of the registry's lock.
destroy_handle(t, token) ==
    LET control == Lookup(token)
    IN  /\ thread[t] = Idle /\ control # NoControl
        /\ registry' = Retire(token.slot + 1)
        /\ Goto(t, "closing", control)
        /\ UNCHANGED controls

\* HandleControl::destroy: new calls are refused, running ones awaited.
Close(t) ==
    LET control == thread[t].control
    IN  /\ thread[t].at = "closing"
        /\ controls' = [controls EXCEPT ![control].destroyed = TRUE]
        /\ IF controls[control].active = 0 THEN Goto(t, "idle", NoControl)
           ELSE Goto(t, "waiting", control)
        /\ UNCHANGED registry

\* with_handle up to the end of the registry's lock; a token that names
\* nothing is answered with an error.
with_handle(t, token) ==
    /\ thread[t] = Idle
    /\ IF Lookup(token) = NoControl THEN thread' = thread ELSE Goto(t, "found", Lookup(token))
    /\ UNCHANGED <<registry, controls>>

\* Mutant of begin_call: the gate is not asked.
BeginAlways(t) ==
    LET control == thread[t].control
    IN  /\ thread[t].at = "found"
        /\ controls' = [controls EXCEPT ![control].active = @ + 1]
        /\ Goto(t, "entered", control)
        /\ UNCHANGED registry

begin_call(t) ==
    LET control == thread[t].control
    IN  /\ thread[t].at = "found"
        /\ IF controls[control].destroyed
           THEN Goto(t, "idle", NoControl) /\ UNCHANGED controls
           ELSE /\ controls' = [controls EXCEPT ![control].active = @ + 1]
                /\ Goto(t, "entered", control)
        /\ UNCHANGED registry

\* The call gets the simulation's lock ...
Run(t) ==
    LET control == thread[t].control
    IN  /\ thread[t].at = "entered" /\ controls[control].holder = {}
        /\ controls' = [controls EXCEPT ![control].holder = {t}]
        /\ Goto(t, "running", control)
        /\ UNCHANGED registry

\* ... and gives it back when it returns or panics.
Done(t) ==
    LET control == thread[t].control
    IN  /\ thread[t].at = "running"
        /\ controls' = [controls EXCEPT ![control].holder = {}]
        /\ Goto(t, "leaving", control)
        /\ UNCHANGED registry

\* Mutant of Leave: nobody is woken.
LeaveSilently(t) ==
    /\ thread[t].at = "leaving"
    /\ controls' = [controls EXCEPT ![thread[t].control].active = @ - 1]
    /\ Goto(t, "idle", NoControl)
    /\ UNCHANGED registry

\* The guard is dropped: the last call wakes whoever waits to destroy.
Leave(t) ==
    LET control == thread[t].control
        last == controls[control].active = 1
        woken == {u \in Threads : last /\ thread[u] = [at |-> "waiting", control |-> control]}
    IN  /\ thread[t].at = "leaving"
        /\ controls' = [controls EXCEPT ![control].active = @ - 1]
        /\ thread' = [u \in Threads |->
                         IF u = t THEN Idle
                         ELSE IF u \in woken THEN [thread[u] EXCEPT !.at = "woken"]
                         ELSE thread[u]]
        /\ UNCHANGED registry

\* A woken destroyer looks at the gate again.
Recheck(t) ==
    LET control == thread[t].control
    IN  /\ thread[t].at = "woken"
        /\ IF controls[control].active = 0 THEN Goto(t, "idle", NoControl)
           ELSE Goto(t, "waiting", control)
        /\ UNCHANGED <<registry, controls>>

Proceed(t) == Close(t) \/ begin_call(t) \/ Run(t) \/ Done(t) \/ Leave(t) \/ Recheck(t)

HandlesNext ==
    \E t \in Threads :
        \/ create_handle(t)
        \/ \E token \in Tokens : destroy_handle(t, token) \/ with_handle(t, token)
        \/ Proceed(t)

\* A thread that is inside a call of the library goes on.
HandlesFairness == \A t \in Threads : WF_handleVars(Proceed(t))

-----------------------------------------------------------------------------
Inside(control) == {t \in Threads : thread[t].control = control /\ thread[t].at \in {"entered", "running", "leaving"}}

\* The handle was taken out of the registry, and whoever took it has returned.
Gone(control) ==
    /\ \A s \in DOMAIN registry.slots : registry.slots[s].control # control
    /\ \A t \in Threads : thread[t].control = control => thread[t].at \notin {"closing", "waiting", "woken"}

\* Once destroy_handle has returned, no call runs in the handle and none can
\* enter it; a token only ever reaches the simulation it was made for, also
\* after its slot was used again; a simulation runs one call at a time.
HandlesAreSafe ==
    /\ \A c \in DOMAIN controls :
          /\ Gone(c) => controls[c].destroyed /\ Inside(c) = {}
          /\ {t \in Threads : thread[t] = [at |-> "running", control |-> c]} = controls[c].holder
    /\ \A c, d \in DOMAIN controls : controls[c].token = controls[d].token => c = d
    /\ \A s \in DOMAIN registry.slots :
          LET slot == registry.slots[s]
          IN  slot.control # NoControl =>
                 controls[slot.control].token = encode_handle_token(s, slot.generation, slot.nonce)
    /\ \A s \in DOMAIN registry.slots :
          (\E i \in DOMAIN registry.free : registry.free[i] = s) =>
              registry.slots[s].control = NoControl

\* A thread that destroys a handle comes back, whatever the others do.
DestroyReturns ==
    \A t \in Threads : thread[t].at = "closing" ~> thread[t].at = "idle"
=============================================================================
