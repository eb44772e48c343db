-------------------------- MODULE SimHandlesProofs --------------------------
(***************************************************************************)
(* Proofs about SimHandles, for every set of threads, number of slots,     *)
(* generations and nonces.                                                 *)
(***************************************************************************)
EXTENDS SimHandles, FiniteSetTheorems, SequenceTheorems, TLAPS

HandlesSpec == HandlesInit /\ [][HandlesNext]_handleVars

-----------------------------------------------------------------------------
(* The inductive invariant. *)

Destroying == {"closing", "waiting", "woken"}
Calling == {"entered", "running", "leaving"}
Places == {"idle", "found"} \cup Destroying \cup Calling

TokenType == [slot : Nat, generation : Nat, nonce : Nat]
SlotType == [generation : Nat, nonce : Nat, control : Nat]
ControlType == [token : TokenType, destroyed : BOOLEAN, active : Nat, holder : SUBSET Threads]
HandlesTypeOK ==
    /\ registry \in [slots : Seq(SlotType), free : Seq(Nat), nonce : Nat]
    /\ controls \in Seq(ControlType)
    /\ thread \in [Threads -> [at : Places, control : Nat]]
    /\ \A t \in Threads : /\ thread[t].at = "idle" <=> thread[t].control = NoControl
                          /\ thread[t].control # NoControl => thread[t].control \in DOMAIN controls

IsFree(s) == \E i \in DOMAIN registry.free : registry.free[i] = s

\* A slot names the control whose token it encodes, and a free slot names none.
SlotsOK ==
    /\ \A i \in DOMAIN registry.free :
          /\ registry.free[i] \in DOMAIN registry.slots
          /\ registry.slots[registry.free[i]].control = NoControl
    /\ \A i, j \in DOMAIN registry.free : registry.free[i] = registry.free[j] => i = j
    /\ \A s \in DOMAIN registry.slots :
          LET slot == registry.slots[s]
          IN  slot.control # NoControl =>
                  /\ slot.control \in DOMAIN controls
                  /\ controls[slot.control].token = encode_handle_token(s, slot.generation, slot.nonce)

\* A token is older than its slot's generation, or is the slot's own, or was
\* the last one of a slot that is used up.
TokensOK ==
    /\ \A c \in DOMAIN controls :
          LET token == controls[c].token
              s == token.slot + 1
          IN  /\ s \in DOMAIN registry.slots
              /\ \/ token.generation < registry.slots[s].generation
                 \/ /\ token.generation = registry.slots[s].generation
                    /\ \/ registry.slots[s].control = c
                       \/ registry.slots[s].control = NoControl /\ ~IsFree(s)
    /\ \A c, d \in DOMAIN controls : controls[c].token = controls[d].token => c = d

Registered(c) == \E s \in DOMAIN registry.slots : registry.slots[s].control = c

\* A control is registered, or has one thread that is about to close it, or
\* is closed.  A closed one has no calls left unless its destroyer waits.
GateOK ==
    /\ \A t \in Threads :
          thread[t].at \in Destroying =>
              /\ ~Registered(thread[t].control)
              /\ controls[thread[t].control].destroyed = (thread[t].at # "closing")
    /\ \A t, u \in Threads :
          /\ thread[t].at \in Destroying /\ thread[u].at \in Destroying
          /\ thread[t].control = thread[u].control
          => t = u
    /\ \A c \in DOMAIN controls :
          /\ controls[c].destroyed => ~Registered(c)
          /\ ~Registered(c) /\ ~controls[c].destroyed =>
                \E t \in Threads : thread[t].at = "closing" /\ thread[t].control = c
          /\ controls[c].destroyed /\ controls[c].active # 0 =>
                \E t \in Threads : thread[t].at \in {"waiting", "woken"} /\ thread[t].control = c

Running(c) == {t \in Threads : thread[t] = [at |-> "running", control |-> c]}

\* The gate counts the calls inside, and the simulation's lock is exclusive.
CountOK ==
    \A c \in DOMAIN controls :
        /\ controls[c].active = Cardinality(Inside(c))
        /\ Running(c) = controls[c].holder
        /\ \A t, u \in controls[c].holder : t = u

HandlesInv == HandlesTypeOK /\ SlotsOK /\ TokensOK /\ GateOK /\ CountOK

-----------------------------------------------------------------------------
(* The initial state, and one lemma per action. *)

LEMMA HandlesInitLemma == HandlesInit => HandlesInv
<1> SUFFICES ASSUME HandlesInit PROVE HandlesInv
  OBVIOUS
<1> USE DEF HandlesInit, Idle, NoControl
<1>1. HandlesTypeOK
  BY DEF HandlesTypeOK, Places
<1>2. SlotsOK
  BY DEF SlotsOK
<1>3. TokensOK
  BY DEF TokensOK
<1>4. GateOK
  BY DEF GateOK, Destroying
<1>5. CountOK
  BY DEF CountOK
<1> QED BY <1>1, <1>2, <1>3, <1>4, <1>5 DEF HandlesInv

LEMMA StutterLemma == HandlesInv /\ UNCHANGED handleVars => HandlesInv'
<1> SUFFICES ASSUME HandlesInv, UNCHANGED handleVars PROVE HandlesInv'
  OBVIOUS
<1> USE DEF handleVars
<1>1. HandlesTypeOK'
  BY DEF HandlesInv, HandlesTypeOK
<1>2. SlotsOK'
  BY DEF HandlesInv, SlotsOK
<1>3. TokensOK'
  BY DEF HandlesInv, TokensOK, IsFree
<1>4. GateOK'
  BY DEF HandlesInv, GateOK, Registered
<1>5. CountOK'
  BY DEF HandlesInv, CountOK, Running, Inside
<1> QED BY <1>1, <1>2, <1>3, <1>4, <1>5 DEF HandlesInv

\* A call that is refused, or that names nothing, leaves the registry and the
\* controls alone.
LEMMA FoundLemma ==
    ASSUME HandlesInv, NEW t \in Threads, NEW token \in Tokens, with_handle(t, token)
    PROVE  HandlesInv'
<1> DEFINE c == Lookup(token)
<1>0. CASE c = NoControl
  <2>1. UNCHANGED handleVars
    BY <1>0 DEF with_handle, handleVars
  <2> QED BY <2>1, StutterLemma
<1>1. CASE c # NoControl
  <2>1. c \in DOMAIN controls
    BY <1>1 DEF HandlesInv, SlotsOK, Lookup
  <2>2. /\ thread[t] = Idle
        /\ thread' = [thread EXCEPT ![t] = [at |-> "found", control |-> c]]
        /\ registry' = registry /\ controls' = controls
    BY <1>1 DEF with_handle, Goto
  <2> HIDE DEF c
  <2>3. HandlesTypeOK'
    BY <1>1, <2>1, <2>2 DEF HandlesInv, HandlesTypeOK, Places, NoControl
  <2>4. SlotsOK' /\ TokensOK'
    BY <2>2 DEF HandlesInv, SlotsOK, TokensOK, IsFree
  <2>5. GateOK'
    <3>1. \A d : Registered(d)' = Registered(d)
      BY <2>2 DEF Registered
    <3>2. \A u \in Threads : thread'[u] = IF u = t THEN [at |-> "found", control |-> c] ELSE thread[u]
      BY <2>2 DEF HandlesInv, HandlesTypeOK
    <3> QED BY <2>2, <3>1, <3>2 DEF HandlesInv, GateOK, Destroying, Idle
  <2>6. CountOK'
    <3>1. \A d : Inside(d)' = Inside(d) /\ Running(d)' = Running(d)
      BY <2>2 DEF HandlesInv, HandlesTypeOK, Inside, Running, Idle, NoControl
    <3> QED BY <2>2, <3>1 DEF HandlesInv, CountOK
  <2> QED BY <2>3, <2>4, <2>5, <2>6 DEF HandlesInv
<1> QED BY <1>0, <1>1

\* Steps at a gate touch neither the registry nor a token.
LEMMA GateKeepsTokens ==
    ASSUME HandlesInv, registry' = registry, DOMAIN controls' = DOMAIN controls,
           \A d \in DOMAIN controls : controls'[d].token = controls[d].token
    PROVE  SlotsOK' /\ TokensOK' /\ \A d : Registered(d)' = Registered(d)
<1>1. SlotsOK'
  BY DEF HandlesInv, SlotsOK
<1>2. TokensOK'
  BY DEF HandlesInv, TokensOK, IsFree
<1> QED BY <1>1, <1>2 DEF Registered

\* The control a thread is at, when it is at one.
LEMMA AtControl ==
    ASSUME HandlesInv, NEW t \in Threads, thread[t].at # "idle"
    PROVE  /\ thread[t].control \in DOMAIN controls
           /\ thread[t].control # NoControl
           /\ controls[thread[t].control] \in ControlType
<1>1. thread[t].control \in DOMAIN controls /\ thread[t].control # NoControl
  BY DEF HandlesInv, HandlesTypeOK
<1>2. controls \in Seq(ControlType)
  BY DEF HandlesInv, HandlesTypeOK
<1>3. thread[t].control \in 1..Len(controls)
  BY <1>1, <1>2, LenProperties
<1> QED BY <1>1, <1>2, <1>3, ElementOfSeq

\* A step at the gate of a control replaces that control.
LEMMA GateStep ==
    ASSUME HandlesInv, NEW c \in DOMAIN controls, NEW r \in ControlType,
           r.token = controls[c].token, registry' = registry,
           controls' = [controls EXCEPT ![c] = r]
    PROVE  /\ controls' \in Seq(ControlType)
           /\ DOMAIN controls' = DOMAIN controls
           /\ \A d \in DOMAIN controls : controls'[d] = IF d = c THEN r ELSE controls[d]
           /\ SlotsOK' /\ TokensOK' /\ \A d : Registered(d)' = Registered(d)
<1>1. controls \in Seq(ControlType)
  BY DEF HandlesInv, HandlesTypeOK
<1>2. c \in 1..Len(controls)
  BY <1>1, LenProperties
<1>3. controls' \in Seq(ControlType)
  BY <1>1, <1>2, ExceptSeq
<1>4. /\ DOMAIN controls' = DOMAIN controls
      /\ \A d \in DOMAIN controls : controls'[d] = IF d = c THEN r ELSE controls[d]
  BY <1>1, <1>2
<1>5. \A d \in DOMAIN controls : controls'[d].token = controls[d].token
  BY <1>4
<1> QED BY <1>3, <1>4, <1>5, GateKeepsTokens

\* What a step of thread t at the gate of its control c may do: replace the
\* control by r, go to n, and wake threads that wait.
GateMove(t, r, n) ==
    /\ r \in ControlType /\ r.token = controls[thread[t].control].token
    /\ n \in [at : Places, control : {NoControl, thread[t].control}]
    /\ n.at = "idle" <=> n.control = NoControl
    /\ registry' = registry
    /\ controls' = [controls EXCEPT ![thread[t].control] = r]
    /\ thread' \in [Threads -> [at : Places, control : Nat]]
    /\ thread'[t] = n
    /\ \A u \in Threads \ {t} :
          \/ thread'[u] = thread[u]
          \/ thread[u].at = "waiting" /\ thread'[u] = [at |-> "woken", control |-> thread[u].control]

\* The gate stays consistent when only a destroyer closes it, and nobody but
\* a destroyer that finds it empty gives up waiting.
LEMMA GateLemma ==
    ASSUME HandlesInv, NEW t \in Threads, thread[t].at # "idle", NEW r, NEW n, GateMove(t, r, n),
           n.at \in Destroying => thread[t].at \in Destroying /\ r.destroyed = (n.at # "closing"),
           r.destroyed = (controls[thread[t].control].destroyed \/ thread[t].at = "closing"),
           r.destroyed /\ r.active # 0 =>
              \/ n.at \in {"waiting", "woken"}
              \/ thread[t].at \notin Destroying /\ controls[thread[t].control].active # 0
    PROVE  HandlesTypeOK' /\ SlotsOK' /\ TokensOK' /\ GateOK'
<1> DEFINE c == thread[t].control
           p == thread[t].at
<1>1. c \in DOMAIN controls /\ c # NoControl /\ controls[c] \in ControlType
  BY AtControl
<1>2. /\ controls' \in Seq(ControlType) /\ DOMAIN controls' = DOMAIN controls
      /\ \A d \in DOMAIN controls : controls'[d] = IF d = c THEN r ELSE controls[d]
      /\ SlotsOK' /\ TokensOK' /\ \A d : Registered(d)' = Registered(d)
  BY <1>1, GateStep DEF GateMove
<1>3. HandlesTypeOK'
  <2>1. ASSUME NEW u \in Threads
        PROVE  /\ thread'[u].at = "idle" <=> thread'[u].control = NoControl
               /\ thread'[u].control # NoControl => thread'[u].control \in DOMAIN controls
    <3>1. CASE u = t
      BY <1>1, <3>1 DEF GateMove
    <3>2. CASE u # t /\ thread'[u] = thread[u]
      BY <3>2 DEF HandlesInv, HandlesTypeOK
    <3>3. CASE thread[u].at = "waiting" /\ thread'[u] = [at |-> "woken", control |-> thread[u].control]
      BY <3>3 DEF HandlesInv, HandlesTypeOK
    <3> QED BY <3>1, <3>2, <3>3 DEF GateMove
  <2>2. registry' = registry /\ thread' \in [Threads -> [at : Places, control : Nat]]
    BY DEF GateMove
  <2> QED BY <1>2, <2>1, <2>2 DEF HandlesInv, HandlesTypeOK
<1>4. /\ thread'[t] = n /\ n.at \in Places /\ (n.at = "idle" <=> n.control = NoControl)
      /\ n.control \in {NoControl, c}
  BY DEF GateMove
<1>5. \A u \in Threads \ {t} :
         /\ thread'[u].control = thread[u].control
         /\ thread'[u].at \in Destroying <=> thread[u].at \in Destroying
         /\ thread'[u].at = "closing" <=> thread[u].at = "closing"
         /\ thread'[u].at \in {"waiting", "woken"} <=> thread[u].at \in {"waiting", "woken"}
  BY DEF GateMove, Destroying
<1>6. ASSUME NEW u \in Threads, thread'[u].at \in Destroying
      PROVE  /\ \A d : d = thread'[u].control => ~Registered(d)
             /\ controls'[thread'[u].control].destroyed = (thread'[u].at # "closing")
  <2>1. CASE u = t
    <3>1. n.control = c /\ p \in Destroying
      BY <1>4, <1>6, <2>1 DEF Destroying
    <3>2. ~Registered(c)
      BY <3>1 DEF HandlesInv, GateOK
    <3> QED BY <1>1, <1>2, <1>4, <1>6, <2>1, <3>1, <3>2
  <2>2. CASE u # t
    <3>1. thread[u].at \in Destroying /\ thread[u].at # "idle" /\ thread'[u].control = thread[u].control
      BY <1>5, <1>6, <2>2 DEF Destroying
    <3>2. thread[u].control \in DOMAIN controls
      BY <3>1, AtControl
    <3>3. ~Registered(thread[u].control) /\ controls[thread[u].control].destroyed = (thread[u].at # "closing")
      BY <3>1 DEF HandlesInv, GateOK
    <3>4. thread[u].control = c /\ p = "closing" => FALSE
      BY <2>2, <3>1 DEF HandlesInv, GateOK, Destroying
    <3> QED BY <1>2, <1>5, <2>2, <3>1, <3>2, <3>3, <3>4
  <2> QED BY <2>1, <2>2
<1>7. ASSUME NEW u \in Threads, NEW v \in Threads, thread'[u].at \in Destroying, thread'[v].at \in Destroying,
             thread'[u].control = thread'[v].control
      PROVE  u = v
  <2>1. \A x \in Threads : thread'[x].at \in Destroying => thread[x].at \in Destroying /\ thread'[x].control = thread[x].control
    BY <1>4, <1>5 DEF Destroying
  <2> QED BY <1>7, <2>1 DEF HandlesInv, GateOK
<1>8. ASSUME NEW d \in DOMAIN controls
      PROVE  /\ controls'[d].destroyed => ~Registered(d)
             /\ ~Registered(d) /\ ~controls'[d].destroyed =>
                   \E u \in Threads : thread'[u].at = "closing" /\ thread'[u].control = d
             /\ controls'[d].destroyed /\ controls'[d].active # 0 =>
                   \E u \in Threads : thread'[u].at \in {"waiting", "woken"} /\ thread'[u].control = d
  <2>1. ASSUME controls'[d].destroyed PROVE ~Registered(d)
    <3>1. CASE d # c \/ controls[d].destroyed
      BY <1>2, <2>1, <3>1 DEF HandlesInv, GateOK
    <3>2. CASE d = c /\ ~controls[d].destroyed
      <4>1. p = "closing"
        BY <1>2, <2>1, <3>2
      <4> QED BY <3>2, <4>1 DEF HandlesInv, GateOK, Destroying
    <3> QED BY <3>1, <3>2
  <2>2. ASSUME ~Registered(d), ~controls'[d].destroyed
        PROVE  \E u \in Threads : thread'[u].at = "closing" /\ thread'[u].control = d
    <3>1. ~controls[d].destroyed /\ (d = c => p # "closing")
      BY <1>2, <2>2
    <3>2. PICK u \in Threads : thread[u].at = "closing" /\ thread[u].control = d
      BY <2>2, <3>1 DEF HandlesInv, GateOK
    <3>3. u # t
      BY <3>1, <3>2
    <3> QED BY <1>5, <3>2, <3>3
  <2>3. ASSUME controls'[d].destroyed, controls'[d].active # 0
        PROVE  \E u \in Threads : thread'[u].at \in {"waiting", "woken"} /\ thread'[u].control = d
    <3>1. CASE d = c /\ n.at \in {"waiting", "woken"}
      BY <1>1, <1>4, <3>1
    <3>2. CASE d = c /\ n.at \notin {"waiting", "woken"}
      <4>1. p \notin Destroying /\ controls[c].active # 0 /\ controls[c].destroyed
        BY <1>1, <1>2, <2>3, <3>2 DEF Destroying
      <4>2. PICK u \in Threads : thread[u].at \in {"waiting", "woken"} /\ thread[u].control = d
        BY <3>2, <4>1 DEF HandlesInv, GateOK
      <4> QED BY <1>5, <4>1, <4>2 DEF Destroying
    <3>3. CASE d # c
      <4>1. PICK u \in Threads : thread[u].at \in {"waiting", "woken"} /\ thread[u].control = d
        BY <1>2, <2>3, <3>3 DEF HandlesInv, GateOK
      <4> QED BY <1>5, <3>3, <4>1
    <3> QED BY <3>1, <3>2, <3>3
  <2> QED BY <2>1, <2>2, <2>3
<1>9. GateOK'
  BY <1>2, <1>6, <1>7, <1>8 DEF GateOK
<1> QED BY <1>2, <1>3, <1>9

\* A step that moves one thread is such a move.
LEMMA MoveLemma ==
    ASSUME HandlesInv, NEW t \in Threads, NEW r \in ControlType, NEW n,
           thread[t].at # "idle", r.token = controls[thread[t].control].token,
           n \in [at : Places, control : {NoControl, thread[t].control}],
           n.at = "idle" <=> n.control = NoControl,
           registry' = registry, controls' = [controls EXCEPT ![thread[t].control] = r],
           thread' = [thread EXCEPT ![t] = n]
    PROVE  GateMove(t, r, n)
<1>1. thread \in [Threads -> [at : Places, control : Nat]]
  BY DEF HandlesInv, HandlesTypeOK
<1>2. n \in [at : Places, control : Nat]
  BY <1>1 DEF NoControl
<1> QED BY <1>1, <1>2 DEF GateMove

\* The count and the lock stay right when a call that enters is counted, one
\* that leaves is not any more, and the lock is taken when it is free.
LEMMA CountLemma ==
    ASSUME HandlesInv, NEW t \in Threads, NEW r, NEW n, GateMove(t, r, n), thread[t].at # "idle",
           NEW c, c = thread[t].control,
           n.at \in Calling => n.control = c,
           n.at \in Calling /\ thread[t].at \notin Calling =>
               r.active = controls[c].active + 1,
           n.at \notin Calling /\ thread[t].at \in Calling =>
               r.active = controls[c].active - 1,
           (n.at \in Calling <=> thread[t].at \in Calling) =>
               r.active = controls[c].active,
           n.at = "running" => controls[c].holder = {} /\ r.holder = {t},
           n.at # "running" /\ thread[t].at = "running" => r.holder = {},
           n.at # "running" /\ thread[t].at # "running" =>
               r.holder = controls[c].holder
    PROVE  CountOK'
<1>1. /\ c \in DOMAIN controls /\ DOMAIN controls' = DOMAIN controls
      /\ \A d \in DOMAIN controls : controls'[d] = IF d = c THEN r ELSE controls[d]
  BY AtControl, GateStep DEF GateMove
<1>2. \A u \in Threads \ {t} : /\ thread'[u].at \in Calling <=> thread[u].at \in Calling
                               /\ thread[u].at \in Calling => thread'[u] = thread[u]
  BY DEF GateMove, Calling
<1>3. /\ thread'[t] = n /\ n = [at |-> n.at, control |-> n.control]
      /\ \A u \in Threads : thread[u] = [at |-> thread[u].at, control |-> thread[u].control]
  BY DEF GateMove, HandlesInv, HandlesTypeOK
<1>4. ASSUME NEW d \in DOMAIN controls, d # c
      PROVE  Inside(d)' = Inside(d) /\ Running(d)' = Running(d)
  <2>1. Inside(d)' = Inside(d)
    BY <1>2, <1>3, <1>4 DEF Inside, Calling
  <2>2. Running(d)' = Running(d)
    BY <1>2, <1>3, <1>4 DEF Running, Calling
  <2> QED BY <2>1, <2>2
<1>5. Inside(c)' = IF n.at \in Calling THEN Inside(c) \cup {t} ELSE Inside(c) \ {t}
  BY <1>2, <1>3 DEF Inside, Calling
<1>6. t \in Inside(c) <=> thread[t].at \in Calling
  BY DEF Inside, Calling
<1>7. r.active = Cardinality(Inside(c)')
  <2>1. IsFiniteSet(Inside(c)) /\ controls[c].active = Cardinality(Inside(c))
    BY <1>1, FS_Subset, ThreadsAssumption DEF Inside, HandlesInv, CountOK
  <2>2. CASE n.at \in Calling /\ t \notin Inside(c)
    BY <1>5, <1>6, <2>1, <2>2, FS_AddElement
  <2>3. CASE n.at \notin Calling /\ t \in Inside(c)
    BY <1>5, <1>6, <2>1, <2>3, FS_RemoveElement
  <2>4. CASE n.at \in Calling <=> t \in Inside(c)
    <3>1. Inside(c)' = Inside(c)
      BY <1>5, <2>4
    <3> QED BY <1>6, <2>1, <2>4, <3>1
  <2> QED BY <2>2, <2>3, <2>4
<1>8. Running(c)' = r.holder /\ \A u, v \in r.holder : u = v
  <2>1. Running(c) = controls[c].holder /\ \A u, v \in controls[c].holder : u = v
    BY <1>1 DEF HandlesInv, CountOK
  <2>2. Running(c)' = IF n.at = "running" THEN Running(c) \cup {t} ELSE Running(c) \ {t}
    BY <1>2, <1>3 DEF Running, Calling
  <2>3. t \in Running(c) <=> thread[t].at = "running"
    BY <1>3 DEF Running
  <2> QED BY <2>1, <2>2, <2>3
<1> QED BY <1>1, <1>4, <1>7, <1>8 DEF HandlesInv, CountOK

\* HandleControl::destroy refuses new calls and counts none.
LEMMA CloseLemma ==
    ASSUME HandlesInv, NEW t \in Threads, Close(t)
    PROVE  HandlesInv'
<1> DEFINE c == thread[t].control
           r == [controls[c] EXCEPT !.destroyed = TRUE]
           n == IF controls[c].active = 0 THEN Idle ELSE [at |-> "waiting", control |-> c]
<1>1. /\ c \in DOMAIN controls /\ c # NoControl /\ controls[c] \in ControlType
      /\ controls[c].destroyed \in BOOLEAN /\ thread[t].at = "closing" /\ thread[t].at # "idle"
  BY AtControl DEF Close, ControlType
<1>2. /\ thread' = [thread EXCEPT ![t] = n]
      /\ controls' = [controls EXCEPT ![c] = r]
      /\ registry' = registry
  BY DEF Close, Goto, Idle
<1>3. /\ r \in ControlType /\ r.token = controls[c].token /\ r.active = controls[c].active
      /\ r.holder = controls[c].holder /\ r.destroyed = TRUE
  BY <1>1 DEF ControlType
<1>4. /\ n \in [at : Places, control : {NoControl, c}]
      /\ n.at = "idle" <=> n.control = NoControl
      /\ n.at \in {"idle", "waiting"}
      /\ controls[c].active # 0 => n.at = "waiting"
  BY <1>1 DEF Idle, Places, Destroying
<1> HIDE DEF c, r, n
<1>5. GateMove(t, r, n)
  BY <1>1, <1>2, <1>3, <1>4, MoveLemma DEF c
<1>6. HandlesTypeOK' /\ SlotsOK' /\ TokensOK' /\ GateOK'
  BY <1>1, <1>3, <1>4, <1>5, GateLemma DEF c, Destroying
<1>7. CountOK'
  BY <1>1, <1>3, <1>4, <1>5, CountLemma DEF c, Calling
<1> QED BY <1>6, <1>7 DEF HandlesInv

\* begin_call counts a call, or refuses it at a closed gate.
LEMMA BeginLemma ==
    ASSUME HandlesInv, NEW t \in Threads, begin_call(t)
    PROVE  HandlesInv'
<1> DEFINE c == thread[t].control
           shut == controls[c].destroyed
           r == IF shut THEN controls[c] ELSE [controls[c] EXCEPT !.active = @ + 1]
           n == IF shut THEN Idle ELSE [at |-> "entered", control |-> c]
<1>1. /\ c \in DOMAIN controls /\ c # NoControl /\ controls[c] \in ControlType
      /\ controls[c].destroyed \in BOOLEAN /\ thread[t].at = "found" /\ thread[t].at # "idle"
  BY AtControl DEF begin_call, ControlType
<1>2. /\ thread' = [thread EXCEPT ![t] = n]
      /\ controls' = [controls EXCEPT ![c] = r]
      /\ registry' = registry
  <2>1. controls = [controls EXCEPT ![c] = controls[c]]
    BY <1>1 DEF HandlesInv, HandlesTypeOK
  <2> QED BY <2>1 DEF begin_call, Goto, Idle
<1>3. /\ r \in ControlType /\ r.token = controls[c].token /\ r.destroyed = controls[c].destroyed
      /\ r.holder = controls[c].holder /\ r.active = IF shut THEN controls[c].active ELSE controls[c].active + 1
  BY <1>1 DEF ControlType
<1>4. /\ n \in [at : Places, control : {NoControl, c}]
      /\ n.at = "idle" <=> n.control = NoControl
      /\ n.at = IF shut THEN "idle" ELSE "entered"
      /\ n.at = "entered" => n.control = c
  BY <1>1 DEF Idle, Places, Calling
<1> HIDE DEF c, r, n
<1>5. GateMove(t, r, n)
  BY <1>1, <1>2, <1>3, <1>4, MoveLemma DEF c
<1>6. HandlesTypeOK' /\ SlotsOK' /\ TokensOK' /\ GateOK'
  BY <1>1, <1>3, <1>4, <1>5, GateLemma DEF c, Destroying
<1>7. CountOK'
  BY <1>1, <1>3, <1>4, <1>5, CountLemma DEF c, Calling
<1> QED BY <1>6, <1>7 DEF HandlesInv

\* A call takes the simulation's lock.
LEMMA RunLemma ==
    ASSUME HandlesInv, NEW t \in Threads, Run(t)
    PROVE  HandlesInv'
<1> DEFINE c == thread[t].control
           r == [controls[c] EXCEPT !.holder = {t}]
           n == [at |-> "running", control |-> c]
<1>1. /\ c \in DOMAIN controls /\ c # NoControl /\ controls[c] \in ControlType
      /\ controls[c].destroyed \in BOOLEAN /\ thread[t].at = "entered" /\ thread[t].at # "idle" /\ controls[c].holder = {}
  BY AtControl DEF Run, ControlType
<1>2. /\ thread' = [thread EXCEPT ![t] = n]
      /\ controls' = [controls EXCEPT ![c] = r]
      /\ registry' = registry
  BY DEF Run, Goto
<1>3. /\ r \in ControlType /\ r.token = controls[c].token /\ r.destroyed = controls[c].destroyed
      /\ r.holder = {t} /\ r.active = controls[c].active
  BY <1>1 DEF ControlType
<1>4. /\ n \in [at : Places, control : {NoControl, c}]
      /\ n.at = "running" /\ n.control = c
  BY <1>1 DEF Places, Calling
<1> HIDE DEF c, r, n
<1>5. GateMove(t, r, n)
  BY <1>1, <1>2, <1>3, <1>4, MoveLemma DEF c
<1>6. HandlesTypeOK' /\ SlotsOK' /\ TokensOK' /\ GateOK'
  BY <1>1, <1>3, <1>4, <1>5, GateLemma DEF c, Destroying
<1>7. CountOK'
  BY <1>1, <1>3, <1>4, <1>5, CountLemma DEF c, Calling
<1> QED BY <1>6, <1>7 DEF HandlesInv

\* A call gives the simulation's lock back.
LEMMA DoneLemma ==
    ASSUME HandlesInv, NEW t \in Threads, Done(t)
    PROVE  HandlesInv'
<1> DEFINE c == thread[t].control
           r == [controls[c] EXCEPT !.holder = {}]
           n == [at |-> "leaving", control |-> c]
<1>1. /\ c \in DOMAIN controls /\ c # NoControl /\ controls[c] \in ControlType
      /\ controls[c].destroyed \in BOOLEAN /\ thread[t].at = "running" /\ thread[t].at # "idle"
  BY AtControl DEF Done, ControlType
<1>2. /\ thread' = [thread EXCEPT ![t] = n]
      /\ controls' = [controls EXCEPT ![c] = r]
      /\ registry' = registry
  BY DEF Done, Goto
<1>3. /\ r \in ControlType /\ r.token = controls[c].token /\ r.destroyed = controls[c].destroyed
      /\ r.holder = {} /\ r.active = controls[c].active
  BY <1>1 DEF ControlType
<1>4. /\ n \in [at : Places, control : {NoControl, c}]
      /\ n.at = "leaving" /\ n.control = c
  BY <1>1 DEF Places, Calling
<1> HIDE DEF c, r, n
<1>5. GateMove(t, r, n)
  BY <1>1, <1>2, <1>3, <1>4, MoveLemma DEF c
<1>6. HandlesTypeOK' /\ SlotsOK' /\ TokensOK' /\ GateOK'
  BY <1>1, <1>3, <1>4, <1>5, GateLemma DEF c, Destroying
<1>7. CountOK'
  BY <1>1, <1>3, <1>4, <1>5, CountLemma DEF c, Calling
<1> QED BY <1>6, <1>7 DEF HandlesInv

\* A call leaves the gate, and the last one wakes the destroyer.
LEMMA LeaveLemma ==
    ASSUME HandlesInv, NEW t \in Threads, Leave(t)
    PROVE  HandlesInv'
<1> DEFINE c == thread[t].control
           r == [controls[c] EXCEPT !.active = @ - 1]
<1>1. /\ c \in DOMAIN controls /\ c # NoControl /\ controls[c] \in ControlType
      /\ controls[c].destroyed \in BOOLEAN /\ thread[t].at = "leaving" /\ thread[t].at # "idle"
  BY AtControl DEF Leave, ControlType
<1>2. controls' = [controls EXCEPT ![c] = r] /\ registry' = registry
  BY DEF Leave
<1>3. controls[c].active # 0
  <2>1. t \in Inside(c) /\ IsFiniteSet(Inside(c))
    BY <1>1, FS_Subset, ThreadsAssumption DEF Inside
  <2>2. controls[c].active = Cardinality(Inside(c))
    BY <1>1 DEF HandlesInv, CountOK
  <2> QED BY <2>1, <2>2, FS_EmptySet
<1>4. /\ r \in ControlType /\ r.token = controls[c].token /\ r.destroyed = controls[c].destroyed
      /\ r.holder = controls[c].holder /\ r.active = controls[c].active - 1
  BY <1>1, <1>3 DEF ControlType
<1>5. /\ thread'[t] = Idle
      /\ thread' \in [Threads -> [at : Places, control : Nat]]
      /\ \A u \in Threads \ {t} :
            \/ thread'[u] = thread[u]
            \/ thread[u].at = "waiting" /\ thread'[u] = [at |-> "woken", control |-> thread[u].control]
  <2> DEFINE woken == {u \in Threads : controls[c].active = 1 /\ thread[u] = [at |-> "waiting", control |-> c]}
  <2>1. thread' = [u \in Threads |-> IF u = t THEN Idle
                                    ELSE IF u \in woken THEN [thread[u] EXCEPT !.at = "woken"] ELSE thread[u]]
    BY DEF Leave
  <2>2. thread \in [Threads -> [at : Places, control : Nat]]
    BY DEF HandlesInv, HandlesTypeOK
  <2>3. \A u \in woken : thread[u].at = "waiting"
    OBVIOUS
  <2>4. \A u \in Threads : [thread[u] EXCEPT !.at = "woken"] = [at |-> "woken", control |-> thread[u].control]
    BY <2>2
  <2>5. Idle \in [at : Places, control : Nat]
    BY DEF Idle, NoControl, Places
  <2>6. \A u \in Threads : [at |-> "woken", control |-> thread[u].control] \in [at : Places, control : Nat]
    BY <2>2 DEF Places, Destroying
  <2> HIDE DEF woken
  <2> QED BY <2>1, <2>2, <2>3, <2>4, <2>5, <2>6
<1>6. Idle.at = "idle" /\ Idle.control = NoControl /\ Idle \in [at : Places, control : {NoControl, c}]
  BY DEF Idle, Places
<1> HIDE DEF c, r
<1>7. GateMove(t, r, Idle)
  BY <1>2, <1>4, <1>5, <1>6 DEF GateMove, c
<1>8. HandlesTypeOK' /\ SlotsOK' /\ TokensOK' /\ GateOK'
  BY <1>1, <1>3, <1>4, <1>6, <1>7, GateLemma DEF c, Destroying
<1>9. CountOK'
  BY <1>1, <1>4, <1>6, <1>7, CountLemma DEF c, Calling
<1> QED BY <1>8, <1>9 DEF HandlesInv

\* A woken destroyer returns only when nobody is inside.
LEMMA RecheckLemma ==
    ASSUME HandlesInv, NEW t \in Threads, Recheck(t)
    PROVE  HandlesInv'
<1> DEFINE c == thread[t].control
           r == controls[c]
           n == IF controls[c].active = 0 THEN Idle ELSE [at |-> "waiting", control |-> c]
<1>1. /\ c \in DOMAIN controls /\ c # NoControl /\ controls[c] \in ControlType
      /\ controls[c].destroyed \in BOOLEAN /\ thread[t].at = "woken" /\ thread[t].at # "idle"
  BY AtControl DEF Recheck, ControlType
<1>2. /\ thread' = [thread EXCEPT ![t] = n]
      /\ controls' = [controls EXCEPT ![c] = r]
      /\ registry' = registry
  <2>1. controls = [controls EXCEPT ![c] = controls[c]]
    BY <1>1 DEF HandlesInv, HandlesTypeOK
  <2> QED BY <2>1 DEF Recheck, Goto, Idle
<1>3. controls[c].destroyed = TRUE
  BY <1>1 DEF HandlesInv, GateOK, Destroying, ControlType
<1>4. /\ n \in [at : Places, control : {NoControl, c}]
      /\ n.at = "idle" <=> n.control = NoControl
      /\ n.at \in {"idle", "waiting"}
      /\ controls[c].active # 0 => n.at = "waiting"
  BY <1>1 DEF Idle, Places, Destroying
<1> HIDE DEF n
<1>5. GateMove(t, r, n)
  BY <1>1, <1>2, <1>4, MoveLemma
<1>6. HandlesTypeOK' /\ SlotsOK' /\ TokensOK' /\ GateOK'
  BY <1>1, <1>3, <1>4, <1>5, GateLemma DEF Destroying
<1>7. CountOK'
  BY <1>1, <1>4, <1>5, CountLemma DEF Calling
<1> QED BY <1>6, <1>7 DEF HandlesInv

\* What create_handle does to the registry: control n is added, in a slot that
\* was free or did not exist.
Registers(n, slot, entry) ==
    /\ n = Len(controls) + 1
    /\ entry \in SlotType /\ entry.control = n /\ slot \in Nat \ {0}
    /\ registry' \in [slots : Seq(SlotType), free : Seq(Nat), nonce : Nat]
    /\ DOMAIN registry'.slots = DOMAIN registry.slots \cup {slot}
    /\ \A s \in DOMAIN registry'.slots :
          registry'.slots[s] = IF s = slot THEN entry ELSE registry.slots[s]
    /\ \/ slot \notin DOMAIN registry.slots
       \/ /\ slot \in DOMAIN registry.slots /\ IsFree(slot)
          /\ registry.slots[slot].control = NoControl
          /\ entry.generation = registry.slots[slot].generation
    /\ \A i \in DOMAIN registry'.free :
          i \in DOMAIN registry.free /\ registry'.free[i] = registry.free[i] /\ registry.free[i] # slot
    /\ \A s : IsFree(s) /\ s # slot => \E i \in DOMAIN registry'.free : registry'.free[i] = s
    /\ controls' = Append(controls, NewControl(encode_handle_token(slot, entry.generation, entry.nonce)))
    /\ thread' = thread

LEMMA RegisterLemma ==
    ASSUME HandlesInv, NEW n, NEW slot, NEW entry, Registers(n, slot, entry)
    PROVE  HandlesInv'
<1> DEFINE token == encode_handle_token(slot, entry.generation, entry.nonce)
           fresh == NewControl(token)
<1>1. /\ token = [slot |-> slot - 1, generation |-> entry.generation, nonce |-> entry.nonce]
      /\ token \in TokenType /\ token.slot + 1 = slot /\ token.generation = entry.generation
  BY DEF Registers, encode_handle_token, TokenType, SlotType
<1>2. /\ fresh \in ControlType /\ fresh.token = token /\ fresh.destroyed = FALSE /\ fresh.active = 0
      /\ fresh.holder = {}
  BY <1>1 DEF NewControl, ControlType
<1> HIDE DEF token, fresh
<1>3. controls \in Seq(ControlType) /\ DOMAIN controls = 1..Len(controls) /\ Len(controls) \in Nat
  BY LenProperties DEF HandlesInv, HandlesTypeOK
<1>4. /\ controls' \in Seq(ControlType) /\ DOMAIN controls' = DOMAIN controls \cup {n}
      /\ n \notin DOMAIN controls /\ n # NoControl /\ n \in Nat
      /\ controls'[n] = fresh
      /\ \A d \in DOMAIN controls : controls'[d] = controls[d]
  <2>1. controls' = Append(controls, fresh) /\ n = Len(controls) + 1
    BY DEF Registers, fresh, token
  <2>2. /\ controls' \in Seq(ControlType) /\ Len(controls') = Len(controls) + 1
        /\ \A d \in 1..Len(controls) : controls'[d] = controls[d]
        /\ controls'[Len(controls) + 1] = fresh
    BY <1>2, <1>3, <2>1, AppendProperties
  <2>3. DOMAIN controls' = 1..(Len(controls) + 1)
    BY <2>2, LenProperties
  <2> QED BY <1>3, <2>1, <2>2, <2>3 DEF NoControl
<1>5. \A t \in Threads : thread'[t] = thread[t] /\ thread[t].control # n
  BY <1>4 DEF Registers, HandlesInv, HandlesTypeOK
<1>6. HandlesTypeOK'
  BY <1>4 DEF Registers, HandlesInv, HandlesTypeOK
<1>7. SlotsOK'
  <2>1. ASSUME NEW i \in DOMAIN registry'.free
        PROVE  /\ registry'.free[i] \in DOMAIN registry'.slots
               /\ registry'.slots[registry'.free[i]].control = NoControl
    BY DEF Registers, HandlesInv, SlotsOK
  <2>2. ASSUME NEW i \in DOMAIN registry'.free, NEW j \in DOMAIN registry'.free,
               registry'.free[i] = registry'.free[j]
        PROVE  i = j
    BY <2>2 DEF Registers, HandlesInv, SlotsOK
  <2>3. ASSUME NEW s \in DOMAIN registry'.slots, registry'.slots[s].control # NoControl
        PROVE  /\ registry'.slots[s].control \in DOMAIN controls'
               /\ controls'[registry'.slots[s].control].token =
                     encode_handle_token(s, registry'.slots[s].generation, registry'.slots[s].nonce)
    <3>1. CASE s = slot
      BY <1>2, <1>4, <2>3, <3>1 DEF Registers, token
    <3>2. CASE s # slot
      BY <1>4, <2>3, <3>2 DEF Registers, HandlesInv, SlotsOK
    <3> QED BY <3>1, <3>2
  <2> QED BY <2>1, <2>2, <2>3 DEF SlotsOK
<1>8. TokensOK'
  <2>1. ASSUME NEW d \in DOMAIN controls
        PROVE  /\ controls[d].token.slot + 1 \in DOMAIN registry.slots
               /\ controls[d].token.slot + 1 = slot => controls[d].token.generation < entry.generation
    BY DEF Registers, HandlesInv, TokensOK, NoControl
  <2>2. ASSUME NEW d \in DOMAIN controls'
        PROVE  /\ controls'[d].token.slot + 1 \in DOMAIN registry'.slots
               /\ \/ controls'[d].token.generation < registry'.slots[controls'[d].token.slot + 1].generation
                  \/ /\ controls'[d].token.generation = registry'.slots[controls'[d].token.slot + 1].generation
                     /\ \/ registry'.slots[controls'[d].token.slot + 1].control = d
                        \/ /\ registry'.slots[controls'[d].token.slot + 1].control = NoControl
                           /\ ~\E i \in DOMAIN registry'.free : registry'.free[i] = controls'[d].token.slot + 1
    <3>1. CASE d = n
      <4>1. slot \in DOMAIN registry'.slots /\ registry'.slots[slot] = entry /\ entry.control = n
        BY DEF Registers
      <4>2. controls'[d].token.slot + 1 = slot /\ controls'[d].token.generation = entry.generation
        BY <1>1, <1>2, <1>4, <3>1
      <4> QED BY <3>1, <4>1, <4>2
    <3>2. CASE d # n /\ controls[d].token.slot + 1 = slot
      BY <1>4, <2>1, <2>2, <3>2 DEF Registers
    <3>3. CASE d # n /\ controls[d].token.slot + 1 # slot
      BY <1>4, <2>1, <2>2, <3>3 DEF Registers, HandlesInv, TokensOK, IsFree
    <3> QED BY <3>1, <3>2, <3>3
  <2>3. ASSUME NEW d \in DOMAIN controls', NEW e \in DOMAIN controls', controls'[d].token = controls'[e].token
        PROVE  d = e
    <3>1. \A f \in DOMAIN controls : controls[f].token # token
      <4> SUFFICES ASSUME NEW f \in DOMAIN controls, controls[f].token = token PROVE FALSE
        OBVIOUS
      <4>1. entry.generation \in Nat
        BY DEF Registers, SlotType
      <4>2. entry.generation < entry.generation
        BY <1>1, <2>1
      <4> QED BY <4>1, <4>2
    <3> QED BY <1>2, <1>4, <2>3, <3>1 DEF HandlesInv, TokensOK
  <2> QED BY <2>2, <2>3 DEF TokensOK, IsFree
<1>9. \A d \in DOMAIN controls' : Registered(d)' <=> Registered(d) \/ d = n
  <2> SUFFICES ASSUME NEW d \in DOMAIN controls' PROVE Registered(d)' <=> Registered(d) \/ d = n
    OBVIOUS
  <2>1. d # NoControl
    BY <1>3, <1>4 DEF NoControl
  <2> QED BY <2>1 DEF Registered, Registers
<1>10. GateOK'
  <2>0. \A t \in Threads : thread[t].at \in Destroying => thread[t].control \in DOMAIN controls
    BY AtControl DEF Destroying
  <2>1. ASSUME NEW t \in Threads, thread[t].at \in Destroying
        PROVE  /\ ~Registered(thread[t].control) /\ thread[t].control \in DOMAIN controls /\ thread[t].control # n
               /\ controls'[thread[t].control].destroyed = (thread[t].at # "closing")
    BY <1>4, <1>5, <2>0, <2>1 DEF HandlesInv, GateOK
  <2>2. ASSUME NEW d \in DOMAIN controls'
        PROVE  /\ controls'[d].destroyed => ~(Registered(d) \/ d = n)
               /\ ~(Registered(d) \/ d = n) /\ ~controls'[d].destroyed =>
                     \E t \in Threads : thread[t].at = "closing" /\ thread[t].control = d
               /\ controls'[d].destroyed /\ controls'[d].active # 0 =>
                     \E t \in Threads : thread[t].at \in {"waiting", "woken"} /\ thread[t].control = d
    <3>1. CASE d = n
      BY <1>2, <1>4, <3>1
    <3>2. CASE d # n
      BY <1>4, <3>2 DEF HandlesInv, GateOK
    <3> QED BY <3>1, <3>2
  <2>3. thread' = thread
    BY DEF Registers
  <2>4. \A t \in Threads : thread[t].at \in Destroying => ~Registered(thread[t].control)'
    <3> SUFFICES ASSUME NEW t \in Threads, thread[t].at \in Destroying, NEW d, d = thread[t].control
                 PROVE  ~Registered(d)'
      BY <2>3
    <3> QED BY <1>4, <1>9, <2>1
  <2>5. \A d \in DOMAIN controls' :
           /\ controls'[d].destroyed => ~Registered(d)'
           /\ ~Registered(d)' /\ ~controls'[d].destroyed =>
                 \E t \in Threads : thread[t].at = "closing" /\ thread[t].control = d
           /\ controls'[d].destroyed /\ controls'[d].active # 0 =>
                 \E t \in Threads : thread[t].at \in {"waiting", "woken"} /\ thread[t].control = d
    BY <1>9, <2>2
  <2>6. \A t, u \in Threads : thread[t].at \in Destroying /\ thread[u].at \in Destroying
                              /\ thread[t].control = thread[u].control => t = u
    BY DEF HandlesInv, GateOK
  <2> QED BY <2>1, <2>3, <2>4, <2>5, <2>6 DEF GateOK
<1>11. CountOK'
  <2>1. \A d : Inside(d)' = Inside(d) /\ Running(d)' = Running(d)
    BY DEF Registers, Inside, Running
  <2>2. Inside(n) = {} /\ Running(n) = {} /\ Cardinality({}) = 0
    BY <1>5, FS_EmptySet DEF Inside, Running
  <2> QED BY <1>2, <1>4, <2>1, <2>2 DEF HandlesInv, CountOK
<1> QED BY <1>6, <1>7, <1>8, <1>10, <1>11 DEF HandlesInv

LEMMA CreateLemma ==
    ASSUME HandlesInv, NEW t \in Threads, create_handle(t)
    PROVE  HandlesInv'
<1> DEFINE slots == registry.slots
           free == registry.free
           reused == free # <<>>
           slot == IF reused THEN Last(free) ELSE Len(slots) + 1
           room == reused \/ slot - 1 <= SlotMax
           generation == IF reused THEN slots[slot].generation ELSE 1
           n == Len(controls) + 1
           entry == [generation |-> generation, nonce |-> allocate_nonce, control |-> n]
<1>1. /\ registry' = [slots |-> IF ~room THEN slots
                                ELSE IF reused THEN [slots EXCEPT ![slot] = entry] ELSE Append(slots, entry),
                      free |-> IF reused THEN Front(free) ELSE free,
                      nonce |-> allocate_nonce]
      /\ controls' = IF room THEN Append(controls, NewControl(encode_handle_token(slot, generation, allocate_nonce)))
                     ELSE controls
      /\ thread' = thread
  BY DEF create_handle
<1>2. /\ slots \in Seq(SlotType) /\ DOMAIN slots = 1..Len(slots) /\ Len(slots) \in Nat
      /\ free \in Seq(Nat) /\ DOMAIN free = 1..Len(free) /\ Len(free) \in Nat
      /\ registry.nonce \in Nat /\ Len(controls) \in Nat
  BY LenProperties DEF HandlesInv, HandlesTypeOK
<1>3. allocate_nonce \in Nat
  BY <1>2, NonceAssumption DEF allocate_nonce
<1>4. CASE ~room
  <2>1. registry' = [registry EXCEPT !.nonce = allocate_nonce] /\ controls' = controls /\ thread' = thread
    BY <1>1, <1>4 DEF HandlesInv, HandlesTypeOK
  <2>2. registry'.slots = registry.slots /\ registry'.free = registry.free
    BY <2>1 DEF HandlesInv, HandlesTypeOK
  <2>3. HandlesTypeOK'
    BY <1>3, <2>1 DEF HandlesInv, HandlesTypeOK
  <2>4. SlotsOK'
    BY <2>1, <2>2 DEF HandlesInv, SlotsOK
  <2>5. TokensOK'
    BY <2>1, <2>2 DEF HandlesInv, TokensOK, IsFree
  <2>6. GateOK'
    BY <2>1, <2>2 DEF HandlesInv, GateOK, Registered
  <2>7. CountOK'
    BY <2>1 DEF HandlesInv, CountOK, Inside, Running
  <2> QED BY <2>3, <2>4, <2>5, <2>6, <2>7 DEF HandlesInv
<1>5. CASE room /\ reused
  <2>1. Len(free) \in DOMAIN free /\ slot = free[Len(free)]
    BY <1>2, <1>5, EmptySeq DEF Last
  <2>2. slot \in DOMAIN slots /\ slots[slot].control = NoControl /\ IsFree(slot)
    BY <2>1 DEF HandlesInv, SlotsOK, IsFree
  <2>3. slots[slot] \in SlotType /\ slot \in Nat \ {0}
    BY <1>2, <2>2, ElementOfSeq
  <2>4. entry \in SlotType /\ entry.control = n /\ entry.generation = slots[slot].generation
        /\ entry.generation = generation /\ entry.nonce = allocate_nonce
    BY <1>2, <1>3, <1>5, <2>3 DEF SlotType
  <2> HIDE DEF entry, generation
  <2>5. registry'.slots = [slots EXCEPT ![slot] = entry] /\ registry'.free = Front(free)
    BY <1>1, <1>5
  <2>6. /\ registry'.slots \in Seq(SlotType) /\ DOMAIN registry'.slots = DOMAIN slots
        /\ \A s \in DOMAIN slots : registry'.slots[s] = IF s = slot THEN entry ELSE slots[s]
    BY <1>2, <2>2, <2>4, <2>5, ExceptSeq
  <2>7. /\ registry'.free \in Seq(Nat) /\ DOMAIN registry'.free = 1..(Len(free) - 1)
        /\ \A i \in 1..(Len(free) - 1) : registry'.free[i] = free[i]
    <3>1. \A i \in 1..(Len(free) - 1) : free[i] \in Nat
      BY <1>2, ElementOfSeq
    <3>2. /\ registry'.free \in Seq(Nat) /\ Len(registry'.free) = Len(free) - 1
          /\ \A i \in 1..(Len(free) - 1) : registry'.free[i] = free[i]
      BY <1>2, <2>1, <2>5, <3>1, SubSeqProperties DEF Front
    <3> QED BY <3>2, LenProperties
  <2>8. \A i \in DOMAIN free : free[i] = slot => i = Len(free)
    BY <2>1 DEF HandlesInv, SlotsOK
  <2>9. \A s : IsFree(s) /\ s # slot => \E i \in DOMAIN registry'.free : registry'.free[i] = s
    <3> SUFFICES ASSUME NEW s, IsFree(s), s # slot
                 PROVE  \E i \in DOMAIN registry'.free : registry'.free[i] = s
      OBVIOUS
    <3>1. PICK i \in DOMAIN free : free[i] = s
      BY DEF IsFree
    <3>2. i \in 1..(Len(free) - 1)
      BY <1>2, <2>1, <3>1
    <3> QED BY <2>7, <3>1, <3>2
  <2>10. \A i \in DOMAIN registry'.free : i \in DOMAIN free /\ registry'.free[i] = free[i] /\ free[i] # slot
    <3> HIDE DEF slot
    <3> SUFFICES ASSUME NEW i \in DOMAIN registry'.free
                 PROVE  i \in DOMAIN free /\ registry'.free[i] = free[i] /\ free[i] # slot
      OBVIOUS
    <3>1. i \in 1..(Len(free) - 1) /\ i \in DOMAIN free /\ i # Len(free)
      BY <1>2, <2>7
    <3> QED BY <2>7, <2>8, <3>1
  <2>11. registry' \in [slots : Seq(SlotType), free : Seq(Nat), nonce : Nat]
    <3>1. registry' = [slots |-> registry'.slots, free |-> registry'.free, nonce |-> allocate_nonce]
      BY <1>1
    <3> QED BY <1>3, <2>6, <2>7, <3>1
  <2>12. DOMAIN slots \cup {slot} = DOMAIN slots
    BY <2>2
  <2>13. controls' = Append(controls, NewControl(encode_handle_token(slot, entry.generation, entry.nonce))) /\ thread' = thread
    BY <1>1, <1>5, <2>4
  <2> HIDE DEF slot, n
  <2>14. Registers(n, slot, entry)
    BY <2>2, <2>3, <2>4, <2>6, <2>9, <2>10, <2>11, <2>12, <2>13 DEF Registers, n
  <2> QED BY <2>14, RegisterLemma
<1>6. CASE room /\ ~reused
  <2>1. slot = Len(slots) + 1 /\ generation = 1 /\ free = <<>>
    BY <1>6
  <2>2. slot \notin DOMAIN slots /\ slot \in Nat \ {0}
    BY <1>2, <2>1
  <2>3. entry \in SlotType /\ entry.control = n /\ entry.generation = generation /\ entry.nonce = allocate_nonce
    BY <1>2, <1>3, <2>1 DEF SlotType
  <2> HIDE DEF entry, generation
  <2>4. registry'.slots = Append(slots, entry) /\ registry'.free = free
    BY <1>1, <1>6
  <2>5. /\ registry'.slots \in Seq(SlotType) /\ DOMAIN registry'.slots = DOMAIN slots \cup {slot}
        /\ registry'.slots[slot] = entry
        /\ \A s \in DOMAIN slots : registry'.slots[s] = slots[s]
    <3>1. /\ registry'.slots \in Seq(SlotType) /\ Len(registry'.slots) = Len(slots) + 1
          /\ \A s \in 1..Len(slots) : registry'.slots[s] = slots[s]
          /\ registry'.slots[Len(slots) + 1] = entry
      BY <1>2, <2>3, <2>4, AppendProperties
    <3>2. DOMAIN registry'.slots = 1..(Len(slots) + 1)
      BY <3>1, LenProperties
    <3> QED BY <1>2, <2>1, <3>1, <3>2
  <2>6. \A s \in DOMAIN registry'.slots : registry'.slots[s] = IF s = slot THEN entry ELSE slots[s]
    BY <2>2, <2>5
  <2>7. DOMAIN free = {} /\ DOMAIN registry'.free = {} /\ \A s : ~IsFree(s)
    BY <2>1, <2>4 DEF IsFree
  <2>8. registry' \in [slots : Seq(SlotType), free : Seq(Nat), nonce : Nat]
    BY <1>1, <1>2, <1>3, <2>4, <2>5
  <2>9. controls' = Append(controls, NewControl(encode_handle_token(slot, entry.generation, entry.nonce))) /\ thread' = thread
    BY <1>1, <1>6, <2>3
  <2> HIDE DEF slot, n
  <2>10. Registers(n, slot, entry)
    BY <2>2, <2>3, <2>5, <2>6, <2>7, <2>8, <2>9 DEF Registers, n
  <2> QED BY <2>10, RegisterLemma
<1> QED BY <1>4, <1>5, <1>6

\* destroy_handle takes the control out of its slot; the slot is used again
\* with a new generation, or never.
LEMMA DestroyLemma ==
    ASSUME HandlesInv, NEW t \in Threads, NEW token \in Tokens, destroy_handle(t, token)
    PROVE  HandlesInv'
<1> DEFINE slots == registry.slots
           free == registry.free
<1>1. PICK slot, c : /\ slot \in DOMAIN slots /\ c = slots[slot].control /\ c # NoControl
                     /\ registry' = Retire(slot)
                     /\ thread' = [thread EXCEPT ![t] = [at |-> "closing", control |-> c]]
                     /\ thread[t] = Idle /\ controls' = controls
  BY DEF destroy_handle, Lookup, Goto
<1>2. /\ slots \in Seq(SlotType) /\ DOMAIN slots = 1..Len(slots) /\ Len(slots) \in Nat
      /\ free \in Seq(Nat) /\ DOMAIN free = 1..Len(free) /\ Len(free) \in Nat
      /\ registry = [slots |-> slots, free |-> free, nonce |-> registry.nonce] /\ registry.nonce \in Nat
  BY LenProperties DEF HandlesInv, HandlesTypeOK
<1>3. slots[slot] \in SlotType /\ slot \in Nat
  BY <1>1, <1>2, ElementOfSeq
<1>4. PICK entry \in SlotType :
         /\ entry.control = NoControl /\ entry.nonce = slots[slot].nonce
         /\ registry'.slots = [slots EXCEPT ![slot] = entry] /\ registry'.nonce = registry.nonce
         /\ \/ entry.generation = slots[slot].generation /\ registry'.free = free
            \/ entry.generation = slots[slot].generation + 1 /\ registry'.free = Append(free, slot)
         /\ registry' = [slots |-> registry'.slots, free |-> registry'.free, nonce |-> registry'.nonce]
  <2>1. CASE slots[slot].generation = GenerationMax
    <3> DEFINE entry == [slots[slot] EXCEPT !.control = NoControl]
    <3>1. entry \in SlotType /\ entry.control = NoControl /\ entry.nonce = slots[slot].nonce
          /\ entry.generation = slots[slot].generation
      BY <1>3 DEF SlotType, NoControl
    <3>2. registry' = [slots |-> [slots EXCEPT ![slot] = entry], free |-> free, nonce |-> registry.nonce]
      BY <1>1, <1>2, <2>1 DEF Retire
    <3> HIDE DEF entry
    <3> QED BY <3>1, <3>2
  <2>2. CASE slots[slot].generation # GenerationMax
    <3> DEFINE entry == [generation |-> slots[slot].generation + 1, nonce |-> slots[slot].nonce, control |-> NoControl]
    <3>1. entry \in SlotType /\ entry.control = NoControl /\ entry.nonce = slots[slot].nonce
          /\ entry.generation = slots[slot].generation + 1
      BY <1>3 DEF SlotType, NoControl
    <3>2. registry' = [slots |-> [slots EXCEPT ![slot] = entry], free |-> Append(free, slot), nonce |-> registry.nonce]
      <4>1. registry' = [registry EXCEPT !.slots[slot].control = NoControl, !.slots[slot].generation = @ + 1,
                                         !.free = Append(@, slot)]
        BY <1>1, <2>2 DEF Retire
      <4>2. [slots EXCEPT ![slot].control = NoControl, ![slot].generation = @ + 1] = [slots EXCEPT ![slot] = entry]
        <5> DEFINE one == [slots EXCEPT ![slot].control = NoControl]
                   two == [one EXCEPT ![slot].generation = @ + 1]
        <5>1. one[slot] = [generation |-> slots[slot].generation, nonce |-> slots[slot].nonce, control |-> NoControl]
              /\ DOMAIN one = DOMAIN slots /\ \A s \in DOMAIN slots \ {slot} : one[s] = slots[s]
          BY <1>1, <1>2, <1>3 DEF SlotType
        <5> HIDE DEF one
        <5>2. two[slot] = entry /\ DOMAIN two = DOMAIN slots /\ \A s \in DOMAIN slots \ {slot} : two[s] = slots[s]
          BY <1>1, <5>1
        <5>3. two = [s \in DOMAIN slots |-> IF s = slot THEN entry ELSE slots[s]]
          BY <5>2 DEF one
        <5> QED BY <5>3 DEF one
      <4>3. registry' = [slots |-> [slots EXCEPT ![slot].control = NoControl, ![slot].generation = @ + 1],
                         free |-> Append(free, slot), nonce |-> registry.nonce]
        BY <1>2, <4>1
      <4> QED BY <4>2, <4>3
    <3> HIDE DEF entry
    <3> QED BY <3>1, <3>2
  <2> QED BY <2>1, <2>2
<1>5. /\ registry'.slots \in Seq(SlotType) /\ DOMAIN registry'.slots = DOMAIN slots
      /\ \A s \in DOMAIN slots : registry'.slots[s] = IF s = slot THEN entry ELSE slots[s]
  BY <1>1, <1>2, <1>4, ExceptSeq
<1>6. /\ registry'.free \in Seq(Nat)
      /\ \A i \in DOMAIN free : i \in DOMAIN registry'.free /\ registry'.free[i] = free[i]
      /\ \A i \in DOMAIN registry'.free \ DOMAIN free :
            registry'.free[i] = slot /\ i = Len(free) + 1 /\ entry.generation = slots[slot].generation + 1
  <2>1. CASE registry'.free = free
    BY <1>2, <2>1
  <2>2. CASE registry'.free = Append(free, slot) /\ entry.generation = slots[slot].generation + 1
    <3>1. /\ registry'.free \in Seq(Nat) /\ Len(registry'.free) = Len(free) + 1
          /\ \A i \in 1..Len(free) : registry'.free[i] = free[i]
          /\ registry'.free[Len(free) + 1] = slot
      BY <1>2, <1>3, <2>2, AppendProperties
    <3>2. DOMAIN registry'.free = 1..(Len(free) + 1)
      BY <3>1, LenProperties
    <3> QED BY <1>2, <2>2, <3>1, <3>2
  <2> QED BY <1>4, <2>1, <2>2
<1>7. ~IsFree(slot) /\ \A i \in DOMAIN free : free[i] # slot
  BY <1>1 DEF HandlesInv, SlotsOK, IsFree
<1>8. /\ c \in DOMAIN controls
      /\ controls[c].token = encode_handle_token(slot, slots[slot].generation, slots[slot].nonce)
  BY <1>1 DEF HandlesInv, SlotsOK
<1>9. \A s \in DOMAIN slots : slots[s].control = c => s = slot
  <2> SUFFICES ASSUME NEW s \in DOMAIN slots, slots[s].control = c PROVE s = slot
    OBVIOUS
  <2>1. controls[c].token = encode_handle_token(s, slots[s].generation, slots[s].nonce)
    BY <1>1 DEF HandlesInv, SlotsOK
  <2>2. s - 1 = slot - 1 /\ s \in Nat
    BY <1>2, <1>8, <2>1 DEF encode_handle_token
  <2> QED BY <1>3, <2>2
<1>10. \A u \in Threads : thread'[u] = IF u = t THEN [at |-> "closing", control |-> c] ELSE thread[u]
  BY <1>1 DEF HandlesInv, HandlesTypeOK
<1>11. HandlesTypeOK'
  <2>1. registry' \in [slots : Seq(SlotType), free : Seq(Nat), nonce : Nat]
    BY <1>2, <1>4, <1>5, <1>6
  <2>2. c \in Nat
    BY <1>1, <1>3 DEF SlotType
  <2>3. thread' \in [Threads -> [at : Places, control : Nat]]
    BY <1>1, <2>2 DEF HandlesInv, HandlesTypeOK, Places, Destroying
  <2> QED BY <1>1, <1>8, <1>10, <2>1, <2>3 DEF HandlesInv, HandlesTypeOK
<1>12. SlotsOK'
  <2>1. ASSUME NEW i \in DOMAIN registry'.free
        PROVE  /\ registry'.free[i] \in DOMAIN registry'.slots
               /\ registry'.slots[registry'.free[i]].control = NoControl
    BY <1>1, <1>4, <1>5, <1>6, <1>7 DEF HandlesInv, SlotsOK
  <2>2. ASSUME NEW i \in DOMAIN registry'.free, NEW j \in DOMAIN registry'.free,
               registry'.free[i] = registry'.free[j]
        PROVE  i = j
    BY <1>6, <1>7, <2>2 DEF HandlesInv, SlotsOK
  <2>3. ASSUME NEW s \in DOMAIN registry'.slots, registry'.slots[s].control # NoControl
        PROVE  /\ registry'.slots[s].control \in DOMAIN controls'
               /\ controls'[registry'.slots[s].control].token =
                     encode_handle_token(s, registry'.slots[s].generation, registry'.slots[s].nonce)
    BY <1>1, <1>4, <1>5, <2>3 DEF HandlesInv, SlotsOK
  <2> QED BY <2>1, <2>2, <2>3 DEF SlotsOK
<1>13. TokensOK'
  <2>1. ASSUME NEW d \in DOMAIN controls
        PROVE  /\ controls[d].token.slot + 1 \in DOMAIN registry'.slots
               /\ \/ controls[d].token.generation < registry'.slots[controls[d].token.slot + 1].generation
                  \/ /\ controls[d].token.generation = registry'.slots[controls[d].token.slot + 1].generation
                     /\ \/ registry'.slots[controls[d].token.slot + 1].control = d
                        \/ /\ registry'.slots[controls[d].token.slot + 1].control = NoControl
                           /\ ~\E i \in DOMAIN registry'.free : registry'.free[i] = controls[d].token.slot + 1
    <3> DEFINE s == controls[d].token.slot + 1
               g == controls[d].token.generation
    <3>1. /\ s \in DOMAIN slots
          /\ \/ g < slots[s].generation
             \/ g = slots[s].generation /\ (slots[s].control = d \/ (slots[s].control = NoControl /\ ~IsFree(s)))
      BY DEF HandlesInv, TokensOK
    <3>2. g \in Nat /\ slots[s].generation \in Nat /\ entry.generation \in Nat
      <4>1. controls[d] \in ControlType /\ slots[s] \in SlotType
        BY <1>2, <3>1, ElementOfSeq, LenProperties DEF HandlesInv, HandlesTypeOK
      <4> QED BY <4>1 DEF ControlType, TokenType, SlotType
    <3> HIDE DEF s, g
    <3>3. CASE s # slot
      <4>1. ~IsFree(s) => ~\E i \in DOMAIN registry'.free : registry'.free[i] = s
        BY <1>6, <3>3 DEF IsFree
      <4>2. registry'.slots[s] = slots[s] /\ s \in DOMAIN registry'.slots
        BY <1>5, <3>1, <3>3
      <4> QED BY <3>1, <4>1, <4>2 DEF s, g
    <3>4. CASE s = slot
      <4>1. registry'.slots[s] = entry /\ s \in DOMAIN registry'.slots
        BY <1>5, <3>1, <3>4
      <4>2. CASE entry.generation = slots[slot].generation + 1
        <5>1. g < entry.generation
          BY <3>1, <3>2, <3>4, <4>2
        <5> QED BY <4>1, <5>1 DEF s, g
      <4>3. CASE entry.generation = slots[slot].generation /\ registry'.free = free
        <5>1. ~\E i \in DOMAIN registry'.free : registry'.free[i] = s
          BY <1>7, <3>4, <4>3
        <5>2. g < entry.generation \/ g = entry.generation
          BY <3>1, <3>4, <4>3
        <5> QED BY <1>4, <4>1, <5>1, <5>2 DEF s, g
      <4> QED BY <1>4, <4>2, <4>3
    <3> QED BY <3>3, <3>4
  <2> QED BY <1>1, <2>1 DEF HandlesInv, TokensOK, IsFree
<1>14. \A d \in DOMAIN controls : Registered(d)' <=> Registered(d) /\ d # c
  <2> SUFFICES ASSUME NEW d \in DOMAIN controls PROVE Registered(d)' <=> Registered(d) /\ d # c
    OBVIOUS
  <2>1. d # NoControl
    BY LenProperties DEF HandlesInv, HandlesTypeOK, NoControl
  <2> QED BY <1>1, <1>4, <1>5, <1>9, <2>1 DEF Registered
<1>15. GateOK'
  <2>1. Registered(c) /\ ~controls[c].destroyed
    BY <1>1, <1>8 DEF Registered, HandlesInv, GateOK
  <2>2. \A u \in Threads : thread[u].at \in Destroying => thread[u].control # c /\ thread[u].control \in DOMAIN controls
    BY <2>1, AtControl DEF HandlesInv, GateOK, Destroying
  <2>3. ASSUME NEW u \in Threads, thread'[u].at \in Destroying
        PROVE  /\ thread'[u].control \in DOMAIN controls
               /\ ~(Registered(thread'[u].control) /\ thread'[u].control # c)
               /\ controls[thread'[u].control].destroyed = (thread'[u].at # "closing")
    <3>1. CASE u = t
      <4>1. controls[c].destroyed \in BOOLEAN
        <5>1. controls \in Seq(ControlType) /\ c \in 1..Len(controls)
          BY <1>8, LenProperties DEF HandlesInv, HandlesTypeOK
        <5>2. controls[c] \in ControlType
          BY <5>1, ElementOfSeq
        <5> QED BY <5>2 DEF ControlType
      <4> QED BY <1>8, <1>10, <2>1, <3>1, <4>1
    <3>2. CASE u # t
      BY <1>10, <2>2, <2>3, <3>2 DEF HandlesInv, GateOK
    <3> QED BY <3>1, <3>2
  <2>4. ASSUME NEW u \in Threads, NEW v \in Threads, thread'[u].at \in Destroying, thread'[v].at \in Destroying,
               thread'[u].control = thread'[v].control
        PROVE  u = v
    BY <1>10, <2>2, <2>4 DEF HandlesInv, GateOK
  <2>5. ASSUME NEW d \in DOMAIN controls
        PROVE  /\ controls[d].destroyed => ~(Registered(d) /\ d # c)
               /\ ~(Registered(d) /\ d # c) /\ ~controls[d].destroyed =>
                     \E u \in Threads : thread'[u].at = "closing" /\ thread'[u].control = d
               /\ controls[d].destroyed /\ controls[d].active # 0 =>
                     \E u \in Threads : thread'[u].at \in {"waiting", "woken"} /\ thread'[u].control = d
    <3>1. CASE d = c
      BY <1>10, <2>1, <3>1
    <3>2. CASE d # c
      <4>1. \A u \in Threads : thread[u].at # "idle" => thread'[u] = thread[u]
        <5>1. thread[t].at = "idle"
          BY <1>1 DEF Idle
        <5> QED BY <1>10, <5>1
      <4> QED BY <3>2, <4>1 DEF HandlesInv, GateOK
    <3> QED BY <3>1, <3>2
  <2>6. \A u \in Threads : thread'[u].at \in Destroying => \A d : d = thread'[u].control => ~Registered(d)'
    BY <1>14, <2>3
  <2> QED BY <1>1, <1>14, <2>3, <2>4, <2>5, <2>6 DEF GateOK
<1>16. CountOK'
  <2>1. \A d : Inside(d)' = Inside(d) /\ Running(d)' = Running(d)
    BY <1>1, <1>10 DEF Inside, Running, Idle
  <2> QED BY <1>1, <2>1 DEF HandlesInv, CountOK
<1> QED BY <1>11, <1>12, <1>13, <1>15, <1>16 DEF HandlesInv

-----------------------------------------------------------------------------
(* The theorem. *)

LEMMA HandlesNextLemma == HandlesInv /\ [HandlesNext]_handleVars => HandlesInv'
<1> SUFFICES ASSUME HandlesInv, [HandlesNext]_handleVars PROVE HandlesInv'
  OBVIOUS
<1>1. ASSUME NEW t \in Threads, create_handle(t) PROVE HandlesInv'
  BY <1>1, CreateLemma
<1>2. ASSUME NEW t \in Threads, NEW token \in Tokens, destroy_handle(t, token) PROVE HandlesInv'
  BY <1>2, DestroyLemma
<1>3. ASSUME NEW t \in Threads, NEW token \in Tokens, with_handle(t, token) PROVE HandlesInv'
  BY <1>3, FoundLemma
<1>4. ASSUME NEW t \in Threads, Close(t) PROVE HandlesInv'
  BY <1>4, CloseLemma
<1>5. ASSUME NEW t \in Threads, begin_call(t) PROVE HandlesInv'
  BY <1>5, BeginLemma
<1>6. ASSUME NEW t \in Threads, Run(t) PROVE HandlesInv'
  BY <1>6, RunLemma
<1>7. ASSUME NEW t \in Threads, Done(t) PROVE HandlesInv'
  BY <1>7, DoneLemma
<1>8. ASSUME NEW t \in Threads, Leave(t) PROVE HandlesInv'
  BY <1>8, LeaveLemma
<1>9. ASSUME NEW t \in Threads, Recheck(t) PROVE HandlesInv'
  BY <1>9, RecheckLemma
<1>10. CASE UNCHANGED handleVars
  BY <1>10, StutterLemma
<1> QED BY <1>1, <1>2, <1>3, <1>4, <1>5, <1>6, <1>7, <1>8, <1>9, <1>10 DEF HandlesNext, Proceed

LEMMA HandlesInvIsSafe == HandlesInv => HandlesAreSafe
<1> SUFFICES ASSUME HandlesInv PROVE HandlesAreSafe
  OBVIOUS
<1>1. ASSUME NEW c \in DOMAIN controls
      PROVE  /\ Gone(c) => controls[c].destroyed /\ Inside(c) = {}
             /\ {t \in Threads : thread[t] = [at |-> "running", control |-> c]} = controls[c].holder
  <2>1. ASSUME Gone(c) PROVE controls[c].destroyed /\ Inside(c) = {}
    <3>1. ~Registered(c) /\ \A t \in Threads : thread[t].control = c => thread[t].at \notin Destroying
      BY <2>1 DEF Gone, Registered, Destroying
    <3>2. controls[c].destroyed /\ controls[c].active = 0
      BY <3>1 DEF HandlesInv, GateOK, Destroying
    <3>3. IsFiniteSet(Inside(c)) /\ Cardinality(Inside(c)) = 0
      BY <3>2, FS_Subset, ThreadsAssumption DEF Inside, HandlesInv, CountOK
    <3> QED BY <3>2, <3>3, FS_EmptySet
  <2> QED BY <2>1 DEF HandlesInv, CountOK, Running
<1>2. \A c, d \in DOMAIN controls : controls[c].token = controls[d].token => c = d
  BY DEF HandlesInv, TokensOK
<1>3. \A s \in DOMAIN registry.slots :
         registry.slots[s].control # NoControl =>
             controls[registry.slots[s].control].token =
                 encode_handle_token(s, registry.slots[s].generation, registry.slots[s].nonce)
  BY DEF HandlesInv, SlotsOK
<1>4. \A s \in DOMAIN registry.slots :
         (\E i \in DOMAIN registry.free : registry.free[i] = s) => registry.slots[s].control = NoControl
  BY DEF HandlesInv, SlotsOK
<1> QED BY <1>1, <1>2, <1>3, <1>4 DEF HandlesAreSafe

\* However many threads create, use and destroy handles, a call never runs in
\* a handle whose destroy_handle has returned, and a token reaches no handle
\* but its own.
THEOREM SpecHandlesAreSafe == HandlesSpec => []HandlesAreSafe
<1>1. HandlesInit => HandlesInv
  BY HandlesInitLemma
<1>2. HandlesInv /\ [HandlesNext]_handleVars => HandlesInv'
  BY HandlesNextLemma
<1>3. HandlesInv => HandlesAreSafe
  BY HandlesInvIsSafe
<1> QED BY <1>1, <1>2, <1>3, PTL DEF HandlesSpec
=============================================================================
