----------------------- MODULE OutputSchedulerProofs ------------------------
(***************************************************************************)
(* Proofs about OutputScheduler, for every set of outputs, clock width,    *)
(* queue, window and drain capacity, and every input set.                  *)
(***************************************************************************)
EXTENDS OutputScheduler, FiniteSetTheorems, WellFoundedInduction, TLAPS

-----------------------------------------------------------------------------
(* Lemmas about the queue. *)

\* Every non-empty set of naturals has a least element.
LEMMA LeastNatural ==
    ASSUME NEW S \in SUBSET Nat, S # {}
    PROVE  \E x \in S : \A y \in S : x <= y
<1> DEFINE R == OpToRel(<, Nat)
<1>1. IsWellFoundedOn(R, Nat)
  BY NatLessThanWellFounded
<1>2. R = {p \in Nat \X Nat : p[1] < p[2]}
  BY Zenon DEF OpToRel
<1> HIDE DEF R
<1>3. PICK x \in S : \A y \in S : ~(<<y, x>> \in R)
  BY <1>1, WFMin
<1>4. \A y \in S : x <= y
  <2> SUFFICES ASSUME NEW y \in S, y < x PROVE FALSE
    OBVIOUS
  <2> DEFINE p == <<y, x>>
  <2>1. p \in Nat \X Nat /\ p[1] = y /\ p[2] = x
    OBVIOUS
  <2> HIDE DEF p
  <2>2. p \in R
    BY <1>2, <2>1
  <2> QED BY <1>3, <2>2 DEF p
<1> QED BY <1>4

\* enqueue_transition finds a free slot whenever one exists.
LEMMA FirstFreeIsFree ==
    ASSUME NEW q, FreeSlots(q) # {}
    PROVE  FirstFree(q) \in FreeSlots(q)
<1>1. FreeSlots(q) \in SUBSET Nat
  BY QueueCapAssumption DEF FreeSlots, Slots
<1>2. \E i \in FreeSlots(q) : \A j \in FreeSlots(q) : i <= j
  BY <1>1, LeastNatural
<1> QED BY <1>2 DEF FirstFree

\* The free slots of a queue are a finite set.
LEMMA FreeSlotsFinite ==
    ASSUME NEW q
    PROVE  IsFiniteSet(FreeSlots(q)) /\ Cardinality(FreeSlots(q)) \in Nat
<1>1. IsFiniteSet(Slots)
  BY QueueCapAssumption, FS_Interval DEF Slots
<1>2. FreeSlots(q) \in SUBSET Slots
  BY DEF FreeSlots
<1> QED BY <1>1, <1>2, FS_Subset, FS_CardinalityType

\* Two free slots are enough to queue a window: its High and its Low go to
\* two different slots that were free, and nothing else changes.
LEMMA EnqueueWindowSlots ==
    ASSUME NEW q \in QueueType, NEW w \in Windows,
           Cardinality(FreeSlots(q)) >= 2
    PROVE  \E h, l \in FreeSlots(q) :
              /\ h # l
              /\ EnqueueWindow(q, w) = [q EXCEPT ![h] = High(w), ![l] = Low(w)]
              /\ FreeSlots(EnqueueWindow(q, w)) = FreeSlots(q) \ {h, l}
<1> DEFINE h == FirstFree(q)
           q1 == EnqueueTransition(q, High(w))
           l == FirstFree(q1)
<1>1. High(w) \in Transitions /\ Low(w) \in Transitions
  BY DEF High, Low, Windows, Transitions, Levels
<1>2. High(w) # None /\ Low(w) # None
  BY <1>1, NoneTransition DEF Transitions, Levels
<1>3. FreeSlots(q) # {}
  BY FreeSlotsFinite, FS_EmptySet
<1>4. h \in FreeSlots(q)
  BY <1>3, FirstFreeIsFree
<1>5. q1 = [q EXCEPT ![h] = High(w)]
  BY DEF EnqueueTransition
<1>6. FreeSlots(q1) = FreeSlots(q) \ {h}
  BY <1>2, <1>4, <1>5 DEF FreeSlots, QueueType
<1>7. FreeSlots(q1) # {}
  BY <1>4, <1>6, FreeSlotsFinite, FS_RemoveElement, FS_EmptySet
<1>8. l \in FreeSlots(q1)
  BY <1>7, FirstFreeIsFree
<1>9. EnqueueWindow(q, w) = [q1 EXCEPT ![l] = Low(w)]
  BY DEF EnqueueWindow, EnqueueTransition
<1> HIDE DEF h, q1, l
<1>10. FreeSlots(EnqueueWindow(q, w)) = FreeSlots(q1) \ {l}
  BY <1>2, <1>4, <1>5, <1>8, <1>9 DEF FreeSlots, QueueType
<1>11. h # l /\ l \in FreeSlots(q)
  BY <1>6, <1>8
<1>12. EnqueueWindow(q, w) = [q EXCEPT ![h] = High(w), ![l] = Low(w)]
  BY <1>5, <1>9
<1>13. FreeSlots(EnqueueWindow(q, w)) = FreeSlots(q) \ {h, l}
  BY <1>6, <1>10
<1> QED BY <1>4, <1>11, <1>12, <1>13

-----------------------------------------------------------------------------
(* The inductive invariant.  OwnershipMatchesQueue alone is not inductive:   *)
(* that a drained Low releases exactly one window needs ExclusiveOutputs,    *)
(* and that the capacity test counts anything needs the table to be finite.  *)

OwnInv(own, q) ==
    /\ own \in OwnershipType
    /\ q \in QueueType
    /\ IsFiniteSet(own.windows) /\ Cardinality(own.windows) <= MaxWindows
    /\ OwnershipMatches(own, q)
    /\ Exclusive(own)
    /\ SummariesMatch(own)

SchInv(s) ==
    /\ s \in SchedulerType
    /\ OwnInv(s.own, s.queue)
    /\ FrontierOK(s.fr)

IInv == now \in Times /\ pins \in [Wired -> Levels] /\ SchInv(sch)

\* An empty table goes with an empty queue, in any mode but Armed.
LEMMA EmptyOwnInv ==
    ASSUME NEW own, own \in OwnershipType, own.windows = {}, own.reserved = {},
           own.groups = {}, own.mode # "Armed"
    PROVE  OwnInv(own, EmptyQueue)
<1>1. EmptyQueue \in QueueType /\ LowSlots(EmptyQueue) = {}
  BY DEF EmptyQueue, QueueType, LowSlots
<1>2. IsFiniteSet(own.windows) /\ Cardinality(own.windows) <= MaxWindows
  BY FS_EmptySet, MaxWindowsAssumption
<1>3. SummariesMatch(own)
  BY DEF SummariesMatch, OutputsOf, GroupsOf
<1> QED BY <1>1, <1>2, <1>3 DEF OwnInv, OwnershipMatches, Exclusive

\* Clearing the ownership, with or without suspending, restores the invariant
\* with an empty queue: this is every cancel, sync-loss and shutdown path.
LEMMA ClearOwnInv ==
    ASSUME NEW own \in OwnershipType
    PROVE  /\ OwnInv(ClearScheduledOwnership(own), EmptyQueue)
           /\ OwnInv(Suspend(own), EmptyQueue)
<1> DEFINE c == ClearScheduledOwnership(own)
           u == Suspend(own)
<1>1. /\ c \in OwnershipType /\ c.windows = {} /\ c.reserved = {} /\ c.groups = {}
      /\ c.mode # "Armed"
  BY DEF ClearScheduledOwnership, RefreshMode, OwnershipType, Modes
<1>2. /\ u \in OwnershipType /\ u.windows = {} /\ u.reserved = {} /\ u.groups = {}
      /\ u.mode # "Armed"
  BY DEF ClearScheduledOwnership, Suspend, RefreshMode, OwnershipType, Modes
<1> HIDE DEF c, u
<1> QED BY <1>1, <1>2, EmptyOwnInv DEF c, u

\* Admitting a window that reserve_window accepts, with room for its two
\* transitions, keeps table and queue in step.
LEMMA AdmitOwnInv ==
    ASSUME NEW own, NEW q, OwnInv(own, q), NEW w \in Windows,
           ReserveOk(own, w), Cardinality(FreeSlots(q)) >= 2
    PROVE  /\ OwnInv(ReserveWindow(own, w), EnqueueWindow(q, w))
           /\ Cardinality(FreeSlots(EnqueueWindow(q, w))) = Cardinality(FreeSlots(q)) - 2
<1> DEFINE own2 == ReserveWindow(own, w)
           q2 == EnqueueWindow(q, w)
<1>1. q \in QueueType /\ own \in OwnershipType /\ own.windows \subseteq Windows
  BY DEF OwnInv, OwnershipType
<1>2. PICK h, l \in FreeSlots(q) :
        /\ h # l
        /\ q2 = [q EXCEPT ![h] = High(w), ![l] = Low(w)]
        /\ FreeSlots(q2) = FreeSlots(q) \ {h, l}
  BY <1>1, EnqueueWindowSlots
<1>3. /\ own2.windows = own.windows \cup {w}
      /\ own2.groups = own.groups \cup {Group[w.output]}
      /\ own2.mode = "Armed"
      /\ own2.reserved = OutputsOf(own.windows \cup {w})
  BY <1>1 DEF ReserveWindow, OwnershipType
<1>4. own2 \in OwnershipType
  <2>1. OutputsOf(own.windows \cup {w}) \subseteq Outputs
    BY <1>1 DEF OutputsOf, Windows
  <2>2. Group[w.output] \in Groups
    BY GroupAssumption DEF Windows
  <2> QED BY <1>1, <2>1, <2>2 DEF ReserveWindow, OwnershipType, Modes
<1>5. q2 \in QueueType
  BY <1>1, <1>2 DEF QueueType, High, Low, Windows, Transitions, Levels, FreeSlots
<1> HIDE DEF own2, q2
<1>6. w \notin own.windows
  BY DEF ReserveOk, WindowsOverlap
<1>7. IsFiniteSet(own2.windows) /\ Cardinality(own2.windows) <= MaxWindows
  <2>1. IsFiniteSet(own.windows) /\ Cardinality(own.windows) \in Nat
    BY FS_CardinalityType DEF OwnInv
  <2>2. Cardinality(own.windows) < MaxWindows
    BY DEF ReserveOk
  <2>3. /\ IsFiniteSet(own.windows \cup {w})
        /\ Cardinality(own.windows \cup {w}) = Cardinality(own.windows) + 1
    BY <1>6, <2>1, FS_AddElement
  <2> QED BY <1>3, <2>1, <2>2, <2>3, MaxWindowsAssumption
<1>8. Exclusive(own2)
  BY <1>1, <1>3 DEF Exclusive, OwnInv, ReserveOk, WindowsOverlap, Windows, Times
<1>9. SummariesMatch(own2)
  BY <1>3 DEF SummariesMatch, OwnInv, OutputsOf, GroupsOf
<1>10. OwnershipMatches(own2, q2)
  <2>1. /\ \A i \in Slots : i # h /\ i # l => q2[i] = q[i]
        /\ q2[h] = High(w) /\ q2[l] = Low(w)
    BY <1>1, <1>2 DEF QueueType, FreeSlots
  <2>2. Low(w) # None
    BY NoneTransition DEF Low, Windows
  <2>3. LowSlots(q2) = LowSlots(q) \cup {l}
    <3>1. h \in Slots /\ l \in Slots /\ q[h] = None /\ q[l] = None
      BY DEF FreeSlots
    <3>2. q2[h].level = "High" /\ q2[l].level = "Low" /\ q2[l] # None
      BY <2>1, <2>2 DEF High, Low
    <3> QED BY <2>1, <3>1, <3>2 DEF LowSlots
  <2>4. \A i \in LowSlots(q) : q2[i] = q[i]
    BY <1>2, <2>1 DEF LowSlots, FreeSlots
  <2>5. Releases(q2[l], w)
    BY <2>1 DEF Releases, Low
  <2>6. \A x \in own.windows : ~Releases(Low(w), x)
    BY <1>1 DEF ReserveOk, WindowsOverlap, Releases, Low, OwnInv, Exclusive, Windows, Times
  <2>7. \A i \in LowSlots(q) : q[i] # Low(w)
    BY <2>6 DEF OwnInv, OwnershipMatches
  <2> QED BY <1>3, <2>1, <2>3, <2>4, <2>5, <2>7 DEF OwnInv, OwnershipMatches
<1>11. Cardinality(FreeSlots(q2)) = Cardinality(FreeSlots(q)) - 2
  <2>1. /\ IsFiniteSet(FreeSlots(q) \ {h})
        /\ Cardinality(FreeSlots(q) \ {h}) = Cardinality(FreeSlots(q)) - 1
    BY <1>2, FreeSlotsFinite, FS_RemoveElement
  <2>2. Cardinality((FreeSlots(q) \ {h}) \ {l}) = Cardinality(FreeSlots(q) \ {h}) - 1
    BY <1>2, <2>1, FS_RemoveElement
  <2>3. FreeSlots(q2) = (FreeSlots(q) \ {h}) \ {l}
    BY <1>2
  <2> QED BY <2>1, <2>2, <2>3, FreeSlotsFinite
<1> QED BY <1>4, <1>5, <1>7, <1>8, <1>9, <1>10, <1>11 DEF OwnInv, own2, q2

\* Draining any set of occupied slots releases exactly the windows whose Lows
\* leave the queue.
LEMMA DrainedOwnInv ==
    ASSUME NEW own, NEW q, OwnInv(own, q), NEW d \in SUBSET Occupied(q)
    PROVE  OwnInv(NoteDrained(own, {q[i] : i \in d}), Without(q, d))
<1> DEFINE ts == {q[i] : i \in d}
           kept == {w \in own.windows : \A t \in ts : ~Releases(t, w)}
           own2 == NoteDrained(own, ts)
           q2 == Without(q, d)
<1>1. q \in QueueType /\ own \in OwnershipType /\ own.windows \subseteq Windows
  BY DEF OwnInv, OwnershipType
<1>2. q2 \in QueueType
  BY <1>1 DEF Without, QueueType
<1>3. LowSlots(q2) = LowSlots(q) \ d /\ \A i \in LowSlots(q2) : q2[i] = q[i]
  BY DEF LowSlots, Without
<1>4. own2.windows = kept
  BY DEF NoteDrained
<1>5. SummariesMatch(own2) /\ own2 \in OwnershipType
  <2>1. CASE kept = own.windows
    BY <2>1 DEF NoteDrained, OwnInv
  <2>2. CASE kept # own.windows
    <3>1. own.mode = "Armed"
      BY <2>2 DEF OwnInv, SummariesMatch
    <3>2. own2 = [mode |-> IF GroupsOf(OutputsOf(kept)) = {} THEN "Idle" ELSE "Armed",
                  groups |-> GroupsOf(OutputsOf(kept)),
                  reserved |-> OutputsOf(kept), windows |-> kept]
      BY <2>2, <3>1 DEF NoteDrained, RefreshMode
    <3>3. OutputsOf(kept) \subseteq Outputs /\ GroupsOf(OutputsOf(kept)) \subseteq Groups
      BY <1>1, GroupAssumption DEF OutputsOf, GroupsOf, Windows
    <3>4. GroupsOf(OutputsOf(kept)) = {} <=> kept = {}
      BY DEF OutputsOf, GroupsOf
    <3> HIDE DEF kept, own2
    <3>5. kept \subseteq Windows
      BY <1>1 DEF kept
    <3> QED BY <3>2, <3>3, <3>4, <3>5 DEF SummariesMatch, OwnershipType, Modes
  <2> QED BY <2>1, <2>2
<1>6. IsFiniteSet(own2.windows) /\ Cardinality(own2.windows) <= MaxWindows
  <2>1. kept \in SUBSET own.windows
    OBVIOUS
  <2>2. IsFiniteSet(own.windows) /\ Cardinality(own.windows) <= MaxWindows
    BY DEF OwnInv
  <2>3. /\ IsFiniteSet(kept) /\ Cardinality(kept) <= Cardinality(own.windows)
        /\ Cardinality(kept) \in Nat /\ Cardinality(own.windows) \in Nat
    BY <2>1, <2>2, FS_Subset, FS_CardinalityType
  <2> HIDE DEF kept, own2
  <2> QED BY <1>4, <2>2, <2>3, MaxWindowsAssumption
<1>7. Exclusive(own2)
  BY <1>4 DEF Exclusive, OwnInv
<1>8. OwnershipMatches(own2, q2)
  <2>1. ASSUME NEW w \in kept PROVE \E i \in LowSlots(q2) : Releases(q2[i], w)
    <3>1. PICK i \in LowSlots(q) : Releases(q[i], w)
      BY DEF OwnInv, OwnershipMatches
    <3>2. i \notin d
      BY <3>1
    <3> QED BY <1>3, <3>1, <3>2
  <2>2. ASSUME NEW i \in LowSlots(q2) PROVE \E w \in kept : Releases(q2[i], w)
    <3>1. i \in LowSlots(q) /\ i \notin d /\ q2[i] = q[i]
      BY <1>3
    <3>2. PICK w \in own.windows : Releases(q[i], w)
      BY <3>1 DEF OwnInv, OwnershipMatches
    <3>3. ASSUME NEW j \in d, Releases(q[j], w) PROVE FALSE
      <4>1. j \in Slots /\ q[j] # None /\ i \in Slots /\ q[i] # None
        BY <3>1 DEF Occupied, LowSlots
      <4>2. q[i] \in Transitions /\ q[j] \in Transitions
        BY <1>1, <4>1 DEF QueueType
      <4>3. q[i] = q[j]
        BY <3>2, <3>3, <4>2 DEF Releases, Transitions
      <4>4. j \in LowSlots(q)
        BY <3>3, <4>1 DEF LowSlots, Releases
      <4> QED BY <3>1, <4>3, <4>4 DEF OwnInv, OwnershipMatches
    <3> QED BY <3>1, <3>2, <3>3
  <2>3. \A i, j \in LowSlots(q2) : q2[i] = q2[j] => i = j
    BY <1>3 DEF OwnInv, OwnershipMatches
  <2> HIDE DEF kept, own2, q2
  <2> QED BY <1>4, <2>1, <2>2, <2>3 DEF OwnershipMatches
<1> QED BY <1>2, <1>5, <1>6, <1>7, <1>8 DEF OwnInv

-----------------------------------------------------------------------------
(* Lemmas about the frontier. *)

FrInv(fr) == fr \in FrontierType /\ FrontierOK(fr)

\* Saturating addition stays on the clock.
LEMMA SatAddType ==
    ASSUME NEW a \in Times, NEW b \in Nat
    PROVE  SatAdd(a, b) \in Times
BY UsModAssumption DEF SatAdd, Times, MaxUs

\* Clearing, expiring, refreshing and replacing a horizon keep the frontier
\* consistent.
LEMMA ClearFrInv ==
    ASSUME NEW fr, FrInv(fr), NEW r \in StopReasons
    PROVE  FrInv(ClearLiveFrontierState(fr, r))
BY DEF FrInv, FrontierType, FrontierOK, ClearLiveFrontierState

LEMMA ExpireFrInv ==
    ASSUME NEW fr, FrInv(fr), NEW t \in Times
    PROVE  FrInv(ExpireFrontier(fr, t))
<1> DEFINE hb == ExpireHeartbeat(fr, t)
<1>1. FrInv(hb)
  BY NoneAssumption DEF FrInv, FrontierType, FrontierOK, ExpireHeartbeat, StopReasons
<1> HIDE DEF hb
<1>2. FrInv(ExpireHorizon(hb, t))
  <2>1. hb.reason \in StopReasons
    BY <1>1 DEF FrInv, FrontierType
  <2>2. (IF hb.reason = "None" THEN "HorizonExpired" ELSE hb.reason) \in StopReasons
    BY <2>1 DEF StopReasons
  <2> QED BY <1>1, <2>2, ClearFrInv DEF ExpireHorizon
<1> QED BY <1>2 DEF ExpireFrontier, hb

LEMMA HeartbeatFrInv ==
    ASSUME NEW fr, FrInv(fr), NEW t \in Times
    PROVE  FrInv(NoteHeartbeat(fr, t))
<1>1. SatAdd(t, HeartbeatExpiryUs) \in Times
  BY SatAddType, FrontierAssumption
<1>2. None \notin Times
  BY NoneAssumption, UsModAssumption DEF Times
<1> QED BY <1>1, <1>2 DEF FrInv, FrontierType, FrontierOK, NoteHeartbeat

LEMMA CommitFrInv ==
    ASSUME NEW fr, NEW id \in Nat, NEW e \in Times, NEW dl \in Times, NEW m \in SUBSET Groups
    PROVE  FrInv(CommitHorizon(fr, id, e, dl, m))
BY NoneAssumption DEF FrInv, FrontierType, FrontierOK, CommitHorizon, StopReasons, Times

-----------------------------------------------------------------------------
(* Lemmas about the adapter's operations. *)

\* SchInv is the ownership invariant and the frontier invariant of the parts.
LEMMA SchInvParts ==
    ASSUME NEW own, NEW fr, NEW q, OwnInv(own, q), FrInv(fr)
    PROVE  SchInv([own |-> own, fr |-> fr, queue |-> q])
BY DEF SchInv, SchedulerType, OwnInv, FrInv

LEMMA SchInvFields ==
    ASSUME NEW s, SchInv(s)
    PROVE  /\ OwnInv(s.own, s.queue) /\ FrInv(s.fr)
           /\ s.own \in OwnershipType /\ s.queue \in QueueType /\ s.fr \in FrontierType
           /\ s = [own |-> s.own, fr |-> s.fr, queue |-> s.queue]
BY DEF SchInv, SchedulerType, FrInv

LEMMA CancelSchInv ==
    ASSUME NEW s, SchInv(s), NEW r \in StopReasons
    PROVE  SchInv(CancelAllWithReason(s, r))
BY SchInvFields, SchInvParts, ClearOwnInv, ClearFrInv DEF CancelAllWithReason

\* A lowered action, admitted, rejected or cancelling, keeps the invariant.
LEMMA ApplySchInv ==
    ASSUME NEW s, SchInv(s), NEW a \in Actions
    PROVE  SchInv(ApplyLowered(s, a))
<1>1. CASE a.kind = "Cancel"
  <2>1. a.reason \in CancelReasons
    BY <1>1 DEF Actions
  <2>2. MapCancelReason(a.reason) \in StopReasons
    BY <2>1, InputAssumption DEF MapCancelReason, StopReasons
  <2> QED BY <1>1, <2>2, CancelSchInv DEF ApplyLowered
<1>2. CASE a.kind # "Cancel"
  <2> DEFINE ws == a.ws
  <2>1. ws \in {<<w>> : w \in Windows} \cup (Windows \X Windows)
    BY <1>2 DEF Actions
  <2>2. ApplyLowered(s, a) = ApplyWindows(s, ws)
    BY <1>2 DEF ApplyLowered
  <2> HIDE DEF ws
  <2>3. CASE ~BatchOk(s, ws)
    <3>1. "AdmittedEventRejected" \in StopReasons
      BY DEF StopReasons
    <3> QED BY <2>2, <2>3, <3>1, CancelSchInv DEF ApplyWindows
  <2>4. CASE BatchOk(s, ws)
    <3>1. ws[1] \in Windows /\ Len(ws) \in {1, 2} /\ (Len(ws) = 2 => ws[2] \in Windows)
      BY <2>1
    <3>2. /\ Cardinality(FreeSlots(s.queue)) >= 2 * Len(ws)
          /\ ReserveOk(s.own, ws[1])
          /\ Len(ws) = 2 => ReserveOk(ReserveWindow(s.own, ws[1]), ws[2])
      BY <2>4 DEF BatchOk
    <3>3. Cardinality(FreeSlots(s.queue)) \in Nat
      BY FreeSlotsFinite
    <3> DEFINE s1 == Admit(s, ws[1])
    <3>4. /\ SchInv(s1) /\ s1.own = ReserveWindow(s.own, ws[1])
          /\ Cardinality(FreeSlots(s1.queue)) = Cardinality(FreeSlots(s.queue)) - 2
      <4>1. Cardinality(FreeSlots(s.queue)) >= 2
        BY <3>1, <3>2, <3>3
      <4>2. /\ OwnInv(ReserveWindow(s.own, ws[1]), EnqueueWindow(s.queue, ws[1]))
            /\ Cardinality(FreeSlots(EnqueueWindow(s.queue, ws[1])))
                 = Cardinality(FreeSlots(s.queue)) - 2
        BY <3>1, <3>2, <4>1, SchInvFields, AdmitOwnInv
      <4>3. s1 = [own |-> ReserveWindow(s.own, ws[1]), fr |-> s.fr,
                  queue |-> EnqueueWindow(s.queue, ws[1])]
        BY DEF Admit, s1
      <4> QED BY <4>2, <4>3, SchInvFields, SchInvParts
    <3> HIDE DEF s1
    <3>5. CASE Len(ws) = 1
      BY <2>2, <2>4, <3>4, <3>5 DEF ApplyWindows, s1
    <3>6. CASE Len(ws) = 2
      <4>1. ApplyLowered(s, a) = Admit(s1, ws[2])
        BY <2>2, <2>4, <3>6 DEF ApplyWindows, s1
      <4>2. Cardinality(FreeSlots(s1.queue)) >= 2
        BY <3>2, <3>3, <3>4, <3>6
      <4>3. OwnInv(ReserveWindow(s1.own, ws[2]), EnqueueWindow(s1.queue, ws[2]))
        BY <3>1, <3>2, <3>4, <3>6, <4>2, SchInvFields, AdmitOwnInv
      <4>4. Admit(s1, ws[2]) = [own |-> ReserveWindow(s1.own, ws[2]), fr |-> s1.fr,
                                queue |-> EnqueueWindow(s1.queue, ws[2])]
        BY DEF Admit
      <4> QED BY <3>4, <4>1, <4>3, <4>4, SchInvFields, SchInvParts
    <3> QED BY <3>1, <3>5, <3>6
  <2> QED BY <2>3, <2>4
<1> QED BY <1>1, <1>2

\* A drain empties only slots that hold a transition.
LEMMA DrainSetOccupied ==
    ASSUME NEW q, NEW t
    PROVE  DrainSet(q, t) \in SUBSET Occupied(q)
BY DEF DrainSet, DueSlots

\* The drain, permitted or denied, keeps the invariant.
LEMMA DrainSchInv ==
    ASSUME NEW s, SchInv(s), now \in Times
    PROVE  SchInv(DrainDueWithFrontier(s))
<1>1. FrInv(DrainFrontier(s))
  BY SchInvFields, ExpireFrInv DEF DrainFrontier
<1>2. CASE DrainDenied(s)
  BY <1>1, <1>2, SchInvFields, SchInvParts, ClearOwnInv DEF DrainDueWithFrontier
<1>3. CASE ~DrainDenied(s)
  <2> DEFINE d == DrainSet(s.queue, now)
  <2>1. d \in SUBSET Occupied(s.queue)
    BY DrainSetOccupied
  <2> HIDE DEF d
  <2>2. OwnInv(NoteDrained(s.own, {s.queue[i] : i \in d}), Without(s.queue, d))
    BY <2>1, SchInvFields, DrainedOwnInv
  <2> QED BY <1>1, <1>3, <2>2, SchInvParts DEF DrainDueWithFrontier, Drained, d
<1> QED BY <1>2, <1>3

\* apply_drained_transitions leaves every wired pin at a level.
LEMMA PinsAfterType ==
    ASSUME NEW p \in [Wired -> Levels], NEW q, NEW t, NEW a
    PROVE  PinsAfter(p, q, t, a) \in [Wired -> Levels]
BY DEF PinsAfter, Levels

\* The actions the runtime sends are lowered actions.
LEMMA ArmActionsAreActions ==
    ASSUME now \in Times
    PROVE  ArmActions \cup CancelActions \subseteq Actions
<1>1. Plans \subseteq Windows
  <2>1. SatAdd(now, MaxLead) \in Times /\ SatAdd(now, MaxLead + MaxPulse) \in Times
    BY SatAddType, InputAssumption
  <2>2. (now + 1)..SatAdd(now, MaxLead) \subseteq Times
    BY <2>1, UsModAssumption DEF Times
  <2>3. (now + 1)..SatAdd(now, MaxLead + MaxPulse) \subseteq Times
    BY <2>1, UsModAssumption DEF Times
  <2> QED BY <2>2, <2>3 DEF Plans, Windows
<1> QED BY <1>1 DEF ArmActions, CancelActions, Actions

-----------------------------------------------------------------------------
(* The theorems. *)

\* The initial states satisfy the invariant.
LEMMA InitIInv == Init => IInv
<1> SUFFICES ASSUME Init PROVE IInv
  OBVIOUS
<1>1. OwnInv(NewOwnership, EmptyQueue)
  <2>1. NewOwnership \in OwnershipType
    BY DEF NewOwnership, OwnershipType, Modes
  <2> QED BY <2>1, EmptyOwnInv DEF NewOwnership
<1>2. FrInv(NewFrontier)
  BY DEF NewFrontier, FrInv, FrontierType, FrontierOK, StopReasons
<1>3. now \in Times
  BY UsModAssumption DEF Init, Times
<1>4. pins \in [Wired -> Levels]
  BY DEF Init, Levels
<1> QED BY <1>1, <1>2, <1>3, <1>4, SchInvParts DEF Init, IInv, NewAdapter

\* Every step of the board's output scheduler keeps the invariant.
LEMMA NextIInv == IInv /\ [Next]_vars => IInv'
<1> SUFFICES ASSUME IInv, [Next]_vars PROVE IInv'
  OBVIOUS
<1>1. now \in Times /\ pins \in [Wired -> Levels] /\ SchInv(sch)
  BY DEF IInv
<1>2. ArmActions \cup CancelActions \subseteq Actions
  BY <1>1, ArmActionsAreActions
<1>3. {"SyncLost", "TimingFault", "PermitDenied", "BoardOutputFault"} \subseteq StopReasons
  BY DEF StopReasons
<1>4. CASE Advance
  <2>1. now' \in Times
    BY <1>1, <1>4, UsModAssumption DEF Advance, Times
  <2> QED BY <1>1, <1>4, <2>1 DEF Advance, IInv
<1>5. ASSUME NEW a \in ArmActions \cup CancelActions, Execute(a) PROVE IInv'
  <2>1. SchInv(sch')
    BY <1>1, <1>2, <1>5, ApplySchInv DEF Execute
  <2> QED BY <1>1, <1>5, <2>1 DEF Execute, IInv
<1>6. ASSUME NEW a \in ArmActions \cup CancelActions, NEW b \in ArmActions, ExecuteBatch(a, b)
      PROVE  IInv'
  <2>1. SchInv(ApplyLowered(sch, a))
    BY <1>1, <1>2, ApplySchInv
  <2>2. SchInv(ApplyLowered(ApplyLowered(sch, a), b))
    BY <1>2, <2>1, ApplySchInv
  <2>3. SchInv(sch')
    BY <1>1, <1>6, <2>2 DEF ExecuteBatch
  <2> QED BY <1>1, <1>6, <2>3 DEF ExecuteBatch, IInv
<1>7. ASSUME NEW id \in HorizonIds, NEW len \in HorizonLens, NEW lead \in HeartbeatLeads,
             NEW mask \in Masks, CommitFrontierHorizon(id, len, lead, mask)
      PROVE  IInv'
  <2>1. SatAdd(now, len) \in Times /\ SatAdd(now, lead) \in Times
    BY <1>1, SatAddType, InputAssumption
  <2>2. FrInv(CommitHorizon(sch.fr, id, SatAdd(now, len), SatAdd(now, lead), mask))
    BY <2>1, CommitFrInv, InputAssumption
  <2>3. SchInv(sch')
    BY <1>1, <1>7, <2>2, SchInvFields, SchInvParts DEF CommitFrontierHorizon, WithFrontier
  <2> QED BY <1>1, <1>7, <2>3 DEF CommitFrontierHorizon, IInv
<1>8. CASE NoteFrontierHeartbeat
  <2>1. SchInv(sch')
    BY <1>1, <1>8, HeartbeatFrInv, SchInvFields, SchInvParts
       DEF NoteFrontierHeartbeat, WithFrontier
  <2> QED BY <1>1, <1>8, <2>1 DEF NoteFrontierHeartbeat, IInv
<1>9. CASE ExpireFrontierNow
  <2>1. SchInv(sch')
    BY <1>1, <1>9, ExpireFrInv, SchInvFields, SchInvParts DEF ExpireFrontierNow, WithFrontier
  <2> QED BY <1>1, <1>9, <2>1 DEF ExpireFrontierNow, IInv
<1>10. CASE OnSyncLoss
  <2>1. SchInv(sch')
    BY <1>1, <1>3, <1>10, ClearFrInv, ClearOwnInv, SchInvFields, SchInvParts DEF OnSyncLoss
  <2> QED BY <1>1, <1>10, <2>1 DEF OnSyncLoss, IInv
<1>11. CASE OnHardSafetyShutdown
  <2>1. SchInv(sch')
    BY <1>1, <1>3, <1>11, ClearFrInv, ClearOwnInv, SchInvFields, SchInvParts
       DEF OnHardSafetyShutdown
  <2> QED BY <1>1, <1>11, <2>1 DEF OnHardSafetyShutdown, IInv
<1>12. CASE ForceSafeState
  <2>1. SchInv(sch')
    BY <1>1, <1>3, <1>12, CancelSchInv DEF ForceSafeState
  <2> QED BY <1>1, <1>12, <2>1 DEF ForceSafeState, IInv
<1>13. ASSUME NEW bad, DrainAndApplyDue(bad) PROVE IInv'
  <2>1. SchInv(DrainDueWithFrontier(sch))
    BY <1>1, DrainSchInv
  <2>2. SchInv(CancelAllWithReason(DrainDueWithFrontier(sch), "BoardOutputFault"))
    BY <1>3, <2>1, CancelSchInv
  <2>3. SchInv(sch')
    BY <1>13, <2>1, <2>2 DEF DrainAndApplyDue
  <2>4. pins' \in [Wired -> Levels]
    BY <1>1, <1>13, PinsAfterType DEF DrainAndApplyDue
  <2> QED BY <1>1, <1>13, <2>3, <2>4 DEF DrainAndApplyDue, IInv
<1>14. ASSUME NEW bad, DrainAndApplyPlain(bad) PROVE IInv'
  <2> DEFINE d == DrainSet(sch.queue, now)
  <2>1. OwnInv(NoteDrained(sch.own, {sch.queue[i] : i \in d}), Without(sch.queue, d))
    <3>1. d \in SUBSET Occupied(sch.queue)
      BY DrainSetOccupied
    <3> HIDE DEF d
    <3> QED BY <1>1, <3>1, SchInvFields, DrainedOwnInv
  <2>2. SchInv(sch')
    <3>1. sch' = Drained(sch, sch.fr, d)
      BY <1>14 DEF DrainAndApplyPlain
    <3> HIDE DEF d
    <3> QED BY <1>1, <2>1, <3>1, SchInvFields, SchInvParts DEF Drained
  <2>3. pins' \in [Wired -> Levels]
    BY <1>1, <1>14, PinsAfterType DEF DrainAndApplyPlain
  <2> QED BY <1>1, <1>14, <2>2, <2>3 DEF DrainAndApplyPlain, IInv
<1>15. CASE UNCHANGED vars
  BY <1>1, <1>15 DEF vars, IInv
<1> QED
  BY <1>4, <1>5, <1>6, <1>7, <1>8, <1>9, <1>10, <1>11, <1>12, <1>13, <1>14, <1>15 DEF Next

\* The inductive invariant holds in every reachable state.
THEOREM SpecIInv == Spec => []IInv
BY InitIInv, NextIInv, PTL DEF Spec

\* Types and capacities hold for every set of outputs and every bound.
THEOREM SpecTypeOK == Spec => []TypeOK
<1>1. IInv => TypeOK
  BY DEF IInv, TypeOK, SchInv, OwnInv
<1> QED BY <1>1, SpecIInv, PTL

\* The window table and the queue of the board's scheduler always agree.
THEOREM SpecOwnershipMatchesQueue == Spec => []OwnershipMatchesQueue
<1>1. IInv => OwnershipMatchesQueue
  BY DEF IInv, OwnershipMatchesQueue, SchInv, OwnInv
<1> QED BY <1>1, SpecIInv, PTL

\* No output is ever reserved for two overlapping pulses.
THEOREM SpecExclusiveOutputs == Spec => []ExclusiveOutputs
<1>1. IInv => ExclusiveOutputs
  BY DEF IInv, ExclusiveOutputs, SchInv, OwnInv
<1> QED BY <1>1, SpecIInv, PTL

\* The cached reserved bits, groups and mode are never stale.
THEOREM SpecSummariesMatchWindows == Spec => []SummariesMatchWindows
<1>1. IInv => SummariesMatchWindows
  BY DEF IInv, SummariesMatchWindows, SchInv, OwnInv
<1> QED BY <1>1, SpecIInv, PTL

\* The frontier never permits anything without a live horizon.
THEOREM SpecFrontierConsistent == Spec => []FrontierConsistent
<1>1. IInv => FrontierConsistent
  BY DEF IInv, FrontierConsistent, SchInv
<1> QED BY <1>1, SpecIInv, PTL

\* Applying nothing moves no pin.
LEMMA PinsAfterNothing ==
    ASSUME NEW p \in [Wired -> Levels], NEW q, NEW t
    PROVE  PinsAfter(p, q, t, {}) = p
BY DEF PinsAfter

\* With the frontier-aware bank no pin moves without a live, unexpired horizon.
THEOREM SpecFiringNeedsLiveHorizon == Spec => FiringNeedsLiveHorizon
<1> DEFINE Live == /\ sch.fr.active_id # None /\ sch.fr.mask # {}
                   /\ now <= sch.fr.horizon_end /\ now <= sch.fr.deadline
           Step == Bank = "ScheduledOutputs4" /\ pins' # pins /\ sch.fr.last_id # None => Live
<1>1. ASSUME IInv, [Next]_vars PROVE [Step]_vars
  <2> SUFFICES ASSUME Bank = "ScheduledOutputs4", pins' # pins, sch.fr.last_id # None
               PROVE  Live
    OBVIOUS
  <2>1. now \in Times /\ pins \in [Wired -> Levels] /\ FrInv(sch.fr)
    BY <1>1, SchInvFields DEF IInv
  <2>2. PICK bad : DrainAndApplyDue(bad)
    BY <1>1 DEF Next, vars, Advance, Execute, ExecuteBatch, CommitFrontierHorizon,
                NoteFrontierHeartbeat, ExpireFrontierNow, OnSyncLoss, OnHardSafetyShutdown,
                ForceSafeState, DrainAndApplyPlain
  <2>3. ~DrainDenied(sch)
    <3> SUFFICES ASSUME DrainDenied(sch) PROVE FALSE
      OBVIOUS
    <3>1. pins' = PinsAfter(pins, sch.queue, now, Applied(sch.queue, now, {}, bad))
      BY <2>2 DEF DrainAndApplyDue
    <3>2. Applied(sch.queue, now, {}, bad) = {}
      BY DEF Applied
    <3> QED BY <2>1, <3>1, <3>2, PinsAfterNothing
  <2>4. ~FrontierDead(ExpireFrontier(sch.fr, now))
    BY <2>3 DEF DrainDenied, DrainFrontier
  <2> QED BY <2>1, <2>4, NoneAssumption
          DEF FrontierDead, ExpireFrontier, ExpireHorizon, ExpireHeartbeat,
              ClearLiveFrontierState, FrInv, FrontierOK, FrontierType, Times
<1> QED BY <1>1, SpecIInv, PTL DEF Spec, FiringNeedsLiveHorizon

\* A withdrawn permission comes back only with a newer horizon, and accepted
\* horizon ids only grow.
THEOREM SpecPermitNeedsNewHorizon == Spec => PermitNeedsNewHorizon
<1> DEFINE Step ==
      /\ sch.fr.mask = {} /\ sch'.fr.mask # {} => sch'.fr.last_id # sch.fr.last_id
      /\ sch.fr.last_id # None /\ sch'.fr.last_id # sch.fr.last_id
           => sch'.fr.last_id > sch.fr.last_id
           Kept(fr, gr) == fr.last_id = gr.last_id /\ (fr.mask = {} => gr.mask = {})
<1>1. ASSUME NEW fr, NEW r PROVE Kept(fr, ClearLiveFrontierState(fr, r))
  BY DEF ClearLiveFrontierState
<1>2. ASSUME NEW fr \in FrontierType, NEW t PROVE Kept(fr, ExpireFrontier(fr, t))
  BY DEF ExpireFrontier, ExpireHorizon, ExpireHeartbeat, ClearLiveFrontierState, FrontierType
<1>3. ASSUME NEW fr \in FrontierType, NEW t PROVE Kept(fr, NoteHeartbeat(fr, t))
  BY DEF NoteHeartbeat, FrontierType
<1>4. ASSUME NEW s, NEW a PROVE Kept(s.fr, ApplyLowered(s, a).fr)
  BY <1>1 DEF ApplyLowered, ApplyWindows, CancelAllWithReason, Admit
<1> HIDE DEF Kept
<1>5. ASSUME IInv, [Next]_vars PROVE Kept(sch.fr, sch'.fr) \/ Step
  <2>1. sch.fr \in FrontierType /\ Kept(sch.fr, sch.fr)
    BY <1>5, SchInvFields DEF IInv, Kept
  <2>2. CASE Advance \/ UNCHANGED vars
    BY <2>1, <2>2 DEF Advance, vars
  <2>3. ASSUME NEW a, Execute(a) PROVE Kept(sch.fr, sch'.fr)
    BY <1>4, <2>3 DEF Execute
  <2>4. ASSUME NEW a, NEW b, ExecuteBatch(a, b) PROVE Kept(sch.fr, sch'.fr)
    <3>1. Kept(sch.fr, ApplyLowered(sch, a).fr)
      BY <1>4
    <3>2. Kept(ApplyLowered(sch, a).fr, ApplyLowered(ApplyLowered(sch, a), b).fr)
      BY <1>4
    <3>3. Kept(sch.fr, ApplyLowered(ApplyLowered(sch, a), b).fr)
      BY <3>1, <3>2 DEF Kept
    <3> QED BY <2>1, <2>4, <3>3 DEF ExecuteBatch
  <2>5. ASSUME NEW id \in HorizonIds, NEW len, NEW lead, NEW mask,
               CommitFrontierHorizon(id, len, lead, mask)
        PROVE  Step
    <3>1. id \in Nat /\ (sch.fr.last_id # None => id > sch.fr.last_id) /\ sch'.fr.last_id = id
      BY <2>5, InputAssumption
         DEF CommitFrontierHorizon, CommitOk, CommitHorizon, WithFrontier
    <3> QED BY <2>1, <3>1, NoneAssumption DEF FrontierType
  <2>6. CASE NoteFrontierHeartbeat
    BY <1>3, <2>1, <2>6 DEF NoteFrontierHeartbeat, WithFrontier
  <2>7. CASE ExpireFrontierNow
    BY <1>2, <2>1, <2>7 DEF ExpireFrontierNow, WithFrontier
  <2>8. CASE OnSyncLoss \/ OnHardSafetyShutdown \/ ForceSafeState
    BY <1>1, <2>8 DEF OnSyncLoss, OnHardSafetyShutdown, ForceSafeState, CancelAllWithReason
  <2>9. ASSUME NEW bad, DrainAndApplyDue(bad) PROVE Kept(sch.fr, sch'.fr)
    <3>1. Kept(sch.fr, DrainFrontier(sch))
      BY <1>2, <2>1 DEF DrainFrontier
    <3>2. DrainDueWithFrontier(sch).fr = DrainFrontier(sch)
      BY DEF DrainDueWithFrontier, Drained
    <3>3. Kept(sch.fr, CancelAllWithReason(DrainDueWithFrontier(sch), "BoardOutputFault").fr)
      BY <1>1, <3>1, <3>2 DEF CancelAllWithReason, Kept
    <3> QED BY <2>9, <3>1, <3>2, <3>3 DEF DrainAndApplyDue
  <2>10. ASSUME NEW bad, DrainAndApplyPlain(bad) PROVE Kept(sch.fr, sch'.fr)
    BY <2>1, <2>10 DEF DrainAndApplyPlain, Drained
  <2> QED BY <1>5, <2>2, <2>3, <2>4, <2>5, <2>6, <2>7, <2>8, <2>9, <2>10 DEF Next
<1>6. ASSUME IInv, [Next]_vars PROVE [Step]_vars
  BY <1>5, <1>6 DEF Kept
<1> QED BY <1>6, SpecIInv, PTL DEF Spec, PermitNeedsNewHorizon

\* Table, queue, summaries and frontier agree for every size of each.
THEOREM SpecTablesAgree == Spec => []TablesAgree
BY SpecTypeOK, SpecOwnershipMatchesQueue, SpecSummariesMatchWindows, SpecFrontierConsistent,
   SpecExclusiveOutputs, PTL DEF TablesAgree

\* Horizons govern what fires, for every set of horizons and any order of them.
THEOREM SpecHorizonsGovern == Spec => HorizonsGovern
BY SpecFiringNeedsLiveHorizon, SpecPermitNeedsNewHorizon DEF HorizonsGovern
=============================================================================
