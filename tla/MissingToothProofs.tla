------------------------- MODULE MissingToothProofs -------------------------
(***************************************************************************)
(* Proofs of the decoder's invariants for every wheel, every tick width    *)
(* and every startup policy.  The inductive invariant speaks of a decoder  *)
(* x, a profile p and a history h, so that each handler has a lemma of its *)
(* own; it adds to the checked invariants why a phase is fresh: a          *)
(* secondary signal seen since the gap is of this revolution, and without  *)
(* a secondary input the phase is never validated.                         *)
(***************************************************************************)
EXTENDS MissingTooth, TLAPS

Histories == [cam_age : 0..2, gaps : 0..(U8Max + 1)]
Profiles == [revs : 0..U8Max, saw_gap : BOOLEAN]

Consistent(x) ==
    /\ x.prev = x.norm
    /\ x.locked => x.last # None /\ x.tooth \in 1..Observed
    /\ ~x.locked => x.tooth = 0 /\ ~x.phase /\ ~x.sec

Backed(x) ==
    /\ x.auth.crank = "PrimaryLocked"
         => x.locked /\ (x.auth.phase = "CamValidated720" <=> x.phase)
    /\ x.auth.crank # "PrimaryLocked" => x.auth.phase = "Unknown"
    /\ x.auth.absolute # "None" => x.auth.phase = "CamValidated720"

Fresh(x, h) ==
    /\ x.phase => h.cam_age <= 1
    /\ x.sec => h.cam_age = 0
    /\ SecondaryMode = "None" => ~x.phase

Tracks(x, p, h) ==
    /\ p.saw_gap <=> x.locked
    /\ x.locked => p.revs + 1 = h.gaps
    /\ ~x.locked => p.revs = 0 /\ h.gaps = 0

DInv(x, h) ==
    x \in Decoders /\ h \in Histories /\ Consistent(x) /\ Backed(x) /\ Fresh(x, h)

IInv ==
    /\ now \in Ticks /\ profiled \in BOOLEAN /\ prof \in Profiles
    /\ DInv(d, hist) /\ (profiled => Tracks(d, prof, hist))

-----------------------------------------------------------------------------

LEMMA ElapsedType == ASSUME NEW t \in Ticks, NEW u \in Ticks PROVE Elapsed(t, u) \in Ticks
  BY TickAssumption DEF Elapsed, Ticks

LEMMA SatIncType ==
    ASSUME NEW max \in Nat, NEW k \in 0..max
    PROVE  SatInc(k, max) \in 0..max
  BY DEF SatInc

LEMMA LockedAuthorityBacked ==
    ASSUME NEW phase \in BOOLEAN, NEW losses \in 0..U16Max
    PROVE  /\ LockedAuthority(phase, losses) \in Authorities
           /\ LockedAuthority(phase, losses).crank = "PrimaryLocked"
           /\ LockedAuthority(phase, losses).phase = "CamValidated720" <=> phase
           /\ LockedAuthority(phase, losses).absolute # "None" => phase
  BY PolicyAssumption DEF LockedAuthority, Authority, Authorities

LEMMA SearchingAuthorityBacked ==
    ASSUME NEW losses \in 0..U16Max
    PROVE  /\ SearchingAuthority(losses) \in Authorities
           /\ SearchingAuthority(losses).crank = "PrimarySearching"
           /\ SearchingAuthority(losses).phase = "Unknown"
           /\ SearchingAuthority(losses).absolute = "None"
  BY DEF SearchingAuthority, Authority, Authorities

LEMMA HistoryType ==
    ASSUME NEW h \in Histories, NEW e, NEW locked \in BOOLEAN
    PROVE  HistoryAfter(h, e, locked) \in Histories
  BY WidthAssumption DEF HistoryAfter, Histories, SatInc

LEMMA NotedHistory ==
    ASSUME NEW h \in Histories
    PROVE  /\ Noted(h) \in Histories /\ Noted(h).cam_age = h.cam_age
           /\ profiled => Noted(h).gaps = h.gaps
<1>1. CASE profiled
  <2>1. Noted(h) = [cam_age |-> h.cam_age, gaps |-> h.gaps] BY <1>1 DEF Noted
  <2> QED BY <2>1 DEF Histories
<1>2. CASE ~profiled
  <2>1. Noted(h) = [cam_age |-> h.cam_age, gaps |-> 0] BY <1>2 DEF Noted
  <2>2. Noted(h) \in Histories /\ Noted(h).cam_age = h.cam_age BY <2>1, WidthAssumption DEF Histories
  <2> QED BY <1>2, <2>2
<1> QED BY <1>1, <1>2

LEMMA NewDInv == ASSUME NEW h \in Histories PROVE DInv(NewDecoder, h)
  BY TickAssumption, WidthAssumption, NoneNotTick
  DEF DInv, NewDecoder, Decoders, NoAuthority, Authority, Authorities, Consistent,
      Backed, Fresh, Ticks

LEMMA FirstEdgeDInv ==
    ASSUME NEW x, NEW h, DInv(x, h), NEW t \in Ticks, x.last = None
    PROVE  DInv(FirstEdge(x, t), HistoryAfter(h, "FirstEdge", FirstEdge(x, t).locked))
<1> DEFINE y == FirstEdge(x, t)
<1>1. y.auth = SearchingAuthority(x.auth.losses) /\ x.auth.losses \in 0..U16Max
  BY DEF FirstEdge, DInv, Decoders, Authorities
<1>2. y \in Decoders /\ ~y.locked
  BY <1>1, SearchingAuthorityBacked, TickAssumption DEF FirstEdge, DInv, Decoders, Consistent
<1>3. Consistent(y) BY <1>2 DEF FirstEdge, DInv, Consistent
<1>4. Backed(y) BY <1>1, SearchingAuthorityBacked DEF Backed
<1>5. Fresh(y, HistoryAfter(h, "FirstEdge", y.locked))
  BY DEF FirstEdge, Fresh, DInv, HistoryAfter, Consistent
<1>6. HistoryAfter(h, "FirstEdge", y.locked) \in Histories
  BY <1>2, HistoryType DEF DInv, Decoders
<1> QED BY <1>2, <1>3, <1>4, <1>5, <1>6 DEF DInv

LEMMA NoReferenceDInv ==
    ASSUME NEW x, NEW h, DInv(x, h), NEW t \in Ticks, x.last # None
    PROVE  DInv(NoReference(x, t), HistoryAfter(h, "Searching", NoReference(x, t).locked))
<1> DEFINE y == NoReference(x, t)
<1>1. y.auth = SearchingAuthority(x.auth.losses) /\ x.auth.losses \in 0..U16Max
  BY DEF NoReference, DInv, Decoders, Authorities
<1>2. Elapsed(t, x.last) \in Ticks BY ElapsedType DEF DInv, Decoders
<1>3. SatInc(x.since_gap, U8Max) \in 0..U8Max
  BY SatIncType, WidthAssumption DEF DInv, Decoders
<1>4. y \in Decoders
  BY <1>1, <1>2, <1>3, SearchingAuthorityBacked DEF NoReference, DInv, Decoders
<1>5. Consistent(y) BY NoneNotTick DEF NoReference, DInv, Consistent, Ticks
<1>6. Backed(y) BY <1>1, SearchingAuthorityBacked DEF Backed
<1>7. Fresh(y, HistoryAfter(h, "Searching", y.locked))
  BY DEF NoReference, Fresh, DInv, HistoryAfter
<1>8. HistoryAfter(h, "Searching", y.locked) \in Histories
  BY <1>4, HistoryType DEF DInv, Decoders
<1> QED BY <1>4, <1>5, <1>6, <1>7, <1>8 DEF DInv

LEMMA DropSyncDInv ==
    ASSUME NEW x, NEW h, DInv(x, h), NEW t \in Ticks
    PROVE  DInv(DropSync(x, t), HistoryAfter(h, "Dropped", DropSync(x, t).locked))
<1> DEFINE y == DropSync(x, t)
<1>1. SatInc(x.auth.losses, U16Max) \in 0..U16Max
  BY SatIncType, WidthAssumption DEF DInv, Decoders, Authorities
<1>2. y \in Decoders /\ ~y.locked
  BY <1>1, TickAssumption, WidthAssumption DEF DropSync, Decoders, Authority, Authorities, Ticks
<1>3. Consistent(y) /\ Backed(y)
  BY DEF DropSync, Consistent, Backed, Authority
<1>4. Fresh(y, HistoryAfter(h, "Dropped", y.locked)) BY DEF DropSync, Fresh
<1>5. HistoryAfter(h, "Dropped", y.locked) \in Histories
  BY <1>2, HistoryType DEF DInv, Decoders
<1> QED BY <1>2, <1>3, <1>4, <1>5 DEF DInv

LEMMA AcceptGapDInv ==
    ASSUME NEW x, NEW h, DInv(x, h), NEW t \in Ticks
    PROVE  DInv(AcceptGap(x, t), HistoryAfter(h, "Gap", AcceptGap(x, t).locked))
<1> DEFINE y == AcceptGap(x, t)
           k == HistoryAfter(h, "Gap", y.locked)
<1>1. y.locked /\ ~y.sec /\ y.tooth = 1 /\ y.last = t /\ y.prev = y.norm
  BY DEF AcceptGap
<1>2. y.phase = PhaseAfterGap(x) /\ PhaseAfterGap(x) \in BOOLEAN
  BY DEF AcceptGap, PhaseAfterGap, DInv, Decoders
<1>3. x.auth.losses \in 0..U16Max BY DEF DInv, Decoders, Authorities
<1>4. y.auth = LockedAuthority(y.phase, x.auth.losses) BY <1>2 DEF AcceptGap
<1>5. y.auth \in Authorities BY <1>2, <1>3, <1>4, LockedAuthorityBacked
<1>6. 1 \in 0..U8Max BY WheelAssumption, WidthAssumption
<1>7. y \in Decoders BY <1>2, <1>5, <1>6 DEF AcceptGap, DInv, Decoders
<1>8. Consistent(y)
  BY <1>1, WheelAssumption, TickAssumption, NoneNotTick DEF Consistent, Observed, Ticks
<1>9. Backed(y) BY <1>1, <1>2, <1>3, <1>4, LockedAuthorityBacked DEF Backed
<1>10. Fresh(y, k)
  <2>1. y.phase => x.phase /\ (~x.locked \/ SecondaryMode = "None" \/ x.sec)
    BY <1>2 DEF PhaseAfterGap, DInv, Decoders
  <2>2. y.phase => x.sec /\ SecondaryMode # "None" BY <2>1 DEF DInv, Consistent, Fresh, Decoders
  <2>3. y.phase => k.cam_age <= 1 BY <2>2 DEF DInv, Fresh, HistoryAfter, SatInc
  <2> QED BY <2>2, <2>3, <1>1 DEF Fresh
<1>11. k \in Histories BY <1>7, HistoryType DEF DInv, Decoders
<1> QED BY <1>7, <1>8, <1>9, <1>10, <1>11 DEF DInv

LEMMA AcceptToothDInv ==
    ASSUME NEW x, NEW h, DInv(x, h), NEW t \in Ticks, x.last # None, ~WrongToothCount(x, FALSE)
    PROVE  DInv(AcceptTooth(x, t), HistoryAfter(h, "Tooth", AcceptTooth(x, t).locked))
<1> DEFINE y == AcceptTooth(x, t)
           k == HistoryAfter(h, "Tooth", y.locked)
<1>1. y.locked = x.locked /\ y.phase = x.phase /\ y.sec = x.sec /\ y.prev = y.norm /\ y.last = t
  BY DEF AcceptTooth
<1>2. x.locked \in BOOLEAN /\ x.phase \in BOOLEAN /\ x.sec \in BOOLEAN
      /\ x.auth.losses \in 0..U16Max /\ x.tooth \in 0..U8Max
  BY DEF DInv, Decoders, Authorities
<1>3. y.auth = IF x.locked THEN LockedAuthority(x.phase, x.auth.losses)
               ELSE SearchingAuthority(x.auth.losses)
  BY DEF AcceptTooth
<1>4. y.auth \in Authorities BY <1>2, <1>3, LockedAuthorityBacked, SearchingAuthorityBacked
<1>5. Elapsed(t, x.last) \in Ticks BY ElapsedType DEF DInv, Decoders
<1>6. /\ SatInc(x.since_gap, U8Max) \in 0..U8Max
      /\ y.tooth \in 0..U8Max
  BY <1>2, WidthAssumption DEF DInv, Decoders, AcceptTooth, SatInc
<1>7. y \in Decoders BY <1>1, <1>2, <1>4, <1>5, <1>6 DEF AcceptTooth, Decoders
<1>8. Consistent(y)
  <2>1. x.locked => x.tooth \in 1..Observed /\ x.tooth < Observed
    BY <1>2, WheelAssumption DEF DInv, Consistent, WrongToothCount, Observed
  <2>2. x.locked => y.tooth \in 1..Observed
    BY <2>1, WheelAssumption, WidthAssumption DEF AcceptTooth, SatInc, Observed
  <2>3. ~x.locked => y.tooth = 0 /\ ~y.phase /\ ~y.sec
    BY <1>1 DEF AcceptTooth, DInv, Consistent
  <2> QED BY <1>1, <2>2, <2>3, NoneNotTick DEF Consistent, Ticks
<1>9. Backed(y)
  BY <1>1, <1>2, <1>3, LockedAuthorityBacked, SearchingAuthorityBacked DEF Backed
<1>10. Fresh(y, k) BY <1>1 DEF Fresh, DInv, HistoryAfter
<1>11. k \in Histories BY <1>7, HistoryType DEF DInv, Decoders
<1> QED BY <1>7, <1>8, <1>9, <1>10, <1>11 DEF DInv

\* The handlers that touch nothing but the phase and the authority.
LEMMA WithPhaseDInv ==
    ASSUME NEW x, NEW h, DInv(x, h), NEW k \in Histories,
           NEW phase \in BOOLEAN, NEW sec \in BOOLEAN, NEW auth,
           auth = IF x.locked THEN LockedAuthority(phase, x.auth.losses)
                  ELSE SearchingAuthority(x.auth.losses),
           phase \/ sec => x.locked,
           phase => k.cam_age <= 1 /\ SecondaryMode # "None",
           sec => k.cam_age = 0
    PROVE  DInv(WithPhase(x, phase, sec, auth), k)
<1> DEFINE y == WithPhase(x, phase, sec, auth)
<1>1. x.locked \in BOOLEAN /\ x.auth.losses \in 0..U16Max
  BY DEF DInv, Decoders, Authorities
<1>2. auth \in Authorities BY <1>1, LockedAuthorityBacked, SearchingAuthorityBacked
<1>3. y \in Decoders BY <1>2 DEF WithPhase, DInv, Decoders
<1>4. y.phase = phase /\ y.sec = sec /\ y.auth = auth /\ y.locked = x.locked BY DEF WithPhase
<1>5. Consistent(y) BY DEF WithPhase, DInv, Consistent
<1>6. Backed(y) BY <1>1, <1>4, LockedAuthorityBacked, SearchingAuthorityBacked DEF Backed
<1>7. Fresh(y, k) BY <1>4 DEF Fresh
<1> QED BY <1>3, <1>5, <1>6, <1>7 DEF DInv

LEMMA SecondaryDInv ==
    ASSUME NEW x, NEW h, DInv(x, h), NEW good \in BOOLEAN,
           NEW signal \in {"SingleToothCam", "PollLevel"}
    PROVE  DInv(IngestSecondary(x, signal, good),
                IF ValidatesPhase(x, signal, good)
                THEN [cam_age |-> 0, gaps |-> h.gaps] ELSE h)
<1>1. CASE ValidatesPhase(x, signal, good)
  <2>1. x.locked /\ SecondaryMode # "None" BY <1>1 DEF ValidatesPhase
  <2> DEFINE k == [cam_age |-> 0, gaps |-> h.gaps]
  <2>2. k \in Histories /\ k.cam_age = 0 /\ k.cam_age <= 1 BY DEF DInv, Histories
  <2> HIDE DEF k
  <2>3. DInv(WithPhase(x, TRUE, TRUE, LockedAuthority(TRUE, x.auth.losses)), k)
    BY <2>1, <2>2, WithPhaseDInv
  <2> QED BY <1>1, <2>3 DEF IngestSecondary, Validated, k
<1>2. CASE ~ValidatesPhase(x, signal, good)
  <2>1. DInv(SecondaryFault(x), h)
    BY WithPhaseDInv DEF SecondaryFault, DInv
  <2> QED BY <1>2, <2>1 DEF IngestSecondary
<1> QED BY <1>1, <1>2

LEMMA UnexpectedDInv ==
    ASSUME NEW x, NEW h, DInv(x, h)
    PROVE  DInv(UnexpectedPrimaryEdge(x), h)
<1>1. CASE x.locked BY <1>1 DEF UnexpectedPrimaryEdge
<1>2. CASE ~x.locked
  <2>1. x.phase \in BOOLEAN /\ x.sec \in BOOLEAN /\ h \in Histories
    BY DEF DInv, Decoders
  <2>2. ~x.phase /\ ~x.sec BY <1>2 DEF DInv, Consistent
  <2>3. DInv(WithPhase(x, x.phase, x.sec, SearchingAuthority(x.auth.losses)), h)
    BY <1>2, <2>1, <2>2, WithPhaseDInv
  <2> QED BY <1>2, <2>3 DEF UnexpectedPrimaryEdge
<1> QED BY <1>1, <1>2

LEMMA IngestDInv ==
    ASSUME NEW x, NEW h, DInv(x, h), NEW t \in Ticks
    PROVE  DInv(IngestPrimaryEdge(x, t),
                HistoryAfter(h, Classify(x, t), IngestPrimaryEdge(x, t).locked))
<1> DEFINE e == Classify(x, t)
<1>1. e \in {"FirstEdge", "Ignored", "Searching", "Dropped", "Gap", "Tooth"} BY DEF Classify
<1>2. e = "FirstEdge" => x.last = None BY DEF Classify
<1>3. e # "FirstEdge" => x.last # None BY DEF Classify
<1>4. e = "Tooth" => ~WrongToothCount(x, FALSE)
  <2>1. e = "Tooth" => ~IsGap(Elapsed(t, x.last), x.prev)
                       /\ ~WrongToothCount(x, IsGap(Elapsed(t, x.last), x.prev))
    BY DEF Classify
  <2> QED BY <2>1 DEF WrongToothCount
<1> HIDE DEF e
<1>5. CASE e = "Ignored"
  <2>1. IngestPrimaryEdge(x, t) = x BY <1>5 DEF IngestPrimaryEdge, e
  <2>2. h \in Histories /\ x.locked \in BOOLEAN BY DEF DInv, Decoders
  <2>3. HistoryAfter(h, e, x.locked) \in Histories BY <2>2, HistoryType
  <2>4. HistoryAfter(h, e, x.locked).cam_age = h.cam_age BY <1>5 DEF HistoryAfter
  <2> QED BY <2>1, <2>3, <2>4 DEF DInv, Fresh, e
<1>6. CASE e = "FirstEdge" BY <1>6, <1>2, FirstEdgeDInv DEF IngestPrimaryEdge, e
<1>7. CASE e = "Searching" BY <1>7, <1>3, NoReferenceDInv DEF IngestPrimaryEdge, e
<1>8. CASE e = "Dropped" BY <1>8, DropSyncDInv DEF IngestPrimaryEdge, e
<1>9. CASE e = "Gap" BY <1>9, AcceptGapDInv DEF IngestPrimaryEdge, e
<1>10. CASE e = "Tooth" BY <1>10, <1>3, <1>4, AcceptToothDInv DEF IngestPrimaryEdge, e
<1> QED BY <1>1, <1>5, <1>6, <1>7, <1>8, <1>9, <1>10

\* What each class of edge does to the lock.
LEMMA LockAfter ==
    ASSUME NEW x, NEW h, DInv(x, h), NEW t \in Ticks
    PROVE  LET e == Classify(x, t)
               y == IngestPrimaryEdge(x, t)
           IN  /\ e \in {"FirstEdge", "Ignored", "Searching", "Dropped", "Gap", "Tooth"}
               /\ e = "Dropped" => ~y.locked
               /\ e = "Gap" => y.locked
               /\ e \notin {"Dropped", "Gap"} => y.locked = x.locked
  BY DEF Classify, IngestPrimaryEdge, FirstEdge, NoReference, DropSync, AcceptGap, AcceptTooth

LEMMA ProfileTracks ==
    ASSUME NEW x, NEW h, DInv(x, h), NEW p \in Profiles, Tracks(x, p, h),
           NEW e \in {"FirstEdge", "Ignored", "Searching", "Dropped", "Gap", "Tooth"},
           NEW y, y.locked \in BOOLEAN,
           e = "Dropped" => ~y.locked, e = "Gap" => y.locked,
           e \notin {"Dropped", "Gap"} => y.locked = x.locked
    PROVE  /\ ProfileAfter(p, e, y.locked) \in Profiles
           /\ Tracks(y, ProfileAfter(p, e, y.locked), HistoryAfter(h, e, y.locked))
<1>1. p.revs \in 0..U8Max /\ p.saw_gap \in BOOLEAN /\ x.locked \in BOOLEAN
      /\ h.gaps \in 0..(U8Max + 1)
  BY DEF Profiles, DInv, Decoders, Histories
<1>2. NewProfile \in Profiles BY WidthAssumption DEF NewProfile, Profiles
<1>3. CASE e = "Gap"
  <2> DEFINE q == ProfileAfter(p, e, y.locked)
             k == HistoryAfter(h, e, y.locked)
  <2>1. q = [revs |-> IF p.saw_gap THEN SatInc(p.revs, U8Max) ELSE p.revs, saw_gap |-> TRUE]
    BY <1>3 DEF ProfileAfter
  <2>2. q.saw_gap = TRUE /\ q.revs = IF p.saw_gap THEN SatInc(p.revs, U8Max) ELSE p.revs
    BY <2>1
  <2>3. k.gaps = SatInc(h.gaps, U8Max + 1) BY <1>3 DEF HistoryAfter
  <2>4. q.revs \in 0..U8Max BY <1>1, <2>2, WidthAssumption DEF SatInc
  <2>5. q \in Profiles BY <2>1, <2>2, <2>4 DEF Profiles
  <2>6. q.revs + 1 = k.gaps
    <3>1. CASE x.locked
      <4>1. p.saw_gap /\ p.revs + 1 = h.gaps BY <3>1, <1>1 DEF Tracks
      <4> QED BY <1>1, <2>2, <2>3, <4>1, WidthAssumption DEF SatInc
    <3>2. CASE ~x.locked
      <4>1. ~p.saw_gap /\ p.revs = 0 /\ h.gaps = 0 BY <3>2, <1>1 DEF Tracks
      <4> QED BY <1>1, <2>2, <2>3, <4>1, WidthAssumption DEF SatInc
    <3> QED BY <3>1, <3>2
  <2> HIDE DEF q, k
  <2>7. Tracks(y, q, k) BY <1>3, <2>2, <2>6 DEF Tracks
  <2> QED BY <2>5, <2>7 DEF q, k
<1>4. CASE e # "Gap" /\ y.locked
  <2>1. ProfileAfter(p, e, y.locked) = p BY <1>4 DEF ProfileAfter
  <2>2. HistoryAfter(h, e, y.locked).gaps = h.gaps BY <1>4 DEF HistoryAfter
  <2> QED BY <1>4, <2>1, <2>2 DEF Tracks
<1>5. CASE e # "Gap" /\ ~y.locked
  <2>1. ProfileAfter(p, e, y.locked) = NewProfile \/ ProfileAfter(p, e, y.locked) = p
    BY <1>5 DEF ProfileAfter
  <2>2. ProfileAfter(p, e, y.locked) = p => e = "Ignored" \/ p = NewProfile
    BY <1>5 DEF ProfileAfter
  <2>3. NewProfile.revs = 0 /\ ~NewProfile.saw_gap BY DEF NewProfile
  <2>4. HistoryAfter(h, e, y.locked).gaps = 0 BY <1>5 DEF HistoryAfter
  <2>5. CASE ProfileAfter(p, e, y.locked) = NewProfile
    BY <1>2, <1>5, <2>3, <2>4, <2>5 DEF Tracks
  <2>6. CASE e = "Ignored" /\ ProfileAfter(p, e, y.locked) = p
    BY <1>1, <1>5, <2>4, <2>6 DEF Tracks
  <2> QED BY <2>1, <2>2, <2>5, <2>6
<1> QED BY <1>3, <1>4, <1>5

-----------------------------------------------------------------------------

LEMMA InitIInv == Init => IInv
<1> SUFFICES ASSUME Init PROVE IInv OBVIOUS
<1>1. hist \in Histories BY WidthAssumption DEF Init, Histories
<1>2. DInv(d, hist) BY <1>1, NewDInv DEF Init
<1>3. now \in Ticks /\ prof \in Profiles /\ profiled \in BOOLEAN
  BY TickAssumption, PolicyAssumption, WidthAssumption DEF Init, Ticks, Profiles, NewProfile
<1>4. Tracks(d, prof, hist) BY DEF Init, Tracks, NewProfile, NewDecoder
<1> QED BY <1>2, <1>3, <1>4 DEF IInv

LEMMA NextIInv == IInv /\ [Next]_vars => IInv'
<1> SUFFICES ASSUME IInv, [Next]_vars PROVE IInv' OBVIOUS
<1>1. ASSUME NEW dt \in Intervals, PrimaryEdge(dt) PROVE IInv'
  <2> DEFINE t == (now + dt) % TickMod
             e == Classify(d, t)
             h == HistoryAfter(hist, e, d'.locked)
  <2>1. t \in Ticks BY TickAssumption DEF IInv, Ticks
  <2>2. now' = t /\ profiled' = profiled /\ d' = IngestPrimaryEdge(d, t)
        /\ hist' = Noted(h)
        /\ prof' = IF profiled THEN ProfileAfter(prof, e, d'.locked) ELSE prof
    BY <1>1 DEF PrimaryEdge
  <2> HIDE DEF t
  <2>3. DInv(d', hist')
    <3>1. DInv(d', h) BY <2>1, <2>2, IngestDInv DEF IInv
    <3>2. Noted(h) \in Histories /\ Noted(h).cam_age = h.cam_age
      BY <3>1, NotedHistory DEF DInv
    <3> QED BY <2>2, <3>1, <3>2 DEF DInv, Fresh
  <2>4. /\ e \in {"FirstEdge", "Ignored", "Searching", "Dropped", "Gap", "Tooth"}
        /\ e = "Dropped" => ~d'.locked
        /\ e = "Gap" => d'.locked
        /\ e \notin {"Dropped", "Gap"} => d'.locked = d.locked
    BY <2>1, <2>2, LockAfter DEF IInv
  <2>5. d'.locked \in BOOLEAN BY <2>3 DEF DInv, Decoders
  <2> HIDE DEF e
  <2>6. prof' \in Profiles /\ (profiled => Tracks(d', prof', hist'))
    <3>1. CASE profiled
      <4>1. hist \in Histories BY DEF IInv, DInv
      <4>2. h \in Histories BY <4>1, <2>5, HistoryType
      <4>3. Noted(h).gaps = h.gaps BY <4>2, <3>1, NotedHistory
      <4>4. prof' \in Profiles /\ Tracks(d', prof', h)
        BY <2>2, <2>4, <2>5, <3>1, ProfileTracks DEF IInv
      <4> QED BY <4>3, <4>4, <2>2 DEF Tracks
    <3>2. CASE ~profiled BY <2>2, <3>2 DEF IInv, Tracks
    <3> QED BY <3>1, <3>2
  <2> QED BY <2>1, <2>2, <2>3, <2>6 DEF IInv
<1>2. CASE WrongPrimaryEdge
  <2>1. DInv(d', hist') BY <1>2, UnexpectedDInv DEF WrongPrimaryEdge, IInv
  <2> QED BY <1>2, <2>1 DEF WrongPrimaryEdge, IInv, Tracks
<1>3. ASSUME NEW signal \in {"SingleToothCam", "PollLevel"}, NEW good \in BOOLEAN,
             SecondarySignal(signal, good)
      PROVE  IInv'
  <2>1. DInv(d', hist') BY <1>3, SecondaryDInv DEF SecondarySignal, IInv
  <2>2. d'.locked = d.locked /\ hist'.gaps = hist.gaps
    BY <1>3 DEF SecondarySignal, IngestSecondary, Validated, SecondaryFault, WithPhase
  <2> QED BY <1>3, <2>1, <2>2 DEF SecondarySignal, IInv, Tracks
<1>4. CASE ResetSync
  <2>1. hist' \in Histories BY <1>4, WidthAssumption DEF ResetSync, IInv, DInv, Histories
  <2>2. DInv(d', hist') BY <1>4, <2>1, NewDInv DEF ResetSync
  <2>3. prof' \in Profiles BY <1>4, WidthAssumption DEF ResetSync, Profiles, NewProfile
  <2>4. Tracks(d', prof', hist') BY <1>4 DEF ResetSync, Tracks, NewProfile, NewDecoder
  <2> QED BY <1>4, <2>2, <2>3, <2>4 DEF ResetSync, IInv
<1>5. CASE UNCHANGED vars BY <1>5 DEF vars, IInv, Tracks, DInv, Fresh
<1> QED BY <1>1, <1>2, <1>3, <1>4, <1>5 DEF Next

\* The inductive invariant holds throughout.
THEOREM SpecIInv == Spec => []IInv
  BY InitIInv, NextIInv, PTL DEF Spec

\* The decoder of missing_tooth.rs keeps its types on every edge stream.
THEOREM SpecTypeOK == Spec => []TypeOK
<1>1. IInv => TypeOK BY DEF IInv, DInv, TypeOK, Profiles, Histories
<1> QED BY <1>1, SpecIInv, PTL

\* The decoder's fields agree on every edge stream: a locked decoder is at one
\* of the observed teeth, an unlocked one keeps nothing of an earlier lock.
THEOREM SpecDecoderConsistent == Spec => []DecoderConsistent
<1>1. IInv => DecoderConsistent BY DEF IInv, DInv, DecoderConsistent, Consistent
<1> QED BY <1>1, SpecIInv, PTL

\* set_locked_authority and set_searching_authority never publish more than the
\* decoder holds.
THEOREM SpecAuthorityIsBacked == Spec => []AuthorityIsBacked
<1>1. IInv => AuthorityIsBacked BY DEF IInv, DInv, AuthorityIsBacked, Backed
<1> QED BY <1>1, SpecIInv, PTL

\* validate_secondary_before_next_gap takes the phase away within a revolution
\* of the last secondary signal.
THEOREM SpecPhaseIsFresh == Spec => []PhaseIsFresh
<1>1. IInv => PhaseIsFresh BY DEF IInv, DInv, PhaseIsFresh, Fresh
<1> QED BY <1>1, SpecIInv, PTL

\* The authority the runtime takes for a full lock needs an unbroken lock over
\* the startup revolutions and a secondary signal of the last revolution.
THEOREM SpecFullAuthorityIsEarned == Spec => []FullAuthorityIsEarned
<1>1. IInv => FullAuthorityIsEarned
  <2> SUFFICES ASSUME IInv, profiled,
                      CompatibilitySummary(ProfiledAuthority(d, prof)) = "Locked"
               PROVE  d.locked /\ hist.cam_age <= 1 /\ hist.gaps > SkipRevolutions
    BY DEF FullAuthorityIsEarned
  <2> DEFINE a == ProfiledAuthority(d, prof)
  <2>1. a.crank = "PrimaryLocked" /\ a.absolute # "None"
    BY DEF CompatibilitySummary
  <2>2. d.auth.crank = "PrimaryLocked" /\ StartupReady(prof.revs) /\ a = d.auth
    BY <2>1 DEF ProfiledAuthority, Authority
  <2>3. d.locked /\ d.phase BY <2>1, <2>2 DEF IInv, DInv, Backed
  <2>4. prof.revs + 1 = hist.gaps BY <2>3 DEF IInv, Tracks
  <2>5. prof.revs \in Nat /\ prof.revs >= SkipRevolutions
    BY <2>2, WidthAssumption DEF IInv, Profiles, StartupReady
  <2> QED BY <2>3, <2>4, <2>5, PolicyAssumption DEF IInv, DInv, Fresh
<1> QED BY <1>1, SpecIInv, PTL

\* The profiled wrapper's count follows the decoder's lock.
THEOREM SpecProfileTracksLock == Spec => []ProfileTracksLock
<1>1. IInv => ProfileTracksLock BY DEF IInv, ProfileTracksLock, Tracks
<1> QED BY <1>1, SpecIInv, PTL

\* Decoder and wrapper agree on every edge stream.
THEOREM SpecDecoderAgrees == Spec => []DecoderAgrees
BY SpecTypeOK, SpecDecoderConsistent, SpecProfileTracksLock, PTL DEF DecoderAgrees

\* No edge stream makes the decoder claim more than it saw.
THEOREM SpecClaimsAreBacked == Spec => []ClaimsAreBacked
BY SpecAuthorityIsBacked, SpecPhaseIsFresh, SpecFullAuthorityIsEarned, PTL DEF ClaimsAreBacked
=============================================================================
