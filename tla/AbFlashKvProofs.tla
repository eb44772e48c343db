--------------------------- MODULE AbFlashKvProofs --------------------------
(***************************************************************************)
(* Proofs about the RP2040 flash store, for any set of page values and any *)
(* sequence width: the tune pages implement the atomic register, the boot  *)
(* diagnostic is no false alarm, and two valid slots never tie.            *)
(*                                                                         *)
(* The invariant: while a rewrite runs, the other slot is either the one   *)
(* boot would select, one sequence number behind the rewrite, or blank on  *)
(* a device that holds no tune; and the target slot is what the programmed *)
(* pages make it.  Between rewrites no two valid slots tie, and a slot     *)
(* that fails validation is the trace of a write that was lost.            *)
(***************************************************************************)
EXTENDS AbFlashKv, TLAPS

Other(i) == 1 - i

(* Slot s at a given step of a rewrite with staged image img.              *)
TargetAt(s, img, step) ==
    /\ step >= 2 => s.hdr = img.hdr
    /\ step = 1 => s.hdr = Erased
    /\ step >= 3 => s.page["fuel"] = img.page["fuel"]
    /\ step \in 1 .. 2 => s.page["fuel"] = Erased
    /\ step = 4 => s.page["ign"] = img.page["ign"] /\ s.page["angles"] = img.page["angles"]
    /\ step \in 1 .. 3 => s.page["ign"] = Erased /\ s.page["angles"] = Erased

(* The slot a rewrite leaves alone.                                        *)
KeptSlot(s, seq) ==
    \/ SlotValid(s) /\ seq = s.hdr.seq + 1
    \/ s.hdr = Erased /\ seq = 1

InFlight ==
    /\ KeptSlot(slots[Other(op.target)], op.seq)
    /\ ~SlotValid(slots[Other(op.target)]) => op.target = 0
    /\ op.step = 0 /\ SlotValid(slots[op.target])
         => /\ SlotValid(slots[Other(op.target)])
            /\ slots[op.target].hdr.seq < slots[Other(op.target)].hdr.seq
    /\ op.step > 0 => TargetAt(slots[op.target], Image(op), op.step)

Idle ==
    /\ NoSequenceTie
    /\ scan(slots) = NoSlot => slots[1].hdr = Erased
    /\ SawCorrupt(slots) => lost

IInv ==
    /\ TypeOK
    /\ op = None => Idle
    /\ op # None => InFlight

-----------------------------------------------------------------------------
(* What ab::scan selects, in terms of which slots validate. *)
LEMMA ScanSelects ==
    ASSUME NEW ss \in [0 .. 1 -> Slots], NEW i \in 0 .. 1,
           SlotValid(ss[i]),
           SlotValid(ss[Other(i)]) => ss[Other(i)].hdr.seq < ss[i].hdr.seq
    PROVE  scan(ss) = i
<1>1. ss[i].hdr.seq \in Int BY DEF SlotValid, Headers, Seqs
<1>2. SlotValid(ss[Other(i)]) => ss[Other(i)].hdr.seq \in Int
  BY DEF SlotValid, Headers, Seqs
<1>3. CASE i = 0
  <2>1. Other(i) = 1 BY <1>3 DEF Other
  <2> QED BY <1>1, <1>2, <1>3, <2>1 DEF scan
<1>4. CASE i = 1
  <2>1. Other(i) = 0 BY <1>4 DEF Other
  <2> QED BY <1>1, <1>2, <1>4, <2>1 DEF scan
<1> QED BY <1>3, <1>4

(* With no valid slot the store is empty. *)
LEMMA ScanNone ==
    ASSUME NEW ss, ~SlotValid(ss[0]), ~SlotValid(ss[1])
    PROVE  scan(ss) = NoSlot
BY DEF scan

(* The scan returns a valid slot that no valid slot exceeds, or none.      *)
LEMMA ScanResult ==
    ASSUME NEW ss \in [0 .. 1 -> Slots]
    PROVE  \/ scan(ss) = NoSlot /\ ~SlotValid(ss[0]) /\ ~SlotValid(ss[1])
           \/ /\ scan(ss) \in 0 .. 1
              /\ scan(ss) # NoSlot
              /\ SlotValid(ss[scan(ss)])
              /\ SlotValid(ss[Other(scan(ss))])
                   => ss[Other(scan(ss))].hdr.seq <= ss[scan(ss)].hdr.seq
<1>1. \A i \in 0 .. 1 : SlotValid(ss[i]) => ss[i].hdr.seq \in Int
  BY DEF SlotValid, Headers, Seqs
<1>2. NoSlot # 0 /\ NoSlot # 1 BY MarkerAssumption
<1>3. Other(0) = 1 /\ Other(1) = 0 BY DEF Other
<1>4. CASE SlotValid(ss[1]) /\ (SlotValid(ss[0]) => ss[1].hdr.seq >= ss[0].hdr.seq)
  <2>1. scan(ss) = 1 BY <1>4 DEF scan
  <2> QED BY <1>1, <1>2, <1>3, <1>4, <2>1
<1>5. CASE ~(SlotValid(ss[1]) /\ (SlotValid(ss[0]) => ss[1].hdr.seq >= ss[0].hdr.seq))
           /\ SlotValid(ss[0])
  <2>1. scan(ss) = 0 BY <1>5 DEF scan
  <2>2. SlotValid(ss[1]) => ss[1].hdr.seq <= ss[0].hdr.seq BY <1>1, <1>5
  <2> QED BY <1>2, <1>3, <1>5, <2>1, <2>2
<1>6. CASE ~SlotValid(ss[0]) /\ ~SlotValid(ss[1]) BY <1>6, ScanNone
<1> QED BY <1>4, <1>5, <1>6

-----------------------------------------------------------------------------
(* Slots under a rewrite.                                                  *)

(* An interrupted erase never makes a slot valid. *)
LEMMA HalfErasedSlot ==
    ASSUME NEW s \in Slots, NEW K, NEW E
    PROVE  /\ HalfErased(s, K, E) \in Slots
           /\ SlotValid(HalfErased(s, K, E))
                => SlotValid(s) /\ HalfErased(s, K, E).hdr = s.hdr
<1> DEFINE t == HalfErased(s, K, E)
<1>1. t \in Slots BY DEF HalfErased, Slots
<1>2. ASSUME SlotValid(t) PROVE SlotValid(s) /\ t.hdr = s.hdr
  <2>1. t.hdr \in Headers BY <1>2 DEF SlotValid
  <2>2. t.hdr = s.hdr BY <2>1, HeadersAssumption DEF HalfErased
  <2>3. ASSUME NEW k \in Keys PROVE s.page[k] = s.hdr.crc[k]
    <3>1. t.page[k] = s.hdr.crc[k] BY <1>2, <2>2 DEF SlotValid
    <3>2. s.hdr.crc[k] \in Values BY <2>1, <2>2 DEF Headers
    <3>3. t.page[k] = IF k \in K THEN s.page[k] ELSE Torn BY DEF HalfErased
    <3> QED BY <3>1, <3>2, <3>3, UnitsAssumption
  <2> QED BY <2>1, <2>2, <2>3 DEF SlotValid
<1> QED BY <1>1, <1>2

(* A staged rewrite is a slot image of its own pages. *)
LEMMA ImageType ==
    ASSUME NEW o \in Ops
    PROVE  /\ Image(o) \in Slots
           /\ Image(o).hdr \in Headers
           /\ Image(o).hdr = [seq |-> o.seq, crc |-> o.page]
           /\ Image(o).page = o.page
           /\ SlotValid(Image(o))
BY DEF Image, Ops, Slots, Headers, SlotValid

(* Before the last page is programmed the target does not validate.        *)
LEMMA PartialTargetInvalid ==
    ASSUME NEW o \in Ops, NEW s \in Slots, NEW step \in 1 .. 3,
           TargetAt(s, Image(o), step)
    PROVE  ~SlotValid(s)
<1>1. s.page["ign"] = Erased BY DEF TargetAt
<1> SUFFICES ASSUME SlotValid(s) PROVE FALSE OBVIOUS
<1>2. s.hdr.crc["ign"] \in Values /\ s.page["ign"] = s.hdr.crc["ign"]
  BY DEF SlotValid, Headers, Keys
<1> QED BY <1>1, <1>2, UnitsAssumption

(* After the last page the target is the staged image.                     *)
LEMMA FullTargetValid ==
    ASSUME NEW o \in Ops, NEW s \in Slots, TargetAt(s, Image(o), 4)
    PROVE  SlotValid(s) /\ s.hdr = Image(o).hdr /\ s.page = o.page
<1> DEFINE img == Image(o)
<1>0. img.page = o.page /\ img.hdr = [seq |-> o.seq, crc |-> o.page] /\ img.hdr \in Headers
  BY ImageType
<1> HIDE DEF img
<1>a. TargetAt(s, img, 4) BY DEF img
<1>1. s.hdr = img.hdr /\ \A k \in Keys : s.page[k] = o.page[k]
  BY <1>0, <1>a DEF TargetAt, Keys
<1>2. s.page \in [Keys -> Values \cup {Erased, Torn}] /\ o.page \in [Keys -> Values]
  BY DEF Slots, Ops
<1>3. s.page = o.page BY <1>1, <1>2
<1> QED BY <1>0, <1>1, <1>3 DEF SlotValid, img

(* One page program moves the target to the next step.                     *)
LEMMA ProgrammedStep ==
    ASSUME NEW o \in Ops, NEW s \in Slots, NEW step \in 1 .. 3,
           TargetAt(s, Image(o), step)
    PROVE  /\ Programmed(s, Image(o), PageUnits(step)) \in Slots
           /\ TargetAt(Programmed(s, Image(o), PageUnits(step)), Image(o), step + 1)
<1> DEFINE t == Programmed(s, Image(o), PageUnits(step))
<1>1. t \in Slots BY ImageType DEF Programmed, Slots
<1>2. CASE step = 1
  <2>1. PageUnits(step) = {"hdr"} BY <1>2 DEF PageUnits
  <2> QED BY <1>1, <1>2, <2>1 DEF TargetAt, Programmed, Keys
<1>3. CASE step = 2
  <2>1. PageUnits(step) = {"fuel"} BY <1>3 DEF PageUnits
  <2> QED BY <1>1, <1>3, <2>1 DEF TargetAt, Programmed, Keys
<1>4. CASE step = 3
  <2>1. PageUnits(step) = {"ign", "angles", "snap"} BY <1>4 DEF PageUnits
  <2> QED BY <1>1, <1>4, <2>1 DEF TargetAt, Programmed, Keys
<1> QED BY <1>2, <1>3, <1>4

(* An interrupted page program leaves an invalid slot or the whole image.  *)
LEMMA HalfProgrammedSlot ==
    ASSUME NEW o \in Ops, NEW s \in Slots, NEW step \in 1 .. 3,
           TargetAt(s, Image(o), step),
           NEW D \in SUBSET PageUnits(step), NEW T
    PROVE  /\ HalfProgrammed(s, Image(o), D, T) \in Slots
           /\ SlotValid(HalfProgrammed(s, Image(o), D, T))
                => /\ HalfProgrammed(s, Image(o), D, T).hdr = Image(o).hdr
                   /\ HalfProgrammed(s, Image(o), D, T).page = o.page
<1> DEFINE t == HalfProgrammed(s, Image(o), D, T)
<1>0. Programmed(s, Image(o), D) \in Slots BY ImageType DEF Programmed, Slots
<1>1. t \in Slots BY <1>0 DEF HalfProgrammed, Slots
<1>2. ASSUME SlotValid(t) PROVE t.hdr = Image(o).hdr /\ t.page = o.page
  <2>1. t.hdr \in Headers /\ t.hdr.crc \in [Keys -> Values]
    BY <1>2 DEF SlotValid, Headers
  <2>2. t.hdr \in {Torn, Image(o).hdr, s.hdr} BY DEF HalfProgrammed, Programmed
  <2>3. s.hdr \in {Erased, Image(o).hdr} BY DEF TargetAt
  <2>4. t.hdr = Image(o).hdr BY <2>1, <2>2, <2>3, HeadersAssumption
  <2>5. t.page = t.hdr.crc
    <3>1. t.page \in [Keys -> Values \cup {Erased, Torn}] BY <1>1 DEF Slots
    <3>2. \A k \in Keys : t.page[k] = t.hdr.crc[k] BY <1>2 DEF SlotValid
    <3> QED BY <2>1, <3>1, <3>2
  <2>6. Image(o).hdr.crc = o.page
    <3>1. Image(o).hdr = [seq |-> o.seq, crc |-> o.page] BY ImageType
    <3> QED BY <3>1
  <2> HIDE DEF t
  <2> QED BY <2>4, <2>5, <2>6
<1> QED BY <1>1, <1>2

-----------------------------------------------------------------------------
(* The invariant.                                                          *)

LEMMA InitIInv == Init => IInv
<1> SUFFICES ASSUME Init PROVE IInv OBVIOUS
<1>1. BlankSlot \in Slots /\ BlankSlot.hdr = Erased BY DEF BlankSlot, Slots
<1>2. slots \in [0 .. 1 -> Slots] /\ slots[0] = BlankSlot /\ slots[1] = BlankSlot
  BY <1>1 DEF Init
<1>3. ~SlotValid(BlankSlot) /\ classify_slot(BlankSlot) = "Blank"
  BY <1>1, HeadersAssumption DEF SlotValid, classify_slot
<1>4. ~SawCorrupt(slots) BY <1>2, <1>3 DEF SawCorrupt
<1>5. Idle BY <1>1, <1>2, <1>3, <1>4 DEF Idle, NoSequenceTie
<1> QED BY <1>2, <1>5 DEF Init, IInv, TypeOK

(* Accepting an operation: the target is the slot boot would not select.   *)
LEMMA RewriteInFlight ==
    ASSUME IInv, op = None, SeqLeft, slots' = slots,
           NEW pages \in [Keys -> Values], NEW snap \in Snapshots \cup {Erased, Torn},
           Rewrite(pages, snap)
    PROVE  op' \in Ops /\ InFlight'
<1> DEFINE cur == scan(slots)
<1>1. slots \in [0 .. 1 -> Slots] /\ Idle BY DEF IInv, TypeOK
<1>2. op' = [target |-> write_target(cur), seq |-> next_seq(slots, cur),
             page |-> pages, snap |-> snap, step |-> 0]
  BY DEF Rewrite
<1>3. CASE cur = NoSlot
  <2>1. ~SlotValid(slots[0]) /\ ~SlotValid(slots[1]) BY <1>1, <1>3, ScanResult
  <2>2. slots[1].hdr = Erased BY <1>1, <1>3 DEF Idle
  <2>3. op'.target = 0 /\ op'.seq = 1 /\ op'.step = 0
    BY <1>2, <1>3 DEF write_target, next_seq
  <2>4. op' \in Ops BY <1>2, <1>3, SeqAssumption DEF Ops, write_target, next_seq, Seqs
  <2>5. Other(op'.target) = 1 BY <2>3 DEF Other
  <2> QED BY <2>1, <2>2, <2>3, <2>4, <2>5 DEF InFlight, KeptSlot
<1>4. CASE cur # NoSlot
  <2>1. /\ cur \in 0 .. 1
        /\ SlotValid(slots[cur])
        /\ SlotValid(slots[Other(cur)]) => slots[Other(cur)].hdr.seq <= slots[cur].hdr.seq
    BY <1>1, <1>4, ScanResult
  <2> HIDE DEF cur
  <2>2. slots[cur].hdr.seq \in Seqs /\ slots[cur].hdr.seq + 1 < SeqMod
    BY <1>4, <2>1 DEF SlotValid, Headers, SeqLeft, cur
  <2>3. next_seq(slots, cur) = slots[cur].hdr.seq + 1 /\ next_seq(slots, cur) \in Seqs
    BY <1>4, <2>2, SeqAssumption DEF next_seq, Seqs
  <2>4. op'.target = Other(cur) /\ op'.seq = slots[cur].hdr.seq + 1 /\ op'.step = 0
    BY <1>2, <1>4, <2>3 DEF write_target, Other
  <2>5. op' \in Ops BY <1>2, <1>4, <2>1, <2>3 DEF Ops, write_target
  <2>6. Other(op'.target) = cur BY <2>1, <2>4 DEF Other
  <2>7. SlotValid(slots[Other(cur)]) => slots[Other(cur)].hdr.seq < slots[cur].hdr.seq
    <3>1. SlotValid(slots[Other(cur)]) => slots[Other(cur)].hdr.seq # slots[cur].hdr.seq
      BY <1>1, <2>1 DEF Idle, NoSequenceTie, Other
    <3>2. SlotValid(slots[Other(cur)]) => slots[Other(cur)].hdr.seq \in Int
      BY DEF SlotValid, Headers, Seqs
    <3> QED BY <2>1, <2>2, <3>1, <3>2 DEF Seqs
  <2> QED BY <2>1, <2>4, <2>5, <2>6, <2>7 DEF InFlight, KeptSlot
<1> QED BY <1>3, <1>4

(* Ending a rewrite, by returning or by losing power: ss is the flash that *)
(* remains.  Its target slot is invalid, is still what it was before the   *)
(* erase, or is the whole new image.                                       *)
LEMMA EndsIdle ==
    ASSUME IInv, op # None, NEW t \in Slots,
           slots' = WithSlot(op.target, t),
           SlotValid(t) => \/ t.hdr = Image(op).hdr
                           \/ op.step = 0 /\ SlotValid(slots[op.target])
                                /\ t.hdr = slots[op.target].hdr,
           classify_slot(t) = "Corrupt" => lost'
    PROVE  slots' \in [0 .. 1 -> Slots] /\ Idle'
<1> DEFINE i == op.target
           o == Other(op.target)
<1>1. op \in Ops /\ slots \in [0 .. 1 -> Slots] /\ InFlight BY DEF IInv, TypeOK
<1>2. i \in 0 .. 1 /\ o \in 0 .. 1 /\ i # o /\ {i, o} = 0 .. 1 BY <1>1 DEF Ops, Other
<1>3. slots' \in [0 .. 1 -> Slots] /\ slots'[i] = t /\ slots'[o] = slots[o]
  BY <1>1, <1>2 DEF WithSlot
<1>4. KeptSlot(slots[o], op.seq) BY <1>1 DEF InFlight
<1>5. Image(op).hdr.seq = op.seq
  <2>1. Image(op).hdr = [seq |-> op.seq, crc |-> op.page] BY <1>1, ImageType
  <2> QED BY <2>1
<1>6. SlotValid(slots[o]) => slots[o].hdr.seq \in Int /\ op.seq = slots[o].hdr.seq + 1
  BY <1>4, HeadersAssumption DEF KeptSlot, SlotValid, Headers, Seqs
<1>7. SlotValid(t) /\ SlotValid(slots[o]) => t.hdr.seq # slots[o].hdr.seq
  <2>1. CASE t.hdr = Image(op).hdr BY <1>5, <1>6, <2>1
  <2>2. CASE op.step = 0 /\ SlotValid(slots[i]) /\ t.hdr = slots[i].hdr
    BY <1>1, <1>6, <2>2 DEF InFlight, SlotValid, Headers, Seqs
  <2> QED BY <2>1, <2>2
<1>8. NoSequenceTie'
  <2>1. CASE i = 0 BY <1>2, <1>3, <1>7, <2>1 DEF NoSequenceTie, Other
  <2>2. CASE i = 1 BY <1>2, <1>3, <1>7, <2>2 DEF NoSequenceTie, Other
  <2> QED BY <1>2, <2>1, <2>2
<1>9. scan(slots') = NoSlot => slots'[1].hdr = Erased
  <2>1. SUFFICES ASSUME scan(slots') = NoSlot PROVE slots'[1].hdr = Erased OBVIOUS
  <2>2. ~SlotValid(slots'[0]) /\ ~SlotValid(slots'[1]) BY <1>3, <2>1, ScanResult
  <2>3. ~SlotValid(slots[o]) BY <1>2, <1>3, <2>2
  <2>4. slots[o].hdr = Erased BY <1>4, <2>3 DEF KeptSlot
  <2>5. o = 1 BY <1>1, <2>3 DEF InFlight, Other
  <2> QED BY <1>3, <2>4, <2>5
<1>10. SawCorrupt(slots') => lost'
  <2>1. classify_slot(slots[o]) # "Corrupt"
    BY <1>4 DEF KeptSlot, classify_slot
  <2> QED BY <1>2, <1>3, <2>1 DEF SawCorrupt
<1> QED BY <1>3, <1>8, <1>9, <1>10 DEF Idle, scan, SawCorrupt, classify_slot, SlotValid

(* What an operation loads before it rewrites.                             *)
LEMMA LoadTypes ==
    ASSUME TypeOK
    PROVE  /\ LoadPages(slots, scan(slots)) \in [Keys -> Values]
           /\ LoadSnapshot(slots, scan(slots)) \in Snapshots \cup {Erased, Torn}
<1> DEFINE cur == scan(slots)
<1>1. LoadPages(slots, cur) \in [Keys -> Values]
  <2>1. CASE cur = NoSlot BY <2>1, ValuesAssumption DEF LoadPages
  <2>2. CASE cur # NoSlot
    <3>1. cur \in 0 .. 1 /\ SlotValid(slots[cur]) BY <2>2, ScanResult DEF TypeOK
    <3>2. slots[cur].page \in [Keys -> Values \cup {Erased, Torn}]
      BY <3>1 DEF TypeOK, Slots
    <3>3. \A j \in Keys : slots[cur].page[j] \in Values BY <3>1 DEF SlotValid, Headers
    <3> QED BY <2>2, <3>2, <3>3 DEF LoadPages
  <2> QED BY <2>1, <2>2
<1>2. cur # NoSlot => cur \in 0 .. 1 BY ScanResult DEF TypeOK
<1>3. LoadSnapshot(slots, cur) \in Snapshots \cup {Erased, Torn}
  BY <1>2 DEF LoadSnapshot, TypeOK, Slots
<1> QED BY <1>1, <1>3

(* Every step of the store preserves the invariant.                        *)
LEMMA NextIInv == IInv /\ [Next]_vars => IInv'
<1> SUFFICES ASSUME IInv, [Next]_vars PROVE IInv' OBVIOUS
<1>t. TypeOK BY DEF IInv
<1>1. ASSUME NEW k \in Keys, NEW v \in Values, Write(k, v) PROVE IInv'
  <2> DEFINE pages == [LoadPages(slots, scan(slots)) EXCEPT ![k] = v]
             snap == LoadSnapshot(slots, scan(slots))
  <2>1. pages \in [Keys -> Values] /\ snap \in Snapshots \cup {Erased, Torn}
    BY <1>t, LoadTypes
  <2>2. op = None /\ SeqLeft /\ slots' = slots /\ Rewrite(pages, snap) BY <1>1 DEF Write
  <2> HIDE DEF pages, snap
  <2>3. op' \in Ops /\ InFlight' BY <2>1, <2>2, RewriteInFlight
  <2> QED BY <1>1, <1>t, <2>3, NoneNotOp DEF Write, IInv, TypeOK
<1>2. ASSUME NEW s \in Snapshots, SaveSnapshot(s) PROVE IInv'
  <2> DEFINE pages == LoadPages(slots, scan(slots))
  <2>1. pages \in [Keys -> Values] BY <1>t, LoadTypes
  <2>2. op = None /\ SeqLeft /\ slots' = slots /\ Rewrite(pages, s)
    BY <1>2 DEF SaveSnapshot
  <2> HIDE DEF pages
  <2>3. op' \in Ops /\ InFlight' BY <2>1, <2>2, RewriteInFlight
  <2> QED BY <1>2, <1>t, <2>3, NoneNotOp DEF SaveSnapshot, IInv, TypeOK
<1>3. ASSUME NEW known \in BOOLEAN, Refuse(known) PROVE IInv'
  BY <1>3 DEF Refuse, IInv, TypeOK, Idle, NoSequenceTie, SawCorrupt, scan, SlotValid, classify_slot
<1>4. CASE FlashErase
  <2>1. op # None /\ op \in Ops /\ InFlight /\ op.step = 0
    BY <1>4 DEF FlashErase, IInv, TypeOK
  <2>2. op' \in Ops /\ op'.target = op.target /\ op'.seq = op.seq /\ op'.step = 1
        /\ Image(op') = Image(op)
    BY <1>4, <2>1 DEF FlashErase, AtStep, Ops, Image
  <2>3. BlankSlot \in Slots BY DEF BlankSlot, Slots
  <2>4. op.target \in 0 .. 1 /\ Other(op.target) \in 0 .. 1 /\ Other(op.target) # op.target
    BY <2>1 DEF Ops, Other
  <2>5. /\ slots' \in [0 .. 1 -> Slots]
        /\ slots'[op.target] = BlankSlot
        /\ slots'[Other(op.target)] = slots[Other(op.target)]
    BY <1>4, <1>t, <2>3, <2>4 DEF FlashErase, WithSlot, TypeOK
  <2>6. TargetAt(BlankSlot, Image(op), 1) BY DEF TargetAt, BlankSlot, Keys
  <2>7. InFlight' BY <2>1, <2>2, <2>5, <2>6 DEF InFlight
  <2> QED BY <1>4, <1>t, <2>2, <2>5, <2>7, NoneNotOp DEF FlashErase, IInv, TypeOK
<1>5. CASE FlashProgram
  <2>1. op # None /\ op \in Ops /\ InFlight /\ op.step \in 1 .. 3
    BY <1>5 DEF FlashProgram, IInv, TypeOK
  <2>2. op' \in Ops /\ op'.target = op.target /\ op'.seq = op.seq /\ op'.step = op.step + 1
        /\ Image(op') = Image(op)
    BY <1>5, <2>1 DEF FlashProgram, AtStep, Ops, Image
  <2>3. op.target \in 0 .. 1 /\ Other(op.target) \in 0 .. 1 /\ Other(op.target) # op.target
    BY <2>1 DEF Ops, Other
  <2>4. slots[op.target] \in Slots /\ TargetAt(slots[op.target], Image(op), op.step)
    BY <1>t, <2>1, <2>3 DEF TypeOK, InFlight
  <2> DEFINE t == Programmed(slots[op.target], Image(op), PageUnits(op.step))
  <2>5. t \in Slots /\ TargetAt(t, Image(op), op.step + 1) BY <2>1, <2>4, ProgrammedStep
  <2>6. slots' = WithSlot(op.target, t) BY <1>5 DEF FlashProgram
  <2> HIDE DEF t
  <2>7. /\ slots' \in [0 .. 1 -> Slots]
        /\ slots'[op.target] = t
        /\ slots'[Other(op.target)] = slots[Other(op.target)]
    BY <1>t, <2>3, <2>5, <2>6 DEF WithSlot, TypeOK
  <2>8. InFlight' BY <2>1, <2>2, <2>5, <2>7 DEF InFlight
  <2> QED BY <1>5, <1>t, <2>2, <2>7, <2>8, NoneNotOp DEF FlashProgram, IInv, TypeOK
<1>6. CASE Return \/ (PowerLossIdle /\ op # None)
  <2>1. op # None /\ op \in Ops /\ InFlight /\ op.step = 4 /\ slots' = slots /\ op' = None
    BY <1>6 DEF Return, PowerLossIdle, Boot, IInv, TypeOK
  <2>2. op.target \in 0 .. 1 /\ slots[op.target] \in Slots
    BY <1>t, <2>1 DEF Ops, TypeOK
  <2>3. SlotValid(slots[op.target]) /\ slots[op.target].hdr = Image(op).hdr
    BY <2>1, <2>2, FullTargetValid DEF InFlight
  <2>4. slots' = WithSlot(op.target, slots[op.target])
    BY <1>t, <2>1, <2>2 DEF WithSlot, TypeOK
  <2>5. classify_slot(slots[op.target]) # "Corrupt" BY <2>3 DEF classify_slot
  <2>6. slots' \in [0 .. 1 -> Slots] /\ Idle'
    BY <2>1, <2>2, <2>3, <2>4, <2>5, EndsIdle
  <2>7. ret' \in {"none", "ok", "fail"} /\ running' \in BOOLEAN /\ latched' \in BOOLEAN
        /\ lost' \in BOOLEAN
    <3>1. CASE Return BY <1>t, <3>1 DEF Return, TypeOK
    <3>2. CASE PowerLossIdle
      <4>1. ret' = "none" /\ running' = FALSE /\ latched' \in BOOLEAN
        BY <3>2 DEF PowerLossIdle, Boot, BootLatch
      <4>2. lost' = (lost /\ op = None) BY <3>2 DEF PowerLossIdle
      <4>3. lost' = FALSE BY <2>1, <4>2
      <4> QED BY <4>1, <4>3
    <3> QED BY <1>6, <3>1, <3>2
  <2> QED BY <2>1, <2>6, <2>7 DEF IInv, TypeOK
<1>7. CASE PowerLossIdle /\ op = None
  <2>0. lost' = lost
    <3>1. lost' = (lost /\ op = None) BY <1>7 DEF PowerLossIdle
    <3>2. lost \in BOOLEAN /\ op = None BY <1>7, <1>t DEF TypeOK
    <3> QED BY <3>1, <3>2
  <2>1. slots' = slots /\ op' = None /\ ret' = "none" /\ running' = FALSE
        /\ latched' \in BOOLEAN
    BY <1>7 DEF PowerLossIdle, Boot, BootLatch
  <2> QED BY <1>7, <1>t, <2>0, <2>1
       DEF IInv, TypeOK, Idle, NoSequenceTie, SawCorrupt, scan, SlotValid, classify_slot
<1>8. CASE PowerLossInErase
  <2>1. op # None /\ op \in Ops /\ op.step = 0 /\ lost' = TRUE
    BY <1>8 DEF PowerLossInErase, IInv, TypeOK
  <2>2. PICK K, E : Boot(WithSlot(op.target, HalfErased(slots[op.target], K, E)))
    BY <1>8 DEF PowerLossInErase
  <2> DEFINE t == HalfErased(slots[op.target], K, E)
  <2>3. slots[op.target] \in Slots BY <1>t, <2>1 DEF Ops, TypeOK
  <2>4. t \in Slots /\ (SlotValid(t) => SlotValid(slots[op.target]) /\ t.hdr = slots[op.target].hdr)
    BY <2>3, HalfErasedSlot
  <2>5. slots' = WithSlot(op.target, t) /\ op' = None /\ ret' = "none" /\ running' = FALSE
        /\ latched' \in BOOLEAN
    BY <2>2 DEF Boot, BootLatch
  <2> HIDE DEF t
  <2>6. slots' \in [0 .. 1 -> Slots] /\ Idle' BY <2>1, <2>4, <2>5, EndsIdle
  <2> QED BY <2>1, <2>5, <2>6 DEF IInv, TypeOK
<1>9. CASE PowerLossInProgram
  <2>1. op # None /\ op \in Ops /\ InFlight /\ op.step \in 1 .. 3
        /\ lost' = (scan(slots') # op.target)
    BY <1>9 DEF PowerLossInProgram, IInv, TypeOK
  <2>2. PICK D \in SUBSET PageUnits(op.step), T \in SUBSET PageUnits(op.step) :
          Boot(WithSlot(op.target, HalfProgrammed(slots[op.target], Image(op), D, T)))
    BY <1>9 DEF PowerLossInProgram
  <2> DEFINE t == HalfProgrammed(slots[op.target], Image(op), D, T)
  <2>3. op.target \in 0 .. 1 /\ slots[op.target] \in Slots
        /\ TargetAt(slots[op.target], Image(op), op.step)
    BY <1>t, <2>1 DEF Ops, TypeOK, InFlight
  <2>4. t \in Slots /\ (SlotValid(t) => t.hdr = Image(op).hdr /\ t.page = op.page)
    BY <2>1, <2>3, HalfProgrammedSlot
  <2>5. slots' = WithSlot(op.target, t) /\ op' = None /\ ret' = "none" /\ running' = FALSE
        /\ latched' \in BOOLEAN
    BY <2>2 DEF Boot, BootLatch
  <2> HIDE DEF t
  <2>6. slots' \in [0 .. 1 -> Slots] /\ slots'[op.target] = t
    BY <1>t, <2>3, <2>4, <2>5 DEF WithSlot, TypeOK
  <2>7. classify_slot(t) = "Corrupt" => lost'
    <3>1. SUFFICES ASSUME classify_slot(t) = "Corrupt" PROVE scan(slots') # op.target
      BY <2>1
    <3>2. ~SlotValid(t) BY <3>1, HeadersAssumption DEF classify_slot, SlotValid
    <3>3. op.target # NoSlot BY <2>3, MarkerAssumption
    <3> QED BY <2>6, <3>2, <3>3, ScanResult
  <2>8. slots' \in [0 .. 1 -> Slots] /\ Idle' BY <2>1, <2>4, <2>5, <2>7, EndsIdle
  <2>9. lost' \in BOOLEAN BY <2>1
  <2> QED BY <2>5, <2>8, <2>9 DEF IInv, TypeOK
<1>10. CASE EngineStartsOrStops
  BY <1>10 DEF EngineStartsOrStops, IInv, TypeOK, Idle, NoSequenceTie, SawCorrupt, scan,
     SlotValid, classify_slot
<1>11. CASE UNCHANGED vars
  <2>1. /\ slots' = slots /\ op' = op /\ ret' = ret
        /\ running' = running /\ latched' = latched /\ lost' = lost
    BY <1>11 DEF vars
  <2>2. TypeOK' BY <2>1 DEF IInv, TypeOK
  <2>3. Idle' = Idle BY <2>1 DEF Idle, NoSequenceTie, SawCorrupt, scan
  <2>4. InFlight' = InFlight BY <2>1 DEF InFlight
  <2> QED BY <2>1, <2>2, <2>3, <2>4 DEF IInv
<1> QED BY <1>1, <1>2, <1>3, <1>4, <1>5, <1>6, <1>7, <1>8, <1>9, <1>10, <1>11 DEF Next

(* The invariant holds in every reachable state of the store.              *)
THEOREM SpecIInv == Spec => []IInv
BY InitIInv, NextIInv, PTL DEF Spec

-----------------------------------------------------------------------------
(* Flash never holds anything but erased, torn or written units.           *)
THEOREM SpecTypeOK == Spec => []TypeOK
<1>1. IInv => TypeOK BY DEF IInv
<1> QED BY <1>1, SpecIInv, PTL

(* A boot of FlashKv latches PersistCrcFault only for a write that a power *)
(* loss undid.                                                             *)
THEOREM SpecFaultMeansLostWrite == Spec => []FaultMeansLostWrite
<1>1. IInv => FaultMeansLostWrite
  <2> SUFFICES ASSUME IInv, op = None, BootLatch(slots) PROVE lost
    BY DEF FaultMeansLostWrite
  <2>1. SawCorrupt(slots) BY DEF BootLatch, StoreIntegrity
  <2> QED BY <2>1 DEF IInv, Idle
<1> QED BY <1>1, SpecIInv, PTL

(* The tie rule of ab::scan is never needed.                               *)
THEOREM SpecNoSequenceTie == Spec => []NoSequenceTie
<1>1. IInv => NoSequenceTie
  <2> SUFFICES ASSUME IInv, SlotValid(slots[0]), SlotValid(slots[1])
               PROVE  slots[0].hdr.seq # slots[1].hdr.seq
    BY DEF NoSequenceTie
  <2>1. CASE op = None BY <2>1 DEF IInv, Idle, NoSequenceTie
  <2>2. CASE op # None
    <3> DEFINE i == op.target
               o == Other(op.target)
    <3>1. op \in Ops /\ InFlight /\ slots \in [0 .. 1 -> Slots] BY <2>2 DEF IInv, TypeOK
    <3>2. i \in 0 .. 1 /\ o \in 0 .. 1 /\ i # o BY <3>1 DEF Ops, Other
    <3>3. SlotValid(slots[i]) /\ SlotValid(slots[o]) BY <3>2
    <3>4. slots[o].hdr.seq \in Int /\ slots[i].hdr.seq \in Int
      BY <3>3 DEF SlotValid, Headers, Seqs
    <3>5. op.seq = slots[o].hdr.seq + 1
      BY <3>1, <3>3, HeadersAssumption DEF InFlight, KeptSlot, SlotValid
    <3>6. CASE op.step = 0 BY <3>1, <3>2, <3>3, <3>4, <3>6 DEF InFlight, Other
    <3>7. CASE op.step \in 1 .. 3
      BY <3>1, <3>2, <3>3, <3>7, PartialTargetInvalid DEF InFlight
    <3>8. CASE op.step = 4
      <4>1. slots[i].hdr = Image(op).hdr
        BY <3>1, <3>2, <3>8, FullTargetValid DEF InFlight
      <4>2. Image(op).hdr = [seq |-> op.seq, crc |-> op.page] BY <3>1, ImageType
      <4>3. slots[i].hdr.seq = op.seq BY <4>1, <4>2
      <4> QED BY <3>2, <3>4, <3>5, <4>3
    <3>9. op.step \in 0 .. 4 BY <3>1 DEF Ops
    <3> QED BY <3>6, <3>7, <3>8, <3>9
  <2> QED BY <2>1, <2>2
<1> QED BY <1>1, SpecIInv, PTL

-----------------------------------------------------------------------------
(* The refinement.                                                         *)

(* What a read returns from flash ss.                                      *)
PagesIn(ss) == IF scan(ss) = NoSlot THEN Empty ELSE ss[scan(ss)].page

KeptPages ==
    IF SlotValid(slots[Other(op.target)]) THEN slots[Other(op.target)].page ELSE Empty

LEMMA StoreIsPagesIn == StoreOf = PagesIn(slots)
BY DEF StoreOf, PagesIn

(* Until the target slot carries the whole image a read returns the kept   *)
(* slot.                                                                   *)
LEMMA ReadsKept ==
    ASSUME IInv, op # None, NEW t \in Slots,
           SlotValid(t) => /\ SlotValid(slots[Other(op.target)])
                           /\ t.hdr.seq < slots[Other(op.target)].hdr.seq
    PROVE  PagesIn(WithSlot(op.target, t)) = KeptPages
<1> DEFINE i == op.target
           o == Other(op.target)
           ss == WithSlot(op.target, t)
<1>1. op \in Ops /\ slots \in [0 .. 1 -> Slots] BY DEF IInv, TypeOK
<1>2. i \in 0 .. 1 /\ o \in 0 .. 1 /\ i # o /\ i = Other(o) /\ {i, o} = 0 .. 1
  BY <1>1 DEF Ops, Other
<1>3. ss \in [0 .. 1 -> Slots] /\ ss[i] = t /\ ss[o] = slots[o]
  BY <1>1, <1>2 DEF WithSlot
<1> HIDE DEF ss
<1>4. CASE SlotValid(slots[o])
  <2>1. scan(ss) = o BY <1>2, <1>3, <1>4, ScanSelects
  <2>2. NoSlot # o BY <1>2, MarkerAssumption
  <2> QED BY <1>3, <1>4, <2>1, <2>2 DEF PagesIn, KeptPages, ss
<1>5. CASE ~SlotValid(slots[o])
  <2>1. ~SlotValid(ss[i]) /\ ~SlotValid(ss[o]) BY <1>3, <1>5
  <2>2. ~SlotValid(ss[0]) /\ ~SlotValid(ss[1]) BY <1>2, <2>1
  <2>3. scan(ss) = NoSlot BY <2>2, ScanNone
  <2> QED BY <1>5, <2>3 DEF PagesIn, KeptPages, ss
<1> QED BY <1>4, <1>5

(* Once it does, a read returns the new pages.                             *)
LEMMA ReadsNew ==
    ASSUME IInv, op # None, NEW t \in Slots,
           SlotValid(t), t.hdr = Image(op).hdr, t.page = op.page
    PROVE  PagesIn(WithSlot(op.target, t)) = op.page
<1> DEFINE i == op.target
           o == Other(op.target)
           ss == WithSlot(op.target, t)
<1>1. op \in Ops /\ slots \in [0 .. 1 -> Slots] /\ InFlight BY DEF IInv, TypeOK
<1>2. i \in 0 .. 1 /\ o \in 0 .. 1 /\ i # o BY <1>1 DEF Ops, Other
<1>3. ss \in [0 .. 1 -> Slots] /\ ss[i] = t /\ ss[o] = slots[o]
  BY <1>1, <1>2 DEF WithSlot
<1>4. t.hdr.seq = op.seq
  <2>1. Image(op).hdr = [seq |-> op.seq, crc |-> op.page] BY <1>1, ImageType
  <2> QED BY <2>1
<1>5. SlotValid(slots[o]) => slots[o].hdr.seq \in Int /\ op.seq = slots[o].hdr.seq + 1
  <2> SUFFICES ASSUME SlotValid(slots[o])
               PROVE  slots[o].hdr.seq \in Int /\ op.seq = slots[o].hdr.seq + 1
    OBVIOUS
  <2>1. KeptSlot(slots[o], op.seq) BY <1>1 DEF InFlight
  <2>2. slots[o].hdr \in Headers BY DEF SlotValid
  <2>3. slots[o].hdr # Erased BY <2>2, HeadersAssumption
  <2>4. slots[o].hdr.seq \in Int BY <2>2, SeqAssumption DEF Headers, Seqs
  <2> QED BY <2>1, <2>3, <2>4 DEF KeptSlot
<1>6. SlotValid(slots[o]) => slots[o].hdr.seq < t.hdr.seq BY <1>4, <1>5
<1> HIDE DEF ss
<1>7. scan(ss) = i BY <1>2, <1>3, <1>6, ScanSelects
<1>8. NoSlot # i BY <1>2, MarkerAssumption
<1> QED BY <1>3, <1>7, <1>8 DEF PagesIn, ss

(* The flash a rewrite has reached so far.                                 *)
LEMMA ReadsInFlight ==
    ASSUME IInv, op # None
    PROVE  /\ op.step < 4 => StoreOf = KeptPages
           /\ op.step = 4 => StoreOf = op.page
<1> DEFINE t == slots[op.target]
<1>1. op \in Ops /\ slots \in [0 .. 1 -> Slots] /\ InFlight BY DEF IInv, TypeOK
<1>2. t \in Slots /\ op.step \in 0 .. 4 BY <1>1 DEF Ops
<1>3. slots = WithSlot(op.target, t) BY <1>1 DEF WithSlot
<1> HIDE DEF t
<1>4. StoreOf = PagesIn(WithSlot(op.target, t)) BY <1>3, StoreIsPagesIn
<1>5. CASE op.step = 0
  <2>1. SlotValid(t) => /\ SlotValid(slots[Other(op.target)])
                        /\ t.hdr.seq < slots[Other(op.target)].hdr.seq
    BY <1>1, <1>5 DEF InFlight, t
  <2> QED BY <1>2, <1>4, <1>5, <2>1, ReadsKept
<1>6. CASE op.step \in 1 .. 3
  <2>1. ~SlotValid(t) BY <1>1, <1>2, <1>6, PartialTargetInvalid DEF InFlight, t
  <2> QED BY <1>2, <1>4, <1>6, <2>1, ReadsKept
<1>7. CASE op.step = 4
  <2>1. SlotValid(t) /\ t.hdr = Image(op).hdr /\ t.page = op.page
    BY <1>1, <1>2, <1>7, FullTargetValid DEF InFlight, t
  <2> QED BY <1>2, <1>4, <1>7, <2>1, ReadsNew
<1> QED BY <1>2, <1>5, <1>6, <1>7

(* An operation builds on what a read returns.                             *)
LEMMA LoadIsBase ==
    ASSUME IInv
    PROVE  /\ LoadPages(slots, scan(slots)) = Register!Base(StoreOf)
           /\ LoadPages(slots, scan(slots)) \in [Keys -> Values]
<1>1. slots \in [0 .. 1 -> Slots] BY DEF IInv, TypeOK
<1>2. CASE scan(slots) = NoSlot
  BY <1>2, ValuesAssumption DEF LoadPages, StoreOf, Register!Base
<1>3. CASE scan(slots) # NoSlot
  <2> DEFINE s == slots[scan(slots)]
  <2>1. s \in Slots /\ SlotValid(s) BY <1>1, <1>3, ScanResult
  <2>2. LoadPages(slots, scan(slots)) = s.page /\ StoreOf = s.page
    BY <1>3 DEF LoadPages, StoreOf
  <2> HIDE DEF s
  <2>3. s.page \in [Keys -> Values] BY <2>1 DEF SlotValid, Headers, Slots
  <2>4. s.page # Empty BY <2>3, MarkerAssumption
  <2> QED BY <2>2, <2>3, <2>4 DEF Register!Base
<1> QED BY <1>2, <1>3

(* An accepted operation does not touch what a read returns.              *)
LEMMA AcceptRefines ==
    ASSUME IInv, op = None, SeqLeft, slots' = slots, ret' = "none",
           NEW pages \in [Keys -> Values], NEW snap \in Snapshots \cup {Erased, Torn},
           Rewrite(pages, snap)
    PROVE  PendingOf = None /\ PendingOf' = pages /\ StoreOf' = StoreOf
<1>1. op' \in Ops BY RewriteInFlight
<1>2. op'.page = pages BY DEF Rewrite
<1> QED BY <1>1, <1>2, NoneNotOp DEF PendingOf, StoreOf

LEMMA NextRefines == IInv /\ IInv' /\ [Next]_vars => [Register!Next]_(Register!vars)
<1> SUFFICES ASSUME IInv, IInv', [Next]_vars PROVE [Register!Next]_(Register!vars)
  OBVIOUS
<1>t. TypeOK /\ TypeOK' BY DEF IInv
<1>p. op # None => op \in Ops /\ op.page \in [Keys -> Values] /\ PendingOf = op.page
                   /\ PendingOf # None
  BY <1>t, MarkerAssumption DEF PendingOf, TypeOK, Ops
<1> DEFINE loaded == LoadPages(slots, scan(slots))
           snap == LoadSnapshot(slots, scan(slots))
<1>l. /\ loaded = Register!Base(StoreOf)
      /\ loaded \in [Keys -> Values]
      /\ snap \in Snapshots \cup {Erased, Torn}
  BY <1>t, LoadIsBase, LoadTypes
<1>1. ASSUME NEW k \in Keys, NEW v \in Values, Write(k, v) PROVE Register!Put(k, v)
  <2> DEFINE pages == [loaded EXCEPT ![k] = v]
  <2>1. op = None /\ SeqLeft /\ slots' = slots /\ ret' = "none" /\ Rewrite(pages, snap)
    BY <1>1 DEF Write
  <2>2. pages \in [Keys -> Values] BY <1>l
  <2>3. pages = [Register!Base(StoreOf) EXCEPT ![k] = v] BY <1>l
  <2> HIDE DEF pages, snap, loaded
  <2>4. PendingOf = None /\ PendingOf' = pages /\ StoreOf' = StoreOf
    BY <1>l, <2>1, <2>2, AcceptRefines
  <2> QED BY <2>1, <2>3, <2>4 DEF Register!Put
<1>2. ASSUME NEW s \in Snapshots, SaveSnapshot(s)
      PROVE  \E k \in Keys, v \in Values : Register!Put(k, v)
  <2>1. op = None /\ SeqLeft /\ slots' = slots /\ ret' = "none" /\ Rewrite(loaded, s)
    BY <1>2 DEF SaveSnapshot
  <2> HIDE DEF loaded
  <2>2. PendingOf = None /\ PendingOf' = loaded /\ StoreOf' = StoreOf
    BY <1>l, <2>1, AcceptRefines
  <2>3. "fuel" \in Keys /\ loaded["fuel"] \in Values BY <1>l DEF Keys
  <2>4. loaded = [Register!Base(StoreOf) EXCEPT !["fuel"] = loaded["fuel"]] BY <1>l, <2>3
  <2>5. Register!Put("fuel", loaded["fuel"]) BY <2>1, <2>2, <2>4 DEF Register!Put
  <2> QED BY <2>3, <2>5
<1>3. ASSUME NEW known \in BOOLEAN, Refuse(known) PROVE Register!Refuse
  <2>1. op = None /\ op' = None /\ slots' = slots /\ ret' = "fail" BY <1>3 DEF Refuse
  <2> QED BY <2>1 DEF Register!Refuse, PendingOf, StoreOf
<1> HIDE DEF loaded, snap
<1>4. ASSUME FlashErase PROVE UNCHANGED Register!vars
  <2>1. /\ op # None /\ op.step = 0 /\ op' = AtStep(1) /\ ret' = ret
        /\ slots' = WithSlot(op.target, BlankSlot)
    BY <1>4 DEF FlashErase
  <2>2. BlankSlot \in Slots /\ ~SlotValid(BlankSlot)
    BY HeadersAssumption DEF BlankSlot, Slots, SlotValid
  <2>3. StoreOf' = PagesIn(slots') BY DEF StoreOf, PagesIn
  <2>4. StoreOf' = KeptPages BY <2>1, <2>2, <2>3, ReadsKept
  <2>5. StoreOf = KeptPages BY <2>1, ReadsInFlight
  <2>6. op' \in Ops /\ op'.page = op.page BY <1>p, <2>1 DEF AtStep, Ops
  <2>7. PendingOf' = PendingOf BY <1>p, <2>1, <2>6, NoneNotOp DEF PendingOf
  <2> QED BY <2>1, <2>4, <2>5, <2>7 DEF Register!vars
<1>5. ASSUME FlashProgram PROVE Register!Commit \/ UNCHANGED Register!vars
  <2> DEFINE t == Programmed(slots[op.target], Image(op), PageUnits(op.step))
  <2>1. /\ op # None /\ op.step \in 1 .. 3 /\ op' = AtStep(op.step + 1) /\ ret' = ret
        /\ slots' = WithSlot(op.target, t)
    BY <1>5 DEF FlashProgram
  <2>2. op \in Ops /\ slots[op.target] \in Slots /\ TargetAt(slots[op.target], Image(op), op.step)
    <3>1. op \in Ops /\ op.target \in 0 .. 1 BY <1>t, <2>1 DEF TypeOK, Ops
    <3>2. InFlight BY <2>1 DEF IInv
    <3>3. op.step > 0 BY <2>1
    <3>4. slots[op.target] \in Slots BY <1>t, <3>1 DEF TypeOK
    <3> QED BY <3>1, <3>2, <3>3, <3>4 DEF InFlight
  <2>3. t \in Slots /\ TargetAt(t, Image(op), op.step + 1) BY <2>1, <2>2, ProgrammedStep
  <2> HIDE DEF t
  <2>4. StoreOf' = PagesIn(slots') BY DEF StoreOf, PagesIn
  <2>5. StoreOf = KeptPages BY <2>1, ReadsInFlight
  <2>6. op' \in Ops /\ op'.page = op.page BY <1>p, <2>1 DEF AtStep, Ops
  <2>7. PendingOf' = PendingOf BY <1>p, <2>1, <2>6, NoneNotOp DEF PendingOf
  <2>8. CASE op.step \in 1 .. 2
    <3>1. op.step + 1 \in 1 .. 3 BY <2>8
    <3>2. ~SlotValid(t) BY <2>2, <2>3, <3>1, PartialTargetInvalid
    <3>3. StoreOf' = KeptPages BY <2>1, <2>3, <2>4, <3>2, ReadsKept
    <3> QED BY <2>1, <2>5, <2>7, <3>3 DEF Register!vars
  <2>9. CASE op.step = 3
    <3>1. TargetAt(t, Image(op), 4) BY <2>3, <2>9
    <3>2. SlotValid(t) /\ t.hdr = Image(op).hdr /\ t.page = op.page
      BY <2>2, <2>3, <3>1, FullTargetValid
    <3>3. StoreOf' = op.page BY <2>1, <2>3, <2>4, <3>2, ReadsNew
    <3> QED BY <1>p, <2>1, <2>7, <3>3 DEF Register!Commit
  <2> QED BY <2>1, <2>8, <2>9
<1>6. ASSUME Return PROVE Register!Return
  <2>1. op # None /\ op.step = 4 /\ op' = None /\ ret' = "ok" /\ slots' = slots
    BY <1>6 DEF Return
  <2>2. StoreOf = op.page BY <2>1, ReadsInFlight
  <2> QED BY <1>p, <2>1, <2>2 DEF Register!Return, PendingOf, StoreOf
<1>7. ASSUME PowerLossIdle PROVE Register!PowerLoss
  <2>1. op' = None /\ ret' = "none" /\ slots' = slots BY <1>7 DEF PowerLossIdle, Boot
  <2> QED BY <2>1 DEF Register!PowerLoss, PendingOf, StoreOf
<1>8. ASSUME PowerLossInErase PROVE Register!PowerLoss
  <2>1. op # None /\ op.step = 0 BY <1>8 DEF PowerLossInErase
  <2>2. PICK K \in SUBSET Units, E \in SUBSET {"hdr", "snap"} :
            Boot(WithSlot(op.target, HalfErased(slots[op.target], K, E)))
    BY <1>8 DEF PowerLossInErase
  <2> DEFINE s == slots[op.target]
             t == HalfErased(slots[op.target], K, E)
  <2>3. op' = None /\ ret' = "none" /\ slots' = WithSlot(op.target, t) BY <2>2 DEF Boot
  <2>4. s \in Slots /\ InFlight BY <1>p, <1>t, <2>1 DEF IInv, TypeOK, Ops
  <2>5. t \in Slots /\ (SlotValid(t) => SlotValid(s) /\ t.hdr = s.hdr)
    BY <2>4, HalfErasedSlot
  <2> HIDE DEF t
  <2>6. SlotValid(t) => /\ SlotValid(slots[Other(op.target)])
                        /\ t.hdr.seq < slots[Other(op.target)].hdr.seq
    BY <2>1, <2>4, <2>5 DEF InFlight
  <2>7. PagesIn(slots') = KeptPages BY <2>1, <2>3, <2>5, <2>6, ReadsKept
  <2>8. StoreOf' = StoreOf BY <2>1, <2>7, ReadsInFlight DEF StoreOf, PagesIn
  <2> QED BY <2>3, <2>8 DEF Register!PowerLoss, PendingOf
<1>9. ASSUME PowerLossInProgram PROVE Register!PowerLoss
  <2>1. op # None /\ op.step \in 1 .. 3 BY <1>9 DEF PowerLossInProgram
  <2>2. PICK D \in SUBSET PageUnits(op.step), T \in SUBSET PageUnits(op.step) :
            Boot(WithSlot(op.target,
                          HalfProgrammed(slots[op.target], Image(op), D, T)))
    BY <1>9 DEF PowerLossInProgram
  <2> DEFINE t == HalfProgrammed(slots[op.target], Image(op), D, T)
  <2>3. op' = None /\ ret' = "none" /\ slots' = WithSlot(op.target, t) BY <2>2 DEF Boot
  <2>4. op \in Ops /\ slots[op.target] \in Slots /\ TargetAt(slots[op.target], Image(op), op.step)
    <3>1. op \in Ops /\ op.target \in 0 .. 1 BY <1>t, <2>1 DEF TypeOK, Ops
    <3>2. InFlight BY <2>1 DEF IInv
    <3>3. op.step > 0 BY <2>1
    <3>4. slots[op.target] \in Slots BY <1>t, <3>1 DEF TypeOK
    <3> QED BY <3>1, <3>2, <3>3, <3>4 DEF InFlight
  <2>5. t \in Slots /\ (SlotValid(t) => t.hdr = Image(op).hdr /\ t.page = op.page)
    <3>1. D \in SUBSET PageUnits(op.step) BY <2>2
    <3>2. op.step \in 1 .. 3 BY <2>1
    <3> QED BY <2>4, <3>1, <3>2, HalfProgrammedSlot
  <2> HIDE DEF t
  <2>6. StoreOf' = PagesIn(slots') BY DEF StoreOf, PagesIn
  <2>7. CASE SlotValid(t)
    <3>1. StoreOf' = op.page BY <2>1, <2>3, <2>5, <2>6, <2>7, ReadsNew
    <3> QED BY <1>p, <2>1, <2>3, <3>1 DEF Register!PowerLoss, PendingOf
  <2>8. CASE ~SlotValid(t)
    <3>1. StoreOf' = KeptPages BY <2>1, <2>3, <2>5, <2>6, <2>8, ReadsKept
    <3>2. StoreOf = KeptPages BY <2>1, ReadsInFlight
    <3> QED BY <2>3, <3>1, <3>2 DEF Register!PowerLoss, PendingOf
  <2> QED BY <2>7, <2>8
<1>10. CASE EngineStartsOrStops
  BY <1>10 DEF EngineStartsOrStops, Register!vars, PendingOf, StoreOf
<1>11. CASE UNCHANGED vars BY <1>11 DEF vars, Register!vars, PendingOf, StoreOf
<1> QED
  BY <1>1, <1>2, <1>3, <1>4, <1>5, <1>6, <1>7, <1>8, <1>9, <1>10, <1>11
     DEF Next, Register!Next

(* The tune pages of FlashKv are an atomic register, whatever the values,  *)
(* the sequence width and the instant of a power loss.                     *)
THEOREM SpecTunePagesAreAtomic == Spec => TunePagesAreAtomic
<1>1. Init => Register!Init
  <2> SUFFICES ASSUME Init PROVE Register!Init OBVIOUS
  <2>1. ~SlotValid(BlankSlot) BY HeadersAssumption DEF BlankSlot, SlotValid
  <2>2. slots[0] = BlankSlot /\ slots[1] = BlankSlot BY DEF Init
  <2>3. scan(slots) = NoSlot BY <2>1, <2>2, ScanNone
  <2> QED BY <2>3 DEF Init, Register!Init, StoreOf, PendingOf
<1>2. Spec => []IInv BY SpecIInv
<1> QED BY <1>1, <1>2, NextRefines, PTL DEF Spec, TunePagesAreAtomic, Register!Spec

(* Boot's conclusions are sound for every set of values and any power      *)
(* losses.                                                                 *)
THEOREM SpecBootIsSound == Spec => []BootIsSound
BY SpecTypeOK, SpecFaultMeansLostWrite, SpecNoSequenceTie, PTL DEF BootIsSound
=============================================================================
