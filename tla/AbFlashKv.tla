----------------------------- MODULE AbFlashKv ------------------------------
(***************************************************************************)
(* The RP2040 flash store: FlashKv over two flash sectors, with the slot   *)
(* format and the boot scan of the A/B engine.                             *)
(*   boards/rp2040-pico/src/flash_kv.rs, boards/common/src/kv/ab.rs,       *)
(*   boards/common/src/transport_service.rs (the rewrite helpers)          *)
(*                                                                         *)
(* A slot holds a header (sequence number, one CRC per page), the three    *)
(* tune pages, and the retained OBD-II history, which no CRC covers.  A    *)
(* rewrite erases the stale slot and programs it in 256-byte flash pages   *)
(* from the first to the last.  Power may fail at any instant: inside the  *)
(* erase, inside a page program, or between two of them.                   *)
(*                                                                         *)
(* Abstractions.  A page value is an element of Values and its CRC is the  *)
(* value itself (no collisions).  The five flash pages in use are grouped  *)
(* by what they complete: the first completes the header, the third the    *)
(* fuel page, the fifth the ignition and angle pages and the history.      *)
(* Interrupted flash operations are external: a unit under an interrupted  *)
(* erase keeps its contents, is erased, or reads as neither; a unit under  *)
(* an interrupted program is still erased, complete, or neither.  A header *)
(* whose magic is gone counts as erased, and a torn header is taken to     *)
(* fail validation (no CRC covers its sequence number).                    *)
(***************************************************************************)
EXTENDS Integers

CONSTANTS
    Values,      \* contents of a tune page
    Zero,        \* the all-zero page of SlotContents::zeroed
    Snapshots,   \* retained OBD-II histories
    SeqMod,      \* sequence numbers are taken modulo this (2^32)
    Erased,      \* a unit of erased flash
    Torn,        \* a unit that is neither erased nor what was written to it
    NoSlot, None, Empty

Keys == {"fuel", "ign", "angles"}
Units == Keys \cup {"hdr", "snap"}

ASSUME ValuesAssumption == Zero \in Values
ASSUME UnitsAssumption ==
    /\ Erased \notin Values \cup Snapshots
    /\ Torn \notin Values \cup Snapshots
    /\ Erased # Torn
ASSUME SeqAssumption == SeqMod \in Nat /\ SeqMod > 2
ASSUME MarkerAssumption ==
    /\ NoSlot \notin {0, 1}
    /\ Empty \notin [Keys -> Values]
    /\ None \notin [Keys -> Values]

Seqs == 0 .. SeqMod - 1
Headers == [seq : Seqs, crc : [Keys -> Values]]

ASSUME HeadersAssumption == Erased \notin Headers /\ Torn \notin Headers

VARIABLES
    slots,       \* [0..1 -> slot]: the two flash sectors
    op,          \* the rewrite in progress, or None
    ret,         \* result of the last call: "none", "ok" or "fail"
    running,     \* the engine-running predicate of the guard
    latched,     \* PersistCrcFault latched at the last boot
    lost         \* history: a power loss undid a write and none has succeeded since

vars == <<slots, op, ret, running, latched, lost>>

BlankSlot ==
    [hdr |-> Erased, page |-> [k \in Keys |-> Erased], snap |-> Erased]

-----------------------------------------------------------------------------
(* Boot scan.                                                              *)

SlotValid(s) ==
    /\ s.hdr \in Headers
    /\ \A k \in Keys : s.page[k] = s.hdr.crc[k]

\* Mutant of classify_slot: an erased slot counts as corrupt.
ClassifyWithoutBlank(s) == IF SlotValid(s) THEN "Valid" ELSE "Corrupt"

classify_slot(s) ==
    IF s.hdr = Erased THEN "Blank" ELSE IF SlotValid(s) THEN "Valid" ELSE "Corrupt"

(* The slot boot selects: the valid one with the highest sequence number,  *)
(* the later one when they are equal.                                      *)
scan(ss) ==
    IF SlotValid(ss[1]) /\ (SlotValid(ss[0]) => ss[1].hdr.seq >= ss[0].hdr.seq)
    THEN 1
    ELSE IF SlotValid(ss[0]) THEN 0 ELSE NoSlot

SawCorrupt(ss) == \E i \in 0 .. 1 : classify_slot(ss[i]) = "Corrupt"

StoreIntegrity(ss) ==
    IF scan(ss) # NoSlot
    THEN IF SawCorrupt(ss) THEN "ValidWithCorruptSibling" ELSE "Valid"
    ELSE IF SawCorrupt(ss) THEN "Corrupt" ELSE "Blank"

\* Mutant of write_target: the current slot is rewritten in place.
WriteTargetInPlace(cur) == IF cur = NoSlot THEN 0 ELSE cur

write_target(cur) == IF cur = NoSlot THEN 0 ELSE 1 - cur

next_seq(ss, cur) == IF cur = NoSlot THEN 1 ELSE (ss[cur].hdr.seq + 1) % SeqMod

LoadPages(ss, cur) ==
    IF cur = NoSlot THEN [k \in Keys |-> Zero] ELSE ss[cur].page

(* The sidecar carries a magic, a version and a length but no CRC: erased  *)
(* flash decodes as no history, anything else as what it holds.            *)
LoadSnapshot(ss, cur) == IF cur = NoSlot THEN Erased ELSE ss[cur].snap

-----------------------------------------------------------------------------
(* A rewrite stages the whole sector in RAM, then erases and programs.     *)

Rewrite(pages, snap) ==
    LET cur == scan(slots) IN
    op' = [target |-> write_target(cur), seq |-> next_seq(slots, cur),
           page |-> pages, snap |-> snap, step |-> 0]

(* The sector's sequence number is not exhausted: a bound of the model far *)
(* beyond the erase endurance of the flash when SeqMod is 2^32.            *)
SeqLeft ==
    LET cur == scan(slots) IN cur # NoSlot => slots[cur].hdr.seq + 1 < SeqMod

Write(key, data) ==
    /\ op = None
    /\ ~running
    /\ SeqLeft
    /\ key \in Keys
    /\ Rewrite([LoadPages(slots, scan(slots)) EXCEPT ![key] = data],
               LoadSnapshot(slots, scan(slots)))
    /\ ret' = "none"
    /\ UNCHANGED <<slots, running, latched, lost>>

SaveSnapshot(snapshot) ==
    /\ op = None
    /\ ~running
    /\ SeqLeft
    /\ Rewrite(LoadPages(slots, scan(slots)), snapshot)
    /\ ret' = "none"
    /\ UNCHANGED <<slots, running, latched, lost>>

(* The engine is running, or the key is unknown or its length is wrong.    *)
Refuse(known) ==
    /\ op = None
    /\ running \/ ~known
    /\ ret' = "fail"
    /\ UNCHANGED <<slots, op, running, latched, lost>>

(* The units that one programmed flash page completes.                     *)
PageUnits(step) ==
    CASE step = 1 -> {"hdr"}
      [] step = 2 -> {"fuel"}
      [] step = 3 -> {"ign", "angles", "snap"}

Image(o) ==
    [hdr |-> [seq |-> o.seq, crc |-> o.page], page |-> o.page, snap |-> o.snap]

(* Slot s with the units in U taken from the staged sector image.          *)
Programmed(s, img, U) ==
    [hdr  |-> IF "hdr" \in U THEN img.hdr ELSE s.hdr,
     page |-> [k \in Keys |-> IF k \in U THEN img.page[k] ELSE s.page[k]],
     snap |-> IF "snap" \in U THEN img.snap ELSE s.snap]

WithSlot(i, s) == [j \in 0 .. 1 |-> IF j = i THEN s ELSE slots[j]]

AtStep(n) ==
    [target |-> op.target, seq |-> op.seq, page |-> op.page, snap |-> op.snap,
     step |-> n]

FlashErase ==
    /\ op # None
    /\ op.step = 0
    /\ slots' = WithSlot(op.target, BlankSlot)
    /\ op' = AtStep(1)
    /\ UNCHANGED <<ret, running, latched, lost>>

FlashProgram ==
    /\ op # None
    /\ op.step \in 1 .. 3
    /\ slots' = WithSlot(op.target,
                         Programmed(slots[op.target], Image(op), PageUnits(op.step)))
    /\ op' = AtStep(op.step + 1)
    /\ UNCHANGED <<ret, running, latched, lost>>

Return ==
    /\ op # None
    /\ op.step = 4
    /\ op' = None
    /\ ret' = "ok"
    /\ lost' = FALSE
    /\ UNCHANGED <<slots, running, latched>>

-----------------------------------------------------------------------------
(* Power loss and boot.                                                    *)

(* Slot s after an erase that was cut short: units in K kept their         *)
(* contents, a header or sidecar in E is erased, the others read as        *)
(* neither (an erased tune page fails its CRC just as a torn one does).    *)
HalfErased(s, K, E) ==
    [hdr  |-> IF "hdr" \in K THEN s.hdr ELSE IF "hdr" \in E THEN Erased ELSE Torn,
     page |-> [k \in Keys |-> IF k \in K THEN s.page[k] ELSE Torn],
     snap |-> IF "snap" \in K THEN s.snap ELSE IF "snap" \in E THEN Erased ELSE Torn]

(* Slot s after a page program that was cut short: of the units of that    *)
(* page those in D are complete, those in T torn, the others untouched.    *)
HalfProgrammed(s, img, D, T) ==
    LET mid == Programmed(s, img, D)
    IN  [hdr  |-> IF "hdr" \in T THEN Torn ELSE mid.hdr,
         page |-> [k \in Keys |-> IF k \in T THEN Torn ELSE mid.page[k]],
         snap |-> IF "snap" \in T THEN Torn ELSE mid.snap]

(* Boot latches the diagnostic when a slot carries the format but fails.   *)
BootLatch(ss) == StoreIntegrity(ss) \in {"Corrupt", "ValidWithCorruptSibling"}

Boot(ss) ==
    /\ slots' = ss
    /\ op' = None
    /\ ret' = "none"
    /\ running' = FALSE
    /\ latched' = BootLatch(ss)

PowerLossIdle ==
    /\ op # None => op.step = 4
    /\ Boot(slots)
    /\ lost' = (lost /\ op = None)

PowerLossInErase ==
    /\ op # None
    /\ op.step = 0
    /\ \E K \in SUBSET Units : \E E \in SUBSET ({"hdr", "snap"} \ K) :
           Boot(WithSlot(op.target, HalfErased(slots[op.target], K, E)))
    /\ lost' = TRUE

PowerLossInProgram ==
    /\ op # None
    /\ op.step \in 1 .. 3
    /\ \E D \in SUBSET PageUnits(op.step) :
           \E T \in SUBSET (PageUnits(op.step) \ D) :
               Boot(WithSlot(op.target,
                             HalfProgrammed(slots[op.target], Image(op), D, T)))
    /\ lost' = (scan(slots') # op.target)

EngineStartsOrStops ==
    /\ op = None
    /\ running' = ~running
    /\ UNCHANGED <<slots, op, ret, latched, lost>>

-----------------------------------------------------------------------------
Init ==
    /\ slots = [i \in 0 .. 1 |-> BlankSlot]
    /\ op = None
    /\ ret = "none"
    /\ running = FALSE
    /\ latched = FALSE
    /\ lost = FALSE

Next ==
    \/ \E k \in Keys, v \in Values : Write(k, v)
    \/ \E s \in Snapshots : SaveSnapshot(s)
    \/ \E known \in BOOLEAN : Refuse(known)
    \/ FlashErase
    \/ FlashProgram
    \/ Return
    \/ PowerLossIdle
    \/ PowerLossInErase
    \/ PowerLossInProgram
    \/ EngineStartsOrStops

Spec == Init /\ [][Next]_vars

-----------------------------------------------------------------------------
Slots ==
    [hdr : Headers \cup {Erased, Torn},
     page : [Keys -> Values \cup {Erased, Torn}],
     snap : Snapshots \cup {Erased, Torn}]

Ops ==
    [target : 0 .. 1, seq : Seqs, page : [Keys -> Values],
     snap : Snapshots \cup {Erased, Torn}, step : 0 .. 4]

ASSUME NoneNotOp == None \notin Ops

(* Every unit of flash is erased, torn, or holds something that was        *)
(* written to it, and the staged sector is always made of real pages:      *)
(* FlashKv never serialises a torn page into a new slot.                   *)
TypeOK ==
    /\ slots \in [0 .. 1 -> Slots]
    /\ op \in Ops \cup {None}
    /\ ret \in {"none", "ok", "fail"}
    /\ running \in BOOLEAN
    /\ latched \in BOOLEAN
    /\ lost \in BOOLEAN

StoreOf == LET cur == scan(slots) IN IF cur = NoSlot THEN Empty ELSE slots[cur].page

PendingOf == IF op = None THEN None ELSE op.page

Register ==
    INSTANCE KvRegister WITH
        Fields <- Keys, Pairs <- {}, Default <- [k \in Keys |-> Zero],
        store <- StoreOf, pending <- PendingOf

(* The tune pages behave as the atomic register: each rewrite takes effect *)
(* at one instant or not at all, keeps the pages it does not name, returns *)
(* Ok only after it took effect, and no power loss uncovers anything else  *)
(* (persist_retained_history_rewrite, rewrite_retained_history_sector,     *)
(* ab::scan).                                                              *)
TunePagesAreAtomic == Register!Spec

(* The diagnostic latched at boot is never a false alarm: a boot latches   *)
(* it only if a power loss undid a write and no later write succeeded      *)
(* (StoreIntegrityStatus, the boot code of ts_ecu.rs).                     *)
FaultMeansLostWrite == op = None /\ BootLatch(slots) => lost

(* Two slots that both validate never carry the same sequence number, so   *)
(* the boot choice never rests on the tie rule of ab::scan.                *)
NoSequenceTie ==
    SlotValid(slots[0]) /\ SlotValid(slots[1])
        => slots[0].hdr.seq # slots[1].hdr.seq

(* A boot always finds the retained history that was last saved, or the    *)
(* one being saved: flash_kv.rs says a power loss mid-write corrupts only  *)
(* the stale slot.  The history shares the last flash page with the angle  *)
(* page and has no CRC, so a slot can validate without it.                 *)
HistorySurvives ==
    [][ LoadSnapshot(slots, scan(slots)) \in Snapshots
          => LoadSnapshot(slots', scan(slots')) \in Snapshots ]_vars

(* What boot concludes from the flash is sound: it finds only units that   *)
(* were erased, torn or written, one slot is the newer, and the diagnostic *)
(* it latches is no false alarm.                                           *)
BootIsSound == TypeOK /\ FaultMeansLostWrite /\ NoSequenceTie
=============================================================================
