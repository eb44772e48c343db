---------------------------- MODULE SectorStore -----------------------------
(***************************************************************************)
(* The STM32F4 flash store: FlashKv over two 128 KiB sectors.              *)
(*   boards/stm32f4/src/store_support.rs                                   *)
(*   boards/common/src/transport_service.rs (the rewrite helpers)          *)
(*                                                                         *)
(* A sector holds a header (magic, sequence number, one CRC per tune       *)
(* page), the tune pages, and the side records: the retained OBD-II        *)
(* history, the identity record, the command audit, the key record and     *)
(* the key audit.  Every operation rewrites the whole of the stale sector: *)
(* erase, header with an open mark, pages, records, and last of all the    *)
(* mark that commits the sector.  Any of these steps can end in an error   *)
(* of the flash controller or in a power loss.                             *)
(*                                                                         *)
(* Abstractions.  Pages and records are elements of SValues and            *)
(* SRecordValues, and a CRC is the value it covers.  What an interrupted   *)
(* erase or program leaves is external: the old contents, the new ones, or *)
(* neither; nothing but the header is told apart in a sector whose header  *)
(* did not survive.  A torn header is taken to fail its magic or its mark  *)
(* (no CRC covers it).                                                     *)
(***************************************************************************)
EXTENDS Integers

CONSTANTS
    SPages,      \* keys of the tune pages ("fuel", "ign", "angles")
    SRecords,    \* names of the side records
    SPairs,      \* <<record, record>> that one operation writes together
    SValues,     \* contents of a page
    SRecordValues, \* contents of a record
    SZero,       \* the all-zero page that load_current_pages starts from
    NoRecord,    \* a record area left erased
    SeqSpan,     \* sequence numbers are taken modulo this (2^16)
    SErased, STorn, SNone, SEmpty

SFields == SPages \cup SRecords

Sides == {"A", "B"}

ASSUME SectorValues ==
    /\ SZero \in SValues
    /\ {NoRecord, SErased, STorn} \cap (SValues \cup SRecordValues) = {}
    /\ SeqSpan \in Nat /\ SeqSpan % 2 = 0 /\ SeqSpan > 2

VARIABLES
    sectors,     \* [Sides -> sector]
    rewrite,     \* the rewrite in progress, or SNone
    result,      \* result of the last operation: "none", "ok" or "fail"
    fault,       \* LAST_FLASH_WRITE_FAULT_PHASE
    undone       \* history: an interruption undid a rewrite and none succeeded since

svars == <<sectors, rewrite, result, fault, undone>>

BlankSector == [hdr |-> SErased, unit |-> [f \in SFields |-> SErased]]

-----------------------------------------------------------------------------
(* Reading a sector.                                                       *)

read_header(s) == s.hdr \notin {SErased, STorn} /\ s.hdr.mark = "committed"

Behind(a, b) == (b - a) % SeqSpan < SeqSpan \div 2

newest_sector(ss) ==
    LET a == read_header(ss["A"])
        b == read_header(ss["B"])
    IN  IF a /\ b
        THEN IF Behind(ss["A"].hdr.seq, ss["B"].hdr.seq) THEN "B" ELSE "A"
        ELSE IF a THEN "A" ELSE IF b THEN "B" ELSE SNone

target_sector_for_next_write(ss) == IF newest_sector(ss) = "A" THEN "B" ELSE "A"

new_seq(ss) ==
    LET cur == newest_sector(ss)
    IN  IF cur = SNone THEN 1 ELSE (ss[cur].hdr.seq + 1) % SeqSpan

validate_page_image(s, k) == read_header(s) /\ s.unit[k] = s.hdr.crc[k]

(* A page as load_current_pages takes it: the bytes of the newest sector,  *)
(* whatever the read that fetched them returned.                           *)
load_current_pages(ss) ==
    LET cur == newest_sector(ss)
    IN  [k \in SPages |-> IF cur = SNone THEN SZero ELSE ss[cur].unit[k]]

(* A record decodes only if its magic, version and CRC are right.          *)
LoadRecord(ss, r) ==
    LET cur == newest_sector(ss)
    IN  IF cur # SNone /\ ss[cur].unit[r] \in SRecordValues THEN ss[cur].unit[r]
        ELSE NoRecord

classify_sector(s) ==
    IF s.hdr = SErased THEN "Blank"
    ELSE IF \A k \in SPages : validate_page_image(s, k) THEN "Valid"
    ELSE "Corrupt"

store_integrity_from_sectors(a, b) ==
    IF "Valid" \in {a, b}
    THEN IF "Corrupt" \in {a, b} THEN "ValidWithCorruptSibling" ELSE "Valid"
    ELSE IF "Corrupt" \in {a, b} THEN "Corrupt" ELSE "Blank"

boot_store_integrity(ss) ==
    store_integrity_from_sectors(classify_sector(ss["A"]), classify_sector(ss["B"]))

-----------------------------------------------------------------------------
(* An operation: stage the pages and the records, with its own update.     *)

Staged(ss, upd) ==
    [f \in SFields |->
        IF f \in DOMAIN upd THEN upd[f]
        ELSE IF f \in SPages THEN load_current_pages(ss)[f] ELSE LoadRecord(ss, f)]

(* KvStore::write, save_retained_obd2_history_snapshot and the write_obd2  *)
(* operations differ in the fields that they update.                       *)
Start(upd) ==
    /\ rewrite = SNone
    /\ rewrite' = [target |-> target_sector_for_next_write(sectors),
                   seq |-> new_seq(sectors), image |-> Staged(sectors, upd),
                   upd |-> upd, step |-> "preflight"]
    /\ result' = "none"
    /\ UNCHANGED <<sectors, fault, undone>>

(* An unknown page key, a wrong length, or identity lengths out of range.  *)
RefuseOperation ==
    /\ rewrite = SNone
    /\ result' = "fail"
    /\ UNCHANGED <<sectors, rewrite, fault, undone>>

-----------------------------------------------------------------------------
(* The steps of rewrite_sector, and what each leaves if it is cut short.   *)

After(step) ==
    CASE step = "preflight" -> "erase"
      [] step = "erase" -> "header"
      [] step = "header" -> "pages"
      [] step = "pages" -> "records"
      [] step = "records" -> "mark"
      [] step = "mark" -> "verify"

FlashWritePhase(step) ==
    IF step = "preflight" THEN "Preflight"
    ELSE IF step = "erase" THEN "Erase" ELSE "Program"

Bytes(v) == IF v = NoRecord THEN SErased ELSE v

\* Mutant of encode_rewrite_header: the header goes out already committed.
HeaderCommitted(w) ==
    [seq |-> w.seq, crc |-> [k \in SPages |-> w.image[k]], mark |-> "committed"]

encode_rewrite_header(w) ==
    [seq |-> w.seq, crc |-> [k \in SPages |-> w.image[k]], mark |-> "open"]

WithUnits(s, w, F) ==
    [s EXCEPT !.unit = [f \in SFields |-> IF f \in F THEN Bytes(w.image[f]) ELSE s.unit[f]]]

Complete(s, w) ==
    CASE w.step = "preflight" -> s
      [] w.step = "erase" -> BlankSector
      [] w.step = "header" -> [s EXCEPT !.hdr = encode_rewrite_header(w)]
      [] w.step = "pages" -> WithUnits(s, w, SPages)
      [] w.step = "records" -> WithUnits(s, w, SRecords)
      [] w.step = "mark" -> [s EXCEPT !.hdr.mark = "committed"]
      [] w.step = "verify" -> s

Ruined(s, F) == [s EXCEPT !.unit = [f \in SFields |-> IF f \in F THEN STorn ELSE s.unit[f]]]

CutShort(s, w) ==
    CASE w.step = "erase" ->
            {s, Ruined(s, SPages), Ruined(s, SRecords), Ruined(s, SFields)}
               \cup {[Ruined(s, SFields) EXCEPT !.hdr = h] : h \in {SErased, STorn}}
      [] w.step \in {"header", "mark"} -> {s, [s EXCEPT !.hdr = STorn]}
      [] OTHER -> {s}

\* Mutant of FlashStep: the fault of an earlier rewrite is not cleared.
FlashStepKeepsFault ==
    /\ rewrite # SNone
    /\ rewrite.step # "verify"
    /\ sectors' = [sectors EXCEPT ![rewrite.target] = Complete(@, rewrite)]
    /\ rewrite' = [rewrite EXCEPT !.step = After(@)]
    /\ UNCHANGED <<result, fault, undone>>

FlashStep ==
    /\ rewrite # SNone
    /\ rewrite.step # "verify"
    /\ sectors' = [sectors EXCEPT ![rewrite.target] = Complete(@, rewrite)]
    /\ rewrite' = [rewrite EXCEPT !.step = After(@)]
    /\ fault' = IF rewrite.step = "preflight" THEN "None" ELSE fault
    /\ UNCHANGED <<result, undone>>

(* wait_for_flash_ready finds an error flag: the phase is recorded and the *)
(* operation ends, whatever the step did to the flash.                     *)
FlashError ==
    /\ rewrite # SNone
    /\ rewrite.step # "verify"
    /\ \E s \in CutShort(sectors[rewrite.target], rewrite)
                  \cup {Complete(sectors[rewrite.target], rewrite)} :
           sectors' = [sectors EXCEPT ![rewrite.target] = s]
    /\ rewrite' = SNone
    /\ result' = "fail"
    /\ fault' = FlashWritePhase(rewrite.step)
    /\ undone' = (undone \/ rewrite.step # "preflight")

(* The operation reads back the records it wrote; only the page and the    *)
(* history operations do not.                                              *)
ReadbackAgrees ==
    \A r \in DOMAIN rewrite.upd \cap (SRecords \ {"history"}) : LoadRecord(sectors, r) = rewrite.upd[r]

ReturnFromRewrite ==
    /\ rewrite # SNone
    /\ rewrite.step = "verify"
    /\ result' = IF ReadbackAgrees THEN "ok" ELSE "fail"
    /\ rewrite' = SNone
    /\ undone' = FALSE
    /\ UNCHANGED <<sectors, fault>>

SectorPowerLoss ==
    /\ IF rewrite = SNone THEN UNCHANGED <<sectors, undone>>
       ELSE /\ \E s \in CutShort(sectors[rewrite.target], rewrite) :
                   sectors' = [sectors EXCEPT ![rewrite.target] = s]
            /\ undone' = CASE rewrite.step = "preflight" -> undone
                           [] rewrite.step = "verify" -> FALSE
                           [] OTHER -> TRUE
    /\ rewrite' = SNone
    /\ result' = "none"
    /\ fault' = "None"

-----------------------------------------------------------------------------
Updates ==
    {[f \in {k} |-> v] : k \in SPages, v \in SValues}
        \cup {[f \in {r} |-> v] : r \in SRecords, v \in SRecordValues}
        \cup {[f \in {p[1], p[2]} |-> v] : p \in SPairs, v \in SRecordValues}

SectorInit ==
    /\ sectors = [x \in Sides |-> BlankSector]
    /\ rewrite = SNone
    /\ result = "none"
    /\ fault = "None"
    /\ undone = FALSE

SectorNext ==
    \/ \E upd \in Updates : Start(upd)
    \/ RefuseOperation
    \/ FlashStep
    \/ FlashError
    \/ ReturnFromRewrite
    \/ SectorPowerLoss

-----------------------------------------------------------------------------
SectorHeaders ==
    [seq : 0 .. SeqSpan - 1, crc : [SPages -> SValues], mark : {"open", "committed"}]

(* Every unit of flash holds something that was written to it, or is       *)
(* erased or torn, and no rewrite ever stages a torn page.                 *)
SectorTypeOK ==
    /\ \A x \in Sides :
          /\ sectors[x].hdr \in SectorHeaders \cup {SErased, STorn}
          /\ \A f \in SFields : sectors[x].unit[f] \in SValues \cup SRecordValues \cup {SErased, STorn}
    /\ rewrite # SNone =>
          /\ rewrite.target \in Sides
          /\ \A k \in SPages : rewrite.image[k] \in SValues
          /\ \A r \in SRecords : rewrite.image[r] \in SRecordValues \cup {NoRecord}
    /\ result \in {"none", "ok", "fail"}
    /\ fault \in {"None", "Preflight", "Erase", "Program"}

StoreContents ==
    LET cur == newest_sector(sectors)
    IN  IF cur = SNone THEN SEmpty
        ELSE [f \in SFields |->
                IF f \in SRecords THEN LoadRecord(sectors, f)
                ELSE IF validate_page_image(sectors[cur], f)
                     THEN sectors[cur].unit[f] ELSE STorn]

PendingContents == IF rewrite = SNone THEN SNone ELSE rewrite.image

Contract ==
    INSTANCE KvRegister WITH
        Fields <- SFields, Pairs <- SPairs, Values <- SValues \cup SRecordValues,
        Default <- [f \in SFields |-> IF f \in SPages THEN SZero ELSE NoRecord],
        Empty <- SEmpty, None <- SNone,
        store <- StoreContents, pending <- PendingContents, ret <- result

(* Tune pages and side records together behave as one atomic register: an  *)
(* operation changes the fields it names and no other, all at one instant  *)
(* or not at all, whatever flash errors and power losses hit it, and says  *)
(* Ok only after that instant (rewrite_sector, persist_retained_history_   *)
(* rewrite and the write_obd2 operations).                                 *)
SectorsAreAtomic ==
    Contract!Init /\ [][UNCHANGED svars \/ Contract!Next]_(Contract!vars)

(* Two committed sectors always carry adjacent sequence numbers, so the    *)
(* half-range comparison of newest_sector never sees a pair it could order *)
(* the wrong way, and the wrap of the 16-bit number does no harm.          *)
CommittedSectorsAreAdjacent ==
    read_header(sectors["A"]) /\ read_header(sectors["B"]) =>
        (sectors["B"].hdr.seq - sectors["A"].hdr.seq) % SeqSpan \in {1, SeqSpan - 1}

(* The store integrity that boot reports is no false alarm: a sector is    *)
(* called corrupt only if a rewrite was interrupted and none has succeeded *)
(* since (boot_store_integrity).                                           *)
CorruptMeansInterrupted ==
    rewrite = SNone
        /\ boot_store_integrity(sectors) \in {"Corrupt", "ValidWithCorruptSibling"}
    => undone

(* The fault phase shown over OBD-II is that of the last rewrite: an       *)
(* operation that returned Ok leaves none, and one that failed in flash    *)
(* leaves a store with an interrupted rewrite behind it unless it failed   *)
(* before the erase (clear_last_flash_write_fault, record_flash_write_     *)
(* fault).                                                                 *)
FaultIsTheLastRewrites ==
    /\ result = "ok" => fault = "None"
    /\ rewrite = SNone /\ fault \in {"Erase", "Program"} => undone

(* What the sectors and the recorded fault say of the store is true: they  *)
(* hold what was written, the newest can be told, corruption is reported   *)
(* only after an interrupted rewrite, and the fault is the last rewrite's. *)
SectorStateIsHonest ==
    /\ SectorTypeOK
    /\ CommittedSectorsAreAdjacent
    /\ CorruptMeansInterrupted
    /\ FaultIsTheLastRewrites
=============================================================================
