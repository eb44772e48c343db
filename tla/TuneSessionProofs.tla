-------------------------- MODULE TuneSessionProofs -------------------------
(***************************************************************************)
(* Proofs about TuneSession, for every set of page bodies and profile      *)
(* identities and every scenario: the runtime's tune, the two copies of    *)
(* the expert trigger, the certified profile, and what a burn, whole or    *)
(* interrupted, leaves for the next boot.                                  *)
(***************************************************************************)
EXTENDS TuneSession, TLAPS

RamType ==
    [pages : [BodyPages -> Values], trigger : TriggerType, written : SUBSET BodyPages,
     active : TriggerType, staged : TriggerType, dirty : BOOLEAN, class : Classes,
     strategy : [TunePages -> Values]]

KvType ==
    /\ kv \in [Keys -> Values \cup TriggerType \cup Packages \cup {Absent}]
    /\ \A k \in Keys : kv[k] = Absent \/ kv[k] \in RecordType(k)

\* The state every step works on: a typed RAM and typed records.
StateOK ==
    /\ ram \in RamType /\ KvType
    /\ burning \in 0..5
    /\ apart \in BOOLEAN /\ torn \in BOOLEAN
    /\ env \in Scenarios

\* A burn writes the setup pages first and the package last.
LEMMA BurnOrderFacts ==
    /\ Len(BurnOrder) = 5
    /\ \A i \in 1..5 : BurnOrder[i] \in Keys
    /\ BurnOrder[1] = "fuel" /\ BurnOrder[2] = "ign" /\ BurnOrder[3] = "angles"
    /\ BurnOrder[4] = "expert_trigger" /\ BurnOrder[5] = "cal_package"
BY DEF BurnOrder, Keys, SetupPages

\* A boot from typed records leaves a typed RAM.
LEMMA BootRamType ==
    ASSUME NEW rec \in [Keys -> Values \cup TriggerType \cup Packages \cup {Absent}],
           \A k \in Keys : rec[k] = Absent \/ rec[k] \in RecordType(k)
    PROVE  BootRam(rec) \in RamType
<1>1. LoadedPages(rec) \in [BodyPages -> Values]
  BY TuneValuesAssumption DEF LoadedPages, RecordType, Keys, SetupPages, BodyPages, TunePages
<1>2. DefaultTrigger \in TriggerType
  BY DEF DefaultTrigger, TriggerType, Authorities
<1>3. LoadedTrigger(rec) \in TriggerType
  BY <1>2 DEF LoadedTrigger, RecordType, Keys, SetupPages
<1>4. ImportedTrigger(rec) \in TriggerType
  BY <1>2, <1>3 DEF ImportedTrigger, RecordType, Keys, SetupPages, Packages
<1>5. TuneOf(LoadedPages(rec)) \in [TunePages -> Values]
  BY <1>1 DEF TuneOf, BodyPages
<1> QED
  BY <1>1, <1>2, <1>3, <1>4, <1>5 DEF BootRam, RamType, Classes

\* An empty store is typed.
LEMMA NoRecordsType ==
    /\ NoRecords \in [Keys -> Values \cup TriggerType \cup Packages \cup {Absent}]
    /\ \A k \in Keys : NoRecords[k] = Absent \/ NoRecords[k] \in RecordType(k)
BY DEF NoRecords

\* What a burn writes under a key has the type of that key.
LEMMA RecordOfType ==
    ASSUME ram \in RamType, NEW k \in Keys
    PROVE  RecordOf(k) \in RecordType(k)
<1>1. CASE k \in SetupPages
  BY <1>1 DEF RecordOf, RecordType, RamType, SetupPages, BodyPages
<1>2. CASE k = "expert_trigger"
  BY <1>2 DEF RecordOf, RecordType, RamType, SetupPages
<1>3. CASE k = "cal_package"
  BY <1>3 DEF RecordOf, RecordType, RamType, SetupPages, Packages
<1> QED
  BY <1>1, <1>2, <1>3 DEF Keys

\* A write keeps the records typed, the zeros of a first flash image too.
LEMMA KvWriteType ==
    ASSUME KvType, NEW k \in Keys, NEW v \in RecordType(k)
    PROVE  /\ KvWrite(k, v) \in [Keys -> Values \cup TriggerType \cup Packages \cup {Absent}]
           /\ \A j \in Keys : KvWrite(k, v)[j] = Absent \/ KvWrite(k, v)[j] \in RecordType(j)
<1> DEFINE image == IF env.backend = "flash" /\ kv["fuel"] = Absent
                    THEN [j \in Keys |-> IF j \in SetupPages THEN Zero ELSE Absent] ELSE kv
<1>1. image \in [Keys -> Values \cup TriggerType \cup Packages \cup {Absent}]
  BY TuneValuesAssumption DEF KvType
<1>2. \A j \in Keys : image[j] = Absent \/ image[j] \in RecordType(j)
  BY TuneValuesAssumption DEF KvType, RecordType
<1>3. v \in Values \cup TriggerType \cup Packages
  BY DEF RecordType
<1>4. KvWrite(k, v) = [image EXCEPT ![k] = v]
  BY DEF KvWrite
<1> HIDE DEF image
<1> QED
  BY <1>1, <1>2, <1>3, <1>4

\* Staging a trigger keeps the RAM typed.
LEMMA StageType ==
    ASSUME NEW r \in RamType, NEW t \in TriggerType
    PROVE  Stage(r, t) \in RamType
BY DEF Stage, RamType, Classes

-----------------------------------------------------------------------------
(* Every step keeps the state typed. *)

\* What a scenario lets a tool send.
LEMMA ImageType ==
    ASSUME env \in Scenarios, NEW im \in env.writes
    PROVE  /\ im.page \in BodyPages => im.body \in Values
           /\ im.page = "expert_trigger" => im.body \in TriggerType
<1>1. im \in BodyImages \/ im \in TriggerImages
  BY TuneScenarioAssumption
<1>2. "expert_trigger" \notin BodyPages
  BY DEF BodyPages, SetupPages, TunePages
<1> QED
  BY <1>1, <1>2 DEF BodyImages, TriggerImages

\* What a scenario's packages carry.
LEMMA PackageType ==
    ASSUME env \in Scenarios, NEW pk \in env.packages
    PROVE  pk.trig \in TriggerType
BY TuneScenarioAssumption DEF Packages

\* The first boot is from an empty store.
LEMMA StateInit == Init => StateOK
<1> SUFFICES ASSUME Init PROVE StateOK
  OBVIOUS
<1>1. ram \in RamType /\ KvType
  BY BootRamType, NoRecordsType DEF Init, KvType
<1>2. burning \in 0..5
  BY DEF Init
<1> QED
  BY <1>1, <1>2 DEF Init, StateOK

\* One step per call, and under it the part of the state it writes.
LEMMA StateStep ==
    ASSUME StateOK, [Next]_vars
    PROVE  StateOK'
<1> USE DEF StateOK
<1>1. CASE PowerLoss
  <2>1. KvType'
    BY <1>1, NoRecordsType DEF PowerLoss, KvType
  <2>2. ram' \in RamType
    BY <1>1, <2>1, BootRamType DEF PowerLoss, KvType
  <2>3. burning' \in 0..5
    BY <1>1 DEF PowerLoss
  <2> QED
    BY <1>1, <2>1, <2>2, <2>3 DEF PowerLoss
<1>2. ASSUME NEW im \in env.writes, WriteRefused(im) \/ WriteTriggerRefused(im)
      PROVE  StateOK'
  BY <1>2 DEF WriteRefused, WriteTriggerRefused, RamCall, KvType
<1>3. ASSUME NEW im \in env.writes, WriteBody(im)
      PROVE  StateOK'
  <2>1. im.page \in BodyPages /\ im.body \in Values
    BY <1>3, ImageType DEF WriteBody
  <2> QED
    BY <1>3, <2>1 DEF WriteBody, RamCall, KvType, RamType
<1>3a. ASSUME NEW im \in env.writes, WriteAfrTorn(im)
       PROVE  StateOK'
  BY <1>3a DEF WriteAfrTorn, RamCall, KvType, RamType
<1>4. ASSUME NEW im \in env.writes, WriteTriggerSplit(im)
      PROVE  StateOK'
  <2>1. im.body \in TriggerType
    BY <1>4, ImageType DEF WriteTriggerSplit
  <2> QED
    BY <1>4, <2>1 DEF WriteTriggerSplit, RamCall, KvType, RamType
<1>5. ASSUME NEW im \in env.writes, WriteTrigger(im)
      PROVE  StateOK'
  <2>1. im.body \in TriggerType
    BY <1>5, ImageType DEF WriteTrigger
  <2>2. [ram EXCEPT !.trigger = im.body] \in RamType
    BY <2>1 DEF RamType
  <2> QED
    BY <1>5, <2>1, <2>2, StageType DEF WriteTrigger, RamCall, KvType
<1>6. ASSUME NEW pk \in env.packages, ImportRefused(pk)
      PROVE  StateOK'
  BY <1>6 DEF ImportRefused, RamCall, KvType
<1>7. ASSUME NEW pk \in env.packages, PackageImport(pk)
      PROVE  StateOK'
  <2>1. pk.trig \in TriggerType
    BY PackageType
  <2>2. [ram EXCEPT !.trigger = pk.trig] \in RamType
    BY <2>1 DEF RamType
  <2> QED
    BY <1>7, <2>1, <2>2, StageType DEF PackageImport, RamCall, KvType
<1>8. CASE BurnRefused \/ Burn \/ BurnFails \/ EngineStartsOrStops
  BY <1>8 DEF BurnRefused, Burn, BurnFails, EngineStartsOrStops, KvType
<1>9. CASE BurnRecord
  <2>1. burning \in 1..5 /\ BurnOrder[burning] \in Keys
    BY <1>9, BurnOrderFacts DEF BurnRecord, Idle
  <2>2. KvType'
    BY <1>9, <2>1, RecordOfType, KvWriteType DEF BurnRecord, KvType
  <2>3. burning' \in 0..5
    BY <1>9, <2>1, BurnOrderFacts DEF BurnRecord
  <2> QED
    BY <1>9, <2>2, <2>3 DEF BurnRecord
<1>10. CASE TakeWrittenPages
  <2>1. TuneOf(ram.pages) \in [TunePages -> Values]
    BY DEF TuneOf, RamType, BodyPages
  <2> QED
    BY <1>10, <2>1 DEF TakeWrittenPages, RamCall, KvType, RamType
<1>11. CASE FactoryReset
  <2>1. DefaultTrigger \in TriggerType
    BY DEF DefaultTrigger, TriggerType, Authorities
  <2> QED
    BY <1>11, <2>1, TuneValuesAssumption DEF FactoryReset, RamCall, KvType, RamType
<1>12. CASE SyncExpertTrigger
  <2>1. ram.trigger \in TriggerType
    BY DEF RamType
  <2> QED
    BY <1>12, <2>1, StageType DEF SyncExpertTrigger, RamCall, KvType
<1>13. CASE ResetStaged
  BY <1>13 DEF ResetStaged, RamCall, KvType, RamType, Classes
<1>14. ASSUME NEW c \in Classes, ApplyWrite(c)
       PROVE  StateOK'
  BY <1>14 DEF ApplyWrite, RamCall, KvType, RamType
<1>15. ASSUME NEW policy \in Policies, NEW safe \in BOOLEAN, Commit(policy, safe)
       PROVE  StateOK'
  BY <1>15 DEF Commit, RamCall, KvType, RamType, Classes
<1>16. CASE UNCHANGED vars
  BY <1>16 DEF vars, KvType
<1> QED
  BY <1>1, <1>2, <1>3, <1>3a, <1>4, <1>5, <1>6, <1>7, <1>8, <1>9, <1>10, <1>11, <1>12, <1>13,
     <1>14, <1>15, <1>16 DEF Next

\* The state is typed for ever.
LEMMA StateAlways == Spec => []StateOK
<1>1. Init => StateOK
  BY StateInit
<1>2. StateOK /\ [Next]_vars => StateOK'
  BY StateStep
<1> QED
  BY <1>1, <1>2, PTL DEF Spec

-----------------------------------------------------------------------------
(* The runtime's tune. *)

\* A step changes a tune page and reports it, or takes the reports and
\* retunes, or leaves pages, reports and strategy alone; a torn AFR table
\* changes that page only and is remembered.
LEMMA RuntimeHasTheTuneStep ==
    ASSUME StateOK, RuntimeHasTheTune, [Next]_vars
    PROVE  RuntimeHasTheTune'
<1> USE DEF RuntimeHasTheTune
<1> DEFINE SameTune(r) == /\ r.strategy = ram.strategy
                          /\ r.written = ram.written
                          /\ \A p \in TunePages : r.pages[p] = ram.pages[p]
<1>1. CASE PowerLoss
  BY <1>1 DEF PowerLoss, BootRam, TuneOf
<1>2. ASSUME NEW im \in env.writes, WriteBody(im)
      PROVE  RuntimeHasTheTune'
  <2>1. /\ ram'.pages = [ram.pages EXCEPT ![im.page] = im.body]
        /\ ram'.written = ram.written \cup {im.page}
        /\ ram'.strategy = ram.strategy /\ torn' = torn
    BY <1>2 DEF WriteBody, StateOK, RamType
  <2>2. CASE im.page \in TunePages
    BY <2>1, <2>2
  <2>3. CASE im.page \notin TunePages
    <3>1. \A p \in TunePages : ram'.pages[p] = ram.pages[p]
      BY <2>1, <2>3 DEF StateOK, RamType, BodyPages
    <3> QED
      BY <2>1, <3>1
  <2> QED
    BY <2>2, <2>3
<1>2a. ASSUME NEW im \in env.writes, WriteAfrTorn(im)
       PROVE  RuntimeHasTheTune'
  <2>1. /\ \A p \in TunePages \ {"afr_table"} : ram'.pages[p] = ram.pages[p]
        /\ ram'.written = ram.written /\ ram'.strategy = ram.strategy /\ torn'
    BY <1>2a DEF WriteAfrTorn, StateOK, RamType
  <2> QED
    BY <2>1
<1>3. CASE TakeWrittenPages
  <2>1. CASE ram.written \cap TunePages # {}
    <3>1. ram'.strategy = TuneOf(ram'.pages)
      BY <1>3, <2>1 DEF TakeWrittenPages, written_pages_require_runtime_fuel_retune, StateOK, RamType
    <3> QED
      BY <3>1 DEF TuneOf
  <2>2. CASE ram.written \cap TunePages = {}
    <3>1. ram'.strategy = ram.strategy /\ ram'.pages = ram.pages /\ torn' = torn
      BY <1>3, <2>2 DEF TakeWrittenPages, written_pages_require_runtime_fuel_retune, StateOK, RamType
    <3> QED
      BY <2>2, <3>1
  <2> QED
    BY <2>1, <2>2
<1>4. ASSUME SameTune(ram'), torn' = torn
      PROVE  RuntimeHasTheTune'
  BY <1>4
<1>5. ASSUME NEW r \in RamType, NEW t
      PROVE  /\ Stage(r, t).strategy = r.strategy /\ Stage(r, t).written = r.written
             /\ Stage(r, t).pages = r.pages
  BY DEF Stage, RamType
<1>6. ASSUME NEW im \in env.writes,
             WriteRefused(im) \/ WriteTriggerRefused(im) \/ WriteTriggerSplit(im)
      PROVE  RuntimeHasTheTune'
  BY <1>4, <1>6 DEF WriteRefused, WriteTriggerRefused, WriteTriggerSplit, StateOK, RamType
<1>7. ASSUME NEW im \in env.writes, WriteTrigger(im)
      PROVE  RuntimeHasTheTune'
  <2>1. [ram EXCEPT !.trigger = im.body] \in RamType
    BY <1>7, ImageType DEF WriteTrigger, StateOK, RamType
  <2> QED
    BY <1>4, <1>5, <1>7, <2>1 DEF WriteTrigger, StateOK, RamType
<1>8. ASSUME NEW pk \in env.packages, ImportRefused(pk)
      PROVE  RuntimeHasTheTune'
  BY <1>4, <1>8 DEF ImportRefused
<1>9. ASSUME NEW pk \in env.packages, PackageImport(pk)
      PROVE  RuntimeHasTheTune'
  <2>1. [ram EXCEPT !.trigger = pk.trig] \in RamType
    BY PackageType DEF StateOK, RamType
  <2> QED
    BY <1>4, <1>5, <1>9, <2>1 DEF PackageImport, StateOK, RamType
<1>10. CASE BurnRefused \/ Burn \/ BurnRecord \/ BurnFails \/ EngineStartsOrStops
  BY <1>4, <1>10 DEF BurnRefused, Burn, BurnRecord, BurnFails, EngineStartsOrStops
<1>11. CASE FactoryReset
  <2>1. \A p \in TunePages : p \in BodyPages /\ p # "angles" /\ p \notin SetupPages
    BY DEF TunePages, BodyPages, SetupPages
  <2> QED
    BY <1>4, <1>11, <2>1 DEF FactoryReset, StateOK, RamType
<1>12. CASE SyncExpertTrigger
  BY <1>4, <1>5, <1>12 DEF SyncExpertTrigger, StateOK
<1>13. CASE ResetStaged
  BY <1>4, <1>13 DEF ResetStaged, StateOK, RamType
<1>14. ASSUME NEW c \in Classes, ApplyWrite(c)
       PROVE  RuntimeHasTheTune'
  BY <1>4, <1>14 DEF ApplyWrite, StateOK, RamType
<1>15. ASSUME NEW policy \in Policies, NEW safe \in BOOLEAN, Commit(policy, safe)
       PROVE  RuntimeHasTheTune'
  BY <1>4, <1>15 DEF Commit, StateOK, RamType
<1>16. CASE UNCHANGED vars
  BY <1>4, <1>16 DEF vars
<1> QED
  BY <1>1, <1>2, <1>2a, <1>3, <1>6, <1>7, <1>8, <1>9, <1>10, <1>11, <1>12, <1>13, <1>14, <1>15, <1>16
  DEF Next

\* The runtime computes fuel with the tune in the pages, or a report is
\* waiting, whatever pages a tool writes; but for the AFR table while a
\* refused one has left some of its cells (take_written_pages and the retune
\* policy of crates/ts/src/persistence.rs).
THEOREM SpecRuntimeHasTheTune == Spec => []RuntimeHasTheTune
<1>1. Init => RuntimeHasTheTune
  BY DEF Init, RuntimeHasTheTune, BootRam, TuneOf
<1>2. StateOK /\ RuntimeHasTheTune /\ [Next]_vars => RuntimeHasTheTune'
  BY RuntimeHasTheTuneStep
<1> QED
  BY <1>1, <1>2, StateAlways, PTL DEF Spec

-----------------------------------------------------------------------------
(* The two copies of the expert trigger. *)

\* A step changes both copies alike, or marks them as set apart.
LEMMA TriggersAgreeStep ==
    ASSUME StateOK, TriggersAgree, [Next]_vars
    PROVE  TriggersAgree'
<1> USE DEF TriggersAgree
<1>1. CASE PowerLoss
  BY <1>1 DEF PowerLoss, BootRam
<1>2. ASSUME NEW im \in env.writes, WriteRefused(im) \/ WriteTriggerRefused(im)
      PROVE  TriggersAgree'
  BY <1>2 DEF WriteRefused, WriteTriggerRefused
<1>3. ASSUME NEW im \in env.writes, WriteBody(im) \/ WriteAfrTorn(im)
      PROVE  TriggersAgree'
  BY <1>3 DEF WriteBody, WriteAfrTorn, StateOK, RamType
<1>4. ASSUME NEW im \in env.writes, WriteTriggerSplit(im)
      PROVE  TriggersAgree'
  BY <1>4 DEF WriteTriggerSplit
<1>5. ASSUME NEW im \in env.writes, WriteTrigger(im)
      PROVE  TriggersAgree'
  BY <1>5 DEF WriteTrigger, Stage, StateOK, RamType
<1>6. ASSUME NEW pk \in env.packages, ImportRefused(pk)
      PROVE  TriggersAgree'
  BY <1>6 DEF ImportRefused
<1>7. ASSUME NEW pk \in env.packages, PackageImport(pk)
      PROVE  TriggersAgree'
  BY <1>7 DEF PackageImport, Stage, StateOK, RamType
<1>8. CASE BurnRefused \/ Burn \/ BurnRecord \/ BurnFails \/ EngineStartsOrStops
  BY <1>8 DEF BurnRefused, Burn, BurnRecord, BurnFails, EngineStartsOrStops
<1>9. CASE TakeWrittenPages
  BY <1>9 DEF TakeWrittenPages, StateOK, RamType
<1>10. CASE FactoryReset
  BY <1>10 DEF FactoryReset, StateOK, RamType
<1>11. CASE SyncExpertTrigger
  BY <1>11 DEF SyncExpertTrigger, Stage, StateOK, RamType
<1>12. CASE ResetStaged
  BY <1>12 DEF ResetStaged, StateOK, RamType
<1>13. ASSUME NEW c \in Classes, ApplyWrite(c)
       PROVE  TriggersAgree'
  BY <1>13 DEF ApplyWrite, StateOK, RamType
<1>14. ASSUME NEW policy \in Policies, NEW safe \in BOOLEAN, Commit(policy, safe)
       PROVE  TriggersAgree'
  BY <1>14 DEF Commit, StateOK, RamType
<1>15. CASE UNCHANGED vars
  BY <1>15 DEF vars
<1> QED
  BY <1>1, <1>2, <1>3, <1>4, <1>5, <1>6, <1>7, <1>8, <1>9, <1>10, <1>11, <1>12, <1>13, <1>14,
     <1>15 DEF Next

\* The store's trigger and the staged one agree until a refused page or a
\* host sets them apart (TsPackageCommandStore::write_page, import, boot).
THEOREM SpecTriggersAgree == Spec => []TriggersAgree
<1>1. Init => TriggersAgree
  BY DEF Init, TriggersAgree, BootRam
<1>2. StateOK /\ TriggersAgree /\ [Next]_vars => TriggersAgree'
  BY TriggersAgreeStep
<1> QED
  BY <1>1, <1>2, StateAlways, PTL DEF Spec

\* A step stages, stores or loads only triggers that were checked, or were
\* valid where they come from.
LEMMA TriggersAreValidStep ==
    ASSUME StateOK, TriggersAreValid, [Next]_vars
    PROVE  TriggersAreValid'
<1> USE DEF TriggersAreValid
<1>d. Valid(DefaultTrigger)
  BY DEF Valid, DefaultTrigger
<1>k. "expert_trigger" \in Keys /\ "cal_package" \in Keys
      /\ "expert_trigger" \notin SetupPages /\ "cal_package" \notin SetupPages
  BY DEF Keys, SetupPages
<1>n. NoRecords["expert_trigger"] = Absent /\ NoRecords["cal_package"] = Absent
  BY <1>k DEF NoRecords
<1>1. CASE PowerLoss
  <2>1. /\ kv'["expert_trigger"] # Absent => Valid(kv'["expert_trigger"])
        /\ kv'["cal_package"] # Absent => Valid(kv'["cal_package"].trig)
    BY <1>1, <1>n DEF PowerLoss
  <2>2. Valid(LoadedTrigger(kv')) /\ Valid(ImportedTrigger(kv'))
    BY <1>d, <2>1 DEF LoadedTrigger, ImportedTrigger
  <2>3. /\ ram'.trigger = ImportedTrigger(kv') /\ ram'.staged = ImportedTrigger(kv')
        /\ ram'.active = DefaultTrigger
    BY <1>1 DEF PowerLoss, BootRam
  <2> QED
    BY <1>d, <2>1, <2>2, <2>3
<1>2. ASSUME NEW im \in env.writes,
             WriteRefused(im) \/ WriteTriggerRefused(im) \/ WriteBody(im) \/ WriteAfrTorn(im)
      PROVE  TriggersAreValid'
  BY <1>2 DEF WriteRefused, WriteTriggerRefused, WriteBody, WriteAfrTorn, RamCall, StateOK, RamType
<1>3. ASSUME NEW im \in env.writes, WriteTriggerSplit(im)
      PROVE  TriggersAreValid'
  BY <1>3 DEF WriteTriggerSplit, ValidTransition, RamCall, StateOK, RamType
<1>4. ASSUME NEW im \in env.writes, WriteTrigger(im)
      PROVE  TriggersAreValid'
  BY <1>4 DEF WriteTrigger, ValidTransition, RamCall, Stage, StateOK, RamType
<1>5. ASSUME NEW pk \in env.packages, ImportRefused(pk)
      PROVE  TriggersAreValid'
  BY <1>5 DEF ImportRefused, RamCall
<1>6. ASSUME NEW pk \in env.packages, PackageImport(pk)
      PROVE  TriggersAreValid'
  <2>1. Valid(pk.trig)
    BY <1>6, TuneScenarioAssumption DEF PackageImport, StateOK
  <2> QED
    BY <1>6, <2>1 DEF PackageImport, RamCall, Stage, StateOK, RamType
<1>7. CASE BurnRefused \/ Burn \/ BurnFails \/ EngineStartsOrStops \/ UNCHANGED vars
  BY <1>7 DEF BurnRefused, Burn, BurnFails, EngineStartsOrStops, vars
<1>8. CASE BurnRecord
  <2> DEFINE key == BurnOrder[burning]
             image == IF env.backend = "flash" /\ kv["fuel"] = Absent
                      THEN [k \in Keys |-> IF k \in SetupPages THEN Zero ELSE Absent]
                      ELSE kv
  <2>1. key \in Keys
    BY <1>8, BurnOrderFacts DEF BurnRecord, Idle, StateOK
  <2>2. kv' = [image EXCEPT ![key] = RecordOf(key)] /\ ram' = ram
    BY <1>8 DEF BurnRecord, KvWrite
  <2>3. /\ DOMAIN image = Keys
        /\ image["expert_trigger"] # Absent => Valid(image["expert_trigger"])
        /\ image["cal_package"] # Absent => Valid(image["cal_package"].trig)
    BY <1>k DEF StateOK, KvType
  <2> HIDE DEF image
  <2>4. key = "expert_trigger" => RecordOf(key) = ram.trigger
    BY <1>k DEF RecordOf
  <2>5. key = "cal_package" => RecordOf(key) = [ours |-> TRUE, sound |-> TRUE, trig |-> ram.staged]
    BY <1>k DEF RecordOf
  <2> HIDE DEF key
  <2>6. kv'["expert_trigger"] = IF key = "expert_trigger" THEN ram.trigger ELSE image["expert_trigger"]
    BY <1>k, <2>1, <2>2, <2>3, <2>4
  <2>7. kv'["cal_package"] = IF key = "cal_package" THEN [ours |-> TRUE, sound |-> TRUE, trig |-> ram.staged]
                             ELSE image["cal_package"]
    BY <1>k, <2>1, <2>2, <2>3, <2>5
  <2> QED
    BY <2>2, <2>3, <2>6, <2>7
<1>9. CASE TakeWrittenPages
  BY <1>9 DEF TakeWrittenPages, RamCall, StateOK, RamType
<1>10. CASE FactoryReset
  BY <1>10, <1>d DEF FactoryReset, RamCall, StateOK, RamType
<1>11. CASE SyncExpertTrigger
  BY <1>11 DEF SyncExpertTrigger, RamCall, Stage, StateOK, RamType
<1>12. CASE ResetStaged
  BY <1>12 DEF ResetStaged, RamCall, StateOK, RamType
<1>13. ASSUME NEW c \in Classes, ApplyWrite(c)
       PROVE  TriggersAreValid'
  BY <1>13 DEF ApplyWrite, RamCall, StateOK, RamType
<1>14. ASSUME NEW policy \in Policies, NEW safe \in BOOLEAN, Commit(policy, safe)
       PROVE  TriggersAreValid'
  BY <1>14 DEF Commit, RamCall, StateOK, RamType
<1> QED
  BY <1>1, <1>2, <1>3, <1>4, <1>5, <1>6, <1>7, <1>8, <1>9, <1>10, <1>11, <1>12, <1>13, <1>14
     DEF Next

\* No invalid trigger is ever staged, stored, burned or loaded.
THEOREM SpecTriggersAreValid == Spec => []TriggersAreValid
<1>1. Init => TriggersAreValid
  <2> SUFFICES ASSUME Init PROVE TriggersAreValid
    OBVIOUS
  <2>1. Valid(DefaultTrigger)
    BY DEF Valid, DefaultTrigger
  <2>2. NoRecords["expert_trigger"] = Absent /\ NoRecords["cal_package"] = Absent
    BY DEF NoRecords, Keys
  <2>3. ImportedTrigger(NoRecords) = DefaultTrigger
    BY <2>2 DEF ImportedTrigger, LoadedTrigger
  <2> QED
    BY <2>1, <2>2, <2>3 DEF Init, BootRam, TriggersAreValid
<1>2. StateOK /\ TriggersAreValid /\ [Next]_vars => TriggersAreValid'
  BY TriggersAreValidStep
<1> QED
  BY <1>1, <1>2, StateAlways, PTL DEF Spec

\* Pages, session and runtime agree for every set of bodies and profiles.
THEOREM SpecCopiesAgree == Spec => []CopiesAgree
BY SpecTriggersAreValid, SpecRuntimeHasTheTune, SpecTriggersAgree, PTL DEF CopiesAgree

-----------------------------------------------------------------------------
(* The certified profile. *)

\* What a page write may do to a certified profile, by the two comparisons
\* of write_expert_trigger and apply_expert_trigger_page.
THEOREM SpecCertifiedProfileGuarded == Spec => CertifiedProfileGuarded
<1> DEFINE Guarded ==
        reply'.cmd = "WritePage" /\ ram'.staged # ram.staged
        => /\ ram'.staged.auth = "CertifiedProfile" => ram'.staged = ram.active
           /\ ram.staged.auth = "CertifiedProfile" /\ ~apart
              /\ ram'.staged.auth # "CertifiedProfile" => ram'.staged.unlocked
<1>1. ASSUME StateOK, TriggersAgree, [Next]_vars
      PROVE  Guarded
  <2> USE <1>1
  <2>1. ASSUME NEW im \in env.writes, WriteTrigger(im)
        PROVE  Guarded
    <3>1. ram'.staged = im.body
      BY <2>1 DEF WriteTrigger, Stage, StateOK, RamType
    <3>2. ValidTransition(im.body, ram.trigger) /\ ValidTransition(im.body, ram.active)
      BY <2>1 DEF WriteTrigger, SessionAccepts
    <3> QED
      BY <3>1, <3>2 DEF ValidTransition, TriggersAgree
  <2>2. ASSUME NEW im \in env.writes,
               WriteRefused(im) \/ WriteAfrTorn(im) \/ WriteBody(im) \/ WriteTriggerRefused(im)
               \/ WriteTriggerSplit(im)
        PROVE  ram'.staged = ram.staged
    BY <2>2 DEF WriteRefused, WriteAfrTorn, WriteBody, WriteTriggerRefused, WriteTriggerSplit,
                StateOK, RamType
  <2>3. CASE BurnRefused \/ Burn \/ BurnRecord \/ BurnFails \/ EngineStartsOrStops
    BY <2>3 DEF BurnRefused, Burn, BurnRecord, BurnFails, EngineStartsOrStops
  <2>4. ASSUME NEW pk \in env.packages, ImportRefused(pk) \/ PackageImport(pk)
        PROVE  reply'.cmd # "WritePage"
    BY <2>4 DEF ImportRefused, PackageImport, RamCall, Answer
  <2>5. ASSUME NEW c \in Classes, ApplyWrite(c)
        PROVE  reply'.cmd # "WritePage"
    BY <2>5 DEF ApplyWrite, RamCall, Answer
  <2>6. ASSUME NEW policy \in Policies, NEW safe \in BOOLEAN, Commit(policy, safe)
        PROVE  reply'.cmd # "WritePage"
    BY <2>6 DEF Commit, RamCall, Answer
  <2>7. CASE PowerLoss \/ TakeWrittenPages \/ FactoryReset \/ SyncExpertTrigger \/ ResetStaged
    <3>1. reply'.cmd # "WritePage"
      BY <2>7 DEF PowerLoss, TakeWrittenPages, FactoryReset, SyncExpertTrigger, ResetStaged,
                  RamCall, Answer
    <3> QED
      BY <3>1
  <2>8. CASE UNCHANGED vars
    BY <2>8 DEF vars
  <2> QED
    BY <2>1, <2>2, <2>3, <2>4, <2>5, <2>6, <2>7, <2>8 DEF Next
<1>2. StateOK /\ TriggersAgree /\ [Next]_vars => [Guarded]_vars
  BY <1>1
<1> QED
  BY <1>2, StateAlways, SpecTriggersAgree, PTL DEF Spec, CertifiedProfileGuarded

-----------------------------------------------------------------------------
(* What a burn leaves. *)

Package(t) == [ours |-> TRUE, sound |-> TRUE, trig |-> t]

\* The record the last burn was to write under a key, and the one behind it.
Saved(k) ==
    IF k \in SetupPages THEN burn.pages[k]
    ELSE IF k = "expert_trigger" THEN burn.trigger ELSE Package(burn.staged)
Behind(k, n) ==
    IF k \in SetupPages /\ env.backend = "flash" /\ n > 0 /\ burn.base["fuel"] = Absent
    THEN Zero ELSE burn.base[k]
Holds(n) == \A k \in Keys : kv[k] = IF Place[k] <= n THEN Saved(k) ELSE Behind(k, n)
Answered(n) ==
    /\ burn.answer = "OK" => n = 5
    /\ burn.answer = "ERR" /\ ~env.faulty => n = 3

BurnRecords ==
    [base : [Keys -> Values \cup TriggerType \cup Packages \cup {Absent}], pages : [SetupPages -> Values],
     trigger : TriggerType, staged : TriggerType, answer : {"none", "OK", "ERR"}]

BurnType ==
    /\ burn \in BurnRecords
    /\ \A k \in {"expert_trigger", "cal_package"} :
          env.backend = "flash" => kv[k] = Absent /\ burn.base[k] = Absent

\* While a burn runs it saves what the RAM holds, and the records before the
\* one it writes next are in the store; afterwards the first n are, for the n
\* its answer tells, or some n when the power failed.
BurnInv ==
    /\ BurnType
    /\ burning # 0 =>
          /\ reply.cmd = "Burn" /\ burn.answer = "none"
          /\ \A n \in 0..4 : n + 1 = burning => Holds(n)
          /\ burn.pages = [p \in SetupPages |-> ram.pages[p]]
          /\ burn.trigger = ram.trigger /\ burn.staged = ram.staged
          /\ env.backend = "flash" => burning < 5
    /\ env.backend # "ram" => \E n \in 0..5 : Holds(n) /\ Answered(n)

\* The places of the keys in the order of a burn.
LEMMA PlaceFacts ==
    /\ \A k \in Keys : Place[k] \in 1..5 /\ BurnOrder[Place[k]] = k
    /\ \A i \in 1..5 : Place[BurnOrder[i]] = i
    /\ \A k \in Keys : k \in SetupPages <=> Place[k] <= 3
    /\ Place["fuel"] = 1 /\ Place["expert_trigger"] = 4 /\ Place["cal_package"] = 5
    /\ "fuel" \in Keys /\ "expert_trigger" \in Keys /\ "cal_package" \in Keys
BY DEF Place, BurnOrder, Keys, SetupPages

\* What a burn saves is a record.
LEMMA SavedIsRecord ==
    ASSUME BurnType, NEW k \in Keys
    PROVE  Saved(k) # Absent
<1>1. Package(burn.staged) \in Packages
  BY DEF Package, Packages, BurnType, BurnRecords
<1> QED
  BY <1>1, AbsentAssumption DEF Saved, BurnType, BurnRecords

\* One more record of the burn is in the store; the first one into an empty
\* flash image brings zeros for the other two pages.
LEMMA RecordJoins ==
    ASSUME StateOK, BurnInv, BurnRecord
    PROVE  /\ kv' = KvWrite(BurnOrder[burning], Saved(BurnOrder[burning]))
           /\ \A k \in Keys : kv'[k] = IF Place[k] <= burning THEN Saved(k) ELSE Behind(k, burning)
<1> DEFINE key == BurnOrder[burning]
<1>1. burning \in 1..5 /\ key \in Keys /\ Place[key] = burning
  BY BurnOrderFacts, PlaceFacts DEF BurnRecord, Idle, StateOK
<1>2. RecordOf(key) = Saved(key)
  <2>1. /\ burn.pages = [p \in SetupPages |-> ram.pages[p]]
        /\ burn.trigger = ram.trigger /\ burn.staged = ram.staged
    BY <1>1 DEF BurnInv
  <2>2. \A k \in Keys : RecordOf(k) = Saved(k)
    BY <2>1 DEF RecordOf, Saved, Package, Keys, SetupPages
  <2> QED
    BY <1>1, <2>2
<1>3. kv' = KvWrite(key, Saved(key))
  BY <1>2 DEF BurnRecord
<1>4. DOMAIN kv = Keys
  BY DEF StateOK, KvType
<1>5. Holds(burning - 1)
  BY <1>1 DEF BurnInv
<1> HIDE DEF key
<1>6. CASE env.backend = "flash" /\ kv["fuel"] = Absent
  <2>1. burning = 1
    <3>1. burning > 1 => Place["fuel"] <= burning - 1
      BY <1>1, PlaceFacts
    <3> QED
      BY <1>1, <1>5, <1>6, <3>1, SavedIsRecord, PlaceFacts DEF Holds, BurnInv
  <2>2. burn.base["fuel"] = Absent
    BY <1>5, <1>6, <2>1, PlaceFacts DEF Holds, Behind
  <2>3. kv' = [[k \in Keys |-> IF k \in SetupPages THEN Zero ELSE Absent] EXCEPT ![key] = Saved(key)]
    BY <1>3, <1>6 DEF KvWrite
  <2>4. ASSUME NEW k \in Keys
        PROVE  kv'[k] = IF Place[k] <= burning THEN Saved(k) ELSE Behind(k, burning)
    <3>1. CASE k = key
      BY <1>1, <2>3, <3>1
    <3>2. CASE k # key
      <4>1. ~(Place[k] <= burning)
        BY <1>1, <2>1, <3>2, PlaceFacts
      <4>2. k \notin SetupPages => burn.base[k] = Absent
        BY <1>6 DEF BurnInv, BurnType, Keys
      <4> QED
        BY <1>6, <2>1, <2>2, <2>3, <3>2, <4>1, <4>2 DEF Behind
    <3> QED
      BY <3>1, <3>2
  <2> QED
    BY <1>3, <2>4 DEF key
<1>7. CASE ~(env.backend = "flash" /\ kv["fuel"] = Absent)
  <2>1. kv' = [kv EXCEPT ![key] = Saved(key)]
    BY <1>3, <1>7 DEF KvWrite
  <2>2. ASSUME NEW k \in Keys
        PROVE  kv'[k] = IF Place[k] <= burning THEN Saved(k) ELSE Behind(k, burning)
    <3>1. CASE k = key
      BY <1>1, <1>4, <2>1, <3>1
    <3>2. CASE k # key /\ Place[k] <= burning
      <4>1. Place[k] <= burning - 1
        <5>1. Place[k] # burning
          BY <1>1, <3>2, PlaceFacts DEF key
        <5> QED
          BY <1>1, <3>2, <5>1, PlaceFacts
      <4> QED
        BY <1>4, <1>5, <2>1, <3>2, <4>1 DEF Holds
    <3>3. CASE ~(Place[k] <= burning)
      <4>1. ~(Place[k] <= burning - 1) /\ k # key
        BY <1>1, <3>3, PlaceFacts
      <4>2. kv'[k] = Behind(k, burning - 1)
        BY <1>4, <1>5, <2>1, <4>1 DEF Holds
      <4>3. burning = 1 /\ env.backend = "flash" => burn.base["fuel"] # Absent
        BY <1>5, <1>7, PlaceFacts DEF Holds, Behind
      <4>4. Behind(k, burning - 1) = Behind(k, burning)
        BY <1>1, <4>3 DEF Behind
      <4> QED
        BY <3>3, <4>2, <4>4
    <3> QED
      BY <3>1, <3>2, <3>3
  <2> QED
    BY <1>3, <2>2 DEF key
<1> QED
  BY <1>6, <1>7

\* A record joins the ones before it; the last one ends the burn with OK.
LEMMA BurnRecordStep ==
    ASSUME StateOK, BurnInv, BurnRecord
    PROVE  BurnInv'
<1>1. burning \in 1..5 /\ Known(BurnOrder[burning])
  BY DEF BurnRecord, Idle, StateOK
<1>2. UNCHANGED <<ram, env>> /\ UNCHANGED <<burn.base, burn.pages, burn.trigger, burn.staged>>
  <2>1. CASE burning = Len(BurnOrder)
    BY <2>1 DEF BurnRecord, BurnInv, BurnType, BurnRecords
  <2>2. CASE burning # Len(BurnOrder)
    BY <2>2 DEF BurnRecord
  <2> QED
    BY <2>1, <2>2
<1>3. \A k : Saved(k)' = Saved(k)
  BY <1>2 DEF Saved, Package
<1>4. \A k, n : Behind(k, n)' = Behind(k, n)
  BY <1>2 DEF Behind
<1>5. \A k \in Keys : kv'[k] = IF Place[k] <= burning THEN Saved(k) ELSE Behind(k, burning)
  BY RecordJoins
<1>6. \A n : n = burning => Holds(n)'
  BY <1>3, <1>4, <1>5 DEF Holds
<1>7. env.backend = "flash" => burning < 4
  BY <1>1, BurnOrderFacts DEF Known, SetupPages
<1>8. BurnType'
  <2>1. \A k \in {"expert_trigger", "cal_package"} :
           env.backend = "flash" => kv'[k] = Absent
    <3>1. ASSUME NEW k \in {"expert_trigger", "cal_package"}, env.backend = "flash"
          PROVE  kv'[k] = Absent
      <4>1. k \in Keys /\ k \notin SetupPages /\ ~(Place[k] <= burning)
        BY <1>1, <1>7, <3>1, PlaceFacts DEF SetupPages
      <4>2. kv'[k] = burn.base[k]
        BY <1>5, <4>1 DEF Behind
      <4> QED
        BY <3>1, <4>2 DEF BurnInv, BurnType
    <3> QED
      BY <3>1
  <2>2. burn' \in BurnRecords
    BY DEF BurnRecord, BurnInv, BurnType, BurnRecords
  <2> QED
    BY <1>2, <2>1, <2>2 DEF BurnInv, BurnType
<1>9. CASE burning = 5
  <2>1. burning' = 0 /\ burn'.answer = "OK"
    BY <1>9, BurnOrderFacts DEF BurnRecord, BurnInv, BurnType, BurnRecords
  <2>2. \E n \in 0..5 : Holds(n)' /\ Answered(n)'
    BY <1>6, <1>9, <2>1 DEF Answered
  <2> QED
    BY <1>8, <2>1, <2>2 DEF BurnInv
<1>10. CASE burning # 5
  <2>1. burning' = burning + 1 /\ reply' = reply /\ burn' = burn
    BY <1>10, BurnOrderFacts DEF BurnRecord
  <2>2. (\A n \in 0..4 : n + 1 = burning => Holds(n))'
    BY <1>1, <1>6, <2>1
  <2>3. \E n \in 0..5 : Holds(n)' /\ Answered(n)'
    BY <1>1, <1>2, <1>6, <1>10, <2>1 DEF Answered, BurnInv
  <2>4. burn'.pages = [p \in SetupPages |-> ram'.pages[p]]
    BY <1>1, <1>2, <2>1 DEF BurnInv
  <2> QED
    BY <1>1, <1>2, <1>7, <1>8, <2>1, <2>2, <2>3, <2>4 DEF BurnInv
<1> QED
  BY <1>9, <1>10

\* A step that leaves the records and the history of the burn alone.
LEMMA HoldsKept ==
    ASSUME NEW n, kv' = kv, burn' = burn, env' = env, Holds(n)
    PROVE  Holds(n)'
BY DEF Holds, Saved, Behind, Package

\* A call that writes no record leaves the records and what they stand for.
LEMMA RamCallStep ==
    ASSUME BurnInv, NEW cmd, NEW res, RamCall(cmd, res)
    PROVE  BurnInv'
<1>1. kv' = kv /\ burn' = burn /\ env' = env /\ burning' = 0
  BY DEF RamCall, Idle
<1>2. env'.backend # "ram" => \E n \in 0..5 : Holds(n)' /\ Answered(n)'
  BY <1>1, HoldsKept DEF BurnInv, Answered
<1> QED
  BY <1>1, <1>2 DEF BurnInv, BurnType

\* Only BurnRecord and PowerLoss touch the records.
LEMMA BurnInvStep ==
    ASSUME StateOK, BurnInv, [Next]_vars
    PROVE  BurnInv'
<1>1. CASE PowerLoss
  <2>1. CASE env.backend = "ram"
    BY <1>1, <2>1 DEF PowerLoss, BurnInv, BurnType
  <2>2. CASE env.backend # "ram"
    <3>1. kv' = kv /\ burn' = burn /\ env' = env /\ burning' = 0
      BY <1>1, <2>2 DEF PowerLoss
    <3>2. \E n \in 0..5 : Holds(n)' /\ Answered(n)'
      BY <2>2, <3>1, HoldsKept DEF BurnInv, Answered
    <3> QED
      BY <3>1, <3>2 DEF BurnInv, BurnType
  <2> QED
    BY <2>1, <2>2
<1>2. ASSUME NEW im \in env.writes,
             WriteRefused(im) \/ WriteAfrTorn(im) \/ WriteBody(im) \/ WriteTriggerRefused(im)
             \/ WriteTriggerSplit(im) \/ WriteTrigger(im)
      PROVE  BurnInv'
  BY <1>2, RamCallStep
  DEF WriteRefused, WriteAfrTorn, WriteBody, WriteTriggerRefused, WriteTriggerSplit, WriteTrigger
<1>3. ASSUME NEW pk \in env.packages, ImportRefused(pk) \/ PackageImport(pk)
      PROVE  BurnInv'
  BY <1>3, RamCallStep DEF ImportRefused, PackageImport
<1>4. CASE BurnRefused \/ EngineStartsOrStops
  <2>1. kv' = kv /\ burn' = burn /\ env' = env /\ burning' = 0
    BY <1>4 DEF BurnRefused, EngineStartsOrStops, Idle
  <2>2. env'.backend # "ram" => \E n \in 0..5 : Holds(n)' /\ Answered(n)'
    BY <2>1, HoldsKept DEF BurnInv, Answered
  <2> QED
    BY <2>1, <2>2 DEF BurnInv, BurnType
<1>4a. CASE Burn
  <2>1. /\ burn'.base = kv /\ burn'.pages = [p \in SetupPages |-> ram.pages[p]]
        /\ burn'.trigger = ram.trigger /\ burn'.staged = ram.staged /\ burn'.answer = "none"
        /\ kv' = kv /\ ram' = ram /\ env' = env /\ burning' = 1 /\ reply'.cmd = "Burn"
    BY <1>4a DEF Burn, BurnOf, Answer
  <2>2. BurnType'
    <3>1. [p \in SetupPages |-> ram.pages[p]] \in [SetupPages -> Values]
      BY DEF StateOK, RamType, SetupPages, BodyPages
    <3>2. ram.trigger \in TriggerType /\ ram.staged \in TriggerType
      BY DEF StateOK, RamType
    <3>3. burn' \in BurnRecords
      BY <1>4a, <3>1, <3>2 DEF Burn, BurnOf, BurnRecords, StateOK, KvType
    <3> QED
      BY <2>1, <3>3 DEF BurnType, BurnInv
  <2>3. Holds(0)'
    <3>1. \A k \in Keys : ~(Place[k] <= 0) /\ Behind(k, 0)' = kv[k]
      BY <2>1, PlaceFacts DEF Behind
    <3> QED
      BY <2>1, <3>1 DEF Holds
  <2>4. Answered(0)'
    BY <2>1 DEF Answered
  <2>5. (\A n \in 0..4 : n + 1 = burning => Holds(n))'
    BY <2>1, <2>3
  <2> QED
    BY <2>1, <2>2, <2>3, <2>4, <2>5 DEF BurnInv
<1>4b. CASE BurnFails
  <2>1. /\ kv' = kv /\ env' = env /\ ram' = ram /\ burning' = 0 /\ burning \in 1..5
        /\ burn' = [burn EXCEPT !.answer = "ERR"]
    BY <1>4b DEF BurnFails, Idle, StateOK
  <2>2. UNCHANGED <<burn.base, burn.pages, burn.trigger, burn.staged>> /\ burn' \in BurnRecords
    BY <2>1 DEF BurnInv, BurnType, BurnRecords
  <2>3. Holds(burning - 1)
    BY <2>1 DEF BurnInv
  <2>4. \A k : Saved(k)' = Saved(k)
    BY <2>1, <2>2 DEF Saved, Package
  <2>5. \A k, n : Behind(k, n)' = Behind(k, n)
    BY <2>1, <2>2 DEF Behind
  <2>6. \A n : n = burning - 1 => Holds(n)'
    BY <2>1, <2>3, <2>4, <2>5 DEF Holds
  <2>7. \A n : n = burning - 1 => Answered(n)'
    <3>1. ~env.faulty => burning = 4
      <4>1. ~env.faulty => ~Known(BurnOrder[burning])
        BY <1>4b DEF BurnFails
      <4> QED
        BY <2>1, <4>1, BurnOrderFacts DEF Known, BurnInv, SetupPages
    <3>2. burn'.answer # "OK"
      BY <2>1 DEF BurnInv, BurnType, BurnRecords
    <3> QED
      BY <2>1, <3>1, <3>2 DEF Answered
  <2>8. burning - 1 \in 0..5
    BY <2>1
  <2> QED
    BY <2>1, <2>2, <2>6, <2>7, <2>8 DEF BurnInv, BurnType
<1>5. CASE BurnRecord
  BY <1>5, BurnRecordStep
<1>6. CASE TakeWrittenPages \/ FactoryReset \/ SyncExpertTrigger \/ ResetStaged
  BY <1>6, RamCallStep DEF TakeWrittenPages, FactoryReset, SyncExpertTrigger, ResetStaged
<1>7. ASSUME NEW c \in Classes, ApplyWrite(c)
      PROVE  BurnInv'
  BY <1>7, RamCallStep DEF ApplyWrite
<1>8. ASSUME NEW policy \in Policies, NEW safe \in BOOLEAN, Commit(policy, safe)
      PROVE  BurnInv'
  BY <1>8, RamCallStep DEF Commit
<1>9. CASE UNCHANGED vars
  <2>1. /\ kv' = kv /\ burn' = burn /\ env' = env /\ ram' = ram /\ burning' = burning /\ reply' = reply
    BY <1>9 DEF vars
  <2>2. env'.backend # "ram" => \E n \in 0..5 : Holds(n)' /\ Answered(n)'
    BY <2>1, HoldsKept DEF BurnInv, Answered
  <2>3. burning # 0 => (\A n \in 0..4 : n + 1 = burning => Holds(n))'
    BY <2>1, HoldsKept DEF BurnInv
  <2> QED
    BY <2>1, <2>2, <2>3 DEF BurnInv, BurnType
<1> QED
  BY <1>1, <1>2, <1>3, <1>4, <1>4a, <1>4b, <1>5, <1>6, <1>7, <1>8, <1>9 DEF Next

\* What boot makes of a store that holds the first n records of a burn.
LEMMA BootFindsRecords ==
    ASSUME StateOK, BurnType, NEW n \in 0..5, Holds(n)
    PROVE  /\ \A p \in SetupPages : LoadedPages(kv)[p] = PageFound(p, n)
           /\ ImportedTrigger(kv) = TriggerFound(n)
<1>1. ASSUME NEW p \in SetupPages
      PROVE  LoadedPages(kv)[p] = PageFound(p, n)
  <2>1. p \in Keys /\ p \in BodyPages /\ Place[p] \in 1..5
    BY PlaceFacts DEF Keys, BodyPages
  <2>2. LoadedPages(kv)[p] = IF kv[p] # Absent THEN kv[p] ELSE Default
    BY <2>1 DEF LoadedPages
  <2>3. CASE Place[p] <= n
    <3>1. kv[p] = burn.pages[p] /\ kv[p] # Absent
      BY <2>1, <2>3, SavedIsRecord DEF Holds, Saved
    <3> QED
      BY <2>1, <2>2, <2>3, <3>1 DEF PageFound
  <2>4. CASE ~(Place[p] <= n)
    <3>1. kv[p] = Behind(p, n)
      BY <2>1, <2>4 DEF Holds
    <3>2. Zero # Absent
      BY AbsentAssumption, TuneValuesAssumption
    <3> QED
      BY <2>1, <2>2, <2>4, <3>1, <3>2 DEF PageFound, Behind
  <2> QED
    BY <2>3, <2>4
<1>2. ImportedTrigger(kv) = TriggerFound(n)
  <2>1. kv["cal_package"] = IF n = 5 THEN Package(burn.staged) ELSE burn.base["cal_package"]
    BY PlaceFacts DEF Holds, Saved, Behind, SetupPages
  <2>2. kv["expert_trigger"] = IF n >= 4 THEN burn.trigger ELSE burn.base["expert_trigger"]
    BY PlaceFacts DEF Holds, Saved, Behind, SetupPages
  <2>3. burn.trigger # Absent /\ Package(burn.staged) # Absent
    <3>1. burn.trigger \in TriggerType /\ burn.staged \in TriggerType
      BY DEF BurnType, BurnRecords
    <3>2. Package(burn.staged) \in Packages
      BY <3>1 DEF Package, Packages
    <3> QED
      BY <3>1, <3>2, AbsentAssumption
  <2>4. CASE n = 5
    BY <2>1, <2>3, <2>4 DEF ImportedTrigger, TriggerFound, Package
  <2>5. CASE n < 5 /\ burn.base["cal_package"] # Absent
    BY <2>1, <2>5 DEF ImportedTrigger, TriggerFound
  <2>6. CASE n < 5 /\ burn.base["cal_package"] = Absent
    <3>1. ImportedTrigger(kv) = LoadedTrigger(kv)
      BY <2>1, <2>6 DEF ImportedTrigger
    <3> QED
      BY <2>2, <2>3, <2>6, <3>1 DEF LoadedTrigger, TriggerFound
  <2> QED
    BY <2>4, <2>5, <2>6
<1> QED
  BY <1>1, <1>2

\* A step that boots, or that answers another call, or that changes neither
\* the RAM nor the history of the burn.
LEMMA BootFindsStep ==
    ASSUME StateOK, BurnInv, BootFindsTheBurn, [Next]_vars
    PROVE  BootFindsTheBurn'
<1>1. CASE PowerLoss
  <2>1. CASE env.backend = "ram"
    <3>1. ram' = BootRam(NoRecords) /\ env' = env
      BY <1>1, <2>1 DEF PowerLoss
    <3>2. NoRecords["expert_trigger"] = Absent /\ NoRecords["cal_package"] = Absent
      BY PlaceFacts DEF NoRecords
    <3>3. ImportedTrigger(NoRecords) = DefaultTrigger
      BY <3>2 DEF ImportedTrigger, LoadedTrigger
    <3>4. \A p \in SetupPages : LoadedPages(NoRecords)[p] = Default
      BY DEF LoadedPages, NoRecords, BodyPages, Keys
    <3> QED
      BY <2>1, <3>1, <3>3, <3>4 DEF BootRam, BootFindsTheBurn
  <2>2. CASE env.backend # "ram"
    <3>1. ram' = BootRam(kv) /\ env' = env /\ burn' = burn
      BY <1>1, <2>2 DEF PowerLoss
    <3>2. PICK n \in 0..5 : Holds(n) /\ Answered(n)
      BY <2>2 DEF BurnInv
    <3>3. \A p \in SetupPages : ram'.pages[p] = PageFound(p, n)
      BY <3>1, <3>2, BootFindsRecords DEF BootRam, BurnInv
    <3>4. ram'.trigger = TriggerFound(n) /\ ram'.staged = TriggerFound(n)
      BY <3>1, <3>2, BootFindsRecords DEF BootRam, BurnInv
    <3>5. (\A p \in SetupPages : PageFound(p, n)' = PageFound(p, n)) /\ TriggerFound(n)' = TriggerFound(n)
      BY <3>1 DEF PageFound, TriggerFound, LoadedTrigger
    <3>6. Answered(n)'
      BY <3>1, <3>2 DEF Answered
    <3> QED
      BY <2>2, <3>1, <3>3, <3>4, <3>5, <3>6 DEF BootFindsTheBurn, Answered
  <2> QED
    BY <2>1, <2>2
<1>2. ASSUME reply'.cmd # "Boot"
      PROVE  BootFindsTheBurn'
  BY <1>2 DEF BootFindsTheBurn
<1>3. ASSUME NEW cmd, NEW res, RamCall(cmd, res), cmd # "Boot"
      PROVE  BootFindsTheBurn'
  BY <1>2, <1>3 DEF RamCall, Answer
<1>4. ASSUME ram' = ram, burn' = burn, env' = env, reply' = reply
      PROVE  BootFindsTheBurn'
  BY <1>4 DEF BootFindsTheBurn, PageFound, TriggerFound, LoadedTrigger
<1>5. ASSUME NEW im \in env.writes,
             WriteRefused(im) \/ WriteAfrTorn(im) \/ WriteBody(im) \/ WriteTriggerRefused(im)
             \/ WriteTriggerSplit(im) \/ WriteTrigger(im)
      PROVE  BootFindsTheBurn'
  BY <1>3, <1>5
  DEF WriteRefused, WriteAfrTorn, WriteBody, WriteTriggerRefused, WriteTriggerSplit, WriteTrigger
<1>6. ASSUME NEW pk \in env.packages, ImportRefused(pk) \/ PackageImport(pk)
      PROVE  BootFindsTheBurn'
  BY <1>3, <1>6 DEF ImportRefused, PackageImport
<1>7. CASE BurnRefused \/ Burn \/ BurnFails
  BY <1>2, <1>7 DEF BurnRefused, Burn, BurnFails, Answer
<1>8. CASE EngineStartsOrStops
  BY <1>4, <1>8 DEF EngineStartsOrStops
<1>9. CASE BurnRecord
  <2>1. reply'.cmd = "Burn"
    BY <1>9 DEF BurnRecord, BurnInv, Idle, Answer
  <2> QED
    BY <1>2, <2>1
<1>10. CASE TakeWrittenPages \/ FactoryReset \/ SyncExpertTrigger \/ ResetStaged
  BY <1>3, <1>10 DEF TakeWrittenPages, FactoryReset, SyncExpertTrigger, ResetStaged
<1>11. ASSUME NEW c \in Classes, ApplyWrite(c)
       PROVE  BootFindsTheBurn'
  BY <1>3, <1>11 DEF ApplyWrite
<1>12. ASSUME NEW policy \in Policies, NEW safe \in BOOLEAN, Commit(policy, safe)
       PROVE  BootFindsTheBurn'
  BY <1>3, <1>12 DEF Commit
<1>13. CASE UNCHANGED vars
  BY <1>4, <1>13 DEF vars
<1> QED
  BY <1>1, <1>5, <1>6, <1>7, <1>8, <1>9, <1>10, <1>11, <1>12, <1>13 DEF Next

\* Before the first burn the store is empty, and boot finds the defaults.
LEMMA BurnInit == Init => BurnInv /\ BootFindsTheBurn
<1> SUFFICES ASSUME Init PROVE BurnInv /\ BootFindsTheBurn
  OBVIOUS
<1>0. StateOK
  BY StateInit
<1>1. /\ kv = NoRecords /\ burning = 0 /\ ram = BootRam(NoRecords)
      /\ burn.base = NoRecords /\ burn.pages = [p \in SetupPages |-> ram.pages[p]]
      /\ burn.trigger = ram.trigger /\ burn.staged = ram.staged /\ burn.answer = "none"
  BY DEF Init, BurnOf
<1>2. BurnType
  <2>1. [p \in SetupPages |-> ram.pages[p]] \in [SetupPages -> Values]
    BY <1>0 DEF StateOK, RamType, SetupPages, BodyPages
  <2>2. ram.trigger \in TriggerType /\ ram.staged \in TriggerType
    BY <1>0 DEF StateOK, RamType
  <2>3. NoRecords["expert_trigger"] = Absent /\ NoRecords["cal_package"] = Absent
    BY PlaceFacts DEF NoRecords
  <2>4. burn \in BurnRecords
    BY <2>1, <2>2, NoRecordsType DEF Init, BurnOf, BurnRecords
  <2> QED
    BY <1>1, <2>3, <2>4 DEF BurnType
<1>3. Holds(0) /\ Answered(0)
  <2>1. \A k \in Keys : ~(Place[k] <= 0) /\ Behind(k, 0) = kv[k]
    BY <1>1, PlaceFacts DEF Behind
  <2> QED
    BY <1>1, <2>1 DEF Holds, Answered
<1>4. BurnInv
  BY <1>1, <1>2, <1>3 DEF BurnInv
<1>5. /\ \A p \in SetupPages : ram.pages[p] = PageFound(p, 0)
      /\ ram.trigger = TriggerFound(0) /\ ram.staged = TriggerFound(0)
  BY <1>0, <1>1, <1>2, <1>3, BootFindsRecords DEF BootRam
<1>6. /\ \A p \in SetupPages : ram.pages[p] = Default
      /\ ram.trigger = DefaultTrigger /\ ram.staged = DefaultTrigger
  <2>1. NoRecords["expert_trigger"] = Absent /\ NoRecords["cal_package"] = Absent
    BY PlaceFacts DEF NoRecords
  <2>2. ImportedTrigger(NoRecords) = DefaultTrigger
    BY <2>1 DEF ImportedTrigger, LoadedTrigger
  <2>3. \A p \in SetupPages : LoadedPages(NoRecords)[p] = Default
    BY DEF LoadedPages, NoRecords, BodyPages, Keys
  <2> QED
    BY <1>1, <2>2, <2>3 DEF BootRam
<1>7. BootFindsTheBurn
  BY <1>1, <1>5, <1>6 DEF BootFindsTheBurn
<1> QED
  BY <1>4, <1>7

\* What a boot finds of the last burn, answered or interrupted, on every back
\* end and with the power lost at any instant (PageStore::burn, try_load and
\* try_load_and_import_package of crates/ts/src/persistence.rs).
THEOREM SpecBootFindsTheBurn == Spec => []BootFindsTheBurn
<1>1. Init => BurnInv /\ BootFindsTheBurn
  BY BurnInit
<1>2. StateOK /\ BurnInv /\ BootFindsTheBurn /\ [Next]_vars => BurnInv' /\ BootFindsTheBurn'
  BY BurnInvStep, BootFindsStep
<1> QED
  BY <1>1, <1>2, StateAlways, PTL DEF Spec
=============================================================================
