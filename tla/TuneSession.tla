----------------------------- MODULE TuneSession ----------------------------
(***************************************************************************)
(* One tuning session: the TunerStudio commands that change the tune, the  *)
(* page store they change, the calibration edit session beside it, the     *)
(* records a burn writes and what boot makes of them.                      *)
(*   crates/ts/src/{server,persistence,runtime_view}.rs,                   *)
(*   crates/calibration/src/{model,expert_trigger}.rs,                     *)
(*   crates/compat/src/ts/session.rs, boards/common/src/kv/ram.rs          *)
(*                                                                         *)
(* The expert-trigger calibration exists three times: in the page store,   *)
(* staged in the session, and active in the session.  A write of its page  *)
(* goes through the store first and the session second, and each compares  *)
(* the proposal with a copy of its own.                                    *)
(*                                                                         *)
(* Abstractions.  A page body is an element of Values.  A partial write    *)
(* reads the page and writes it back whole, so it is a whole write here.   *)
(* The target AFR, which two pages share, and the revision numbers reach   *)
(* neither the runtime nor an import and are left out.  The power may fail *)
(* between two records of a burn; that one record is atomic is what        *)
(* AbFlashKv shows of the flash store.                                     *)
(***************************************************************************)
EXTENDS Naturals, Sequences

CONSTANTS
    Values,        \* page bodies
    Default,       \* the body every page has in a new EcuState
    Zero,          \* the all-zero body
    ResetAngles,   \* the angles body of factory_reset
    Ids,           \* identities of certified profiles; 0 is "no profile"
    Absent,        \* a key the KV store does not have
    Scenarios      \* [backend, faulty, burns, writes, packages, host]

ASSUME TuneValuesAssumption == {Default, Zero, ResetAngles} \subseteq Values
ASSUME IdsAssumption == Ids \subseteq Nat \ {0}

SetupPages == {"fuel", "ign", "angles"}
TunePages == {"ve_tune", "ve_table", "afr_table"}
\* "limits" stands for the other writable pages: neither persisted nor a tune.
BodyPages == SetupPages \cup TunePages \cup {"limits"}

\* Burn order: TS_SETUP_PERSISTED_PAGES, the expert trigger, the package.
BurnOrder == <<"fuel", "ign", "angles", "expert_trigger", "cal_package">>
Place == [fuel |-> 1, ign |-> 2, angles |-> 3, expert_trigger |-> 4, cal_package |-> 5]
Keys == SetupPages \cup {"expert_trigger", "cal_package"}

Authorities == {"None", "ExpertManual", "CommunityProfile", "CertifiedProfile", "BenchLearned"}
TriggerType == [auth : Authorities, unlocked : BOOLEAN, id : Ids \cup {0}]
DefaultTrigger == [auth |-> "None", unlocked |-> FALSE, id |-> 0]

\* What the tool may send: sound when every codec check passes, canonical
\* when also the reserved bytes are zero and the flag byte is 0 or 1.
BodyImages == [page : BodyPages, body : Values, sound : BOOLEAN]
TriggerImages == [page : {"expert_trigger"}, body : TriggerType, sound : BOOLEAN,
                  canonical : BOOLEAN]
Packages == [ours : BOOLEAN, sound : BOOLEAN, trig : TriggerType]

ASSUME AbsentAssumption == Absent \notin Values \cup TriggerType \cup Packages

Classes == {"NoChange", "MetadataOnly", "RuntimeSafe", "RuntimeSensitive", "SafetyCritical"}
Policies == {"Deferred", "SafeOnly", "Immediate"}
Backends == {"flash", "ram", "full"}

-----------------------------------------------------------------------------
(* Validation. *)

\* ExpertTriggerCalibration::validate: its authority rules (the geometry
\* rules are part of `sound`).
Valid(t) ==
    /\ t.auth = "ExpertManual" => t.unlocked
    /\ t.auth = "CertifiedProfile" => t.id # 0 /\ ~t.unlocked

\* Mutant: any certified profile is as good as the current one.
AnyCertifiedTransition(t, current) ==
    /\ Valid(t)
    /\ current.auth = "CertifiedProfile" /\ t.auth # "CertifiedProfile" => t.unlocked

ValidTransition(t, current) ==
    /\ Valid(t)
    /\ t.auth = "CertifiedProfile" => t = current
    /\ current.auth = "CertifiedProfile" /\ t.auth # "CertifiedProfile" => t.unlocked

ASSUME TuneScenarioAssumption ==
    \A s \in Scenarios :
        /\ s.backend \in Backends /\ {s.faulty, s.burns, s.host} \subseteq BOOLEAN
        /\ s.writes \subseteq BodyImages \cup TriggerImages
        /\ s.packages \subseteq {p \in Packages : p.sound => Valid(p.trig)}

VARIABLES
    ram,        \* what a power loss takes, as below
    kv,         \* [Keys -> record or Absent]
    burning,    \* 0, or the place in BurnOrder of the record a burn writes next
    running,    \* engine_running of the provider
    reply,      \* the last call and its answer
    burn,       \* history: the last burn, as below
    apart,      \* history: the stored and the staged trigger were set apart
    torn,       \* history: a refused AFR table was left half written
    env         \* the scenario
vars == <<ram, kv, burning, running, reply, burn, apart, torn, env>>

(***************************************************************************)
(* ram.pages     the page bodies of the EcuState                           *)
(* ram.trigger   PersistedTsPageStore.expert_trigger                       *)
(* ram.written   PageWriteReporter.pending                                 *)
(* ram.active, ram.staged, ram.dirty, ram.class                            *)
(*               the snapshot and the diff class of CalibrationEditSurface *)
(* ram.strategy  the tune the runtime computes fuel with                   *)
(* burn          the records when the last burn began, what it was to save *)
(*               (setup pages, stored trigger, staged trigger), its answer *)
(***************************************************************************)
TuneOf(pages) == [p \in TunePages |-> pages[p]]

-----------------------------------------------------------------------------
(* The KV back ends.  "flash": FlashKv of the RP2040, which keeps the      *)
(* three setup pages in one image and knows no other key.  "ram":          *)
(* RamKv512, which knows every key and forgets them all.  "full": a        *)
(* durable KvStore with every key, which the trait allows and no board has.*)

Known(key) == env.backend # "flash" \/ key \in SetupPages

NoRecords == [k \in Keys |-> Absent]

\* Mutant: a rewrite of the flash image starts from blank pages.
KvWriteAlone(key, v) ==
    LET image == IF env.backend = "flash"
                 THEN [k \in Keys |-> IF k \in SetupPages THEN Zero ELSE Absent]
                 ELSE kv
    IN  [image EXCEPT ![key] = v]

\* The first write into an empty flash store commits zeros for the others.
KvWrite(key, v) ==
    LET image == IF env.backend = "flash" /\ kv["fuel"] = Absent
                 THEN [k \in Keys |-> IF k \in SetupPages THEN Zero ELSE Absent]
                 ELSE kv
    IN  [image EXCEPT ![key] = v]

-----------------------------------------------------------------------------
(* Boot: try_load, the session of the loaded trigger, the stored package,  *)
(* the runtime's fuel strategy.                                            *)

LoadedPages(rec) ==
    [p \in BodyPages |->
        IF p \in SetupPages /\ rec[p] # Absent THEN rec[p] ELSE Default]

LoadedTrigger(rec) ==
    IF rec["expert_trigger"] = Absent THEN DefaultTrigger ELSE rec["expert_trigger"]

\* Every stored package was exported by this firmware, so it is accepted.
ImportedTrigger(rec) ==
    IF rec["cal_package"] = Absent THEN LoadedTrigger(rec) ELSE rec["cal_package"].trig

BootRam(rec) ==
    [pages |-> LoadedPages(rec), trigger |-> ImportedTrigger(rec), written |-> {},
     active |-> DefaultTrigger, staged |-> ImportedTrigger(rec),
     dirty |-> ImportedTrigger(rec) # LoadedTrigger(rec),
     class |-> IF ImportedTrigger(rec) = LoadedTrigger(rec) THEN "NoChange" ELSE "SafetyCritical",
     strategy |-> TuneOf(LoadedPages(rec))]

Answer(cmd, res) == [cmd |-> cmd, res |-> res]

\* A burn that begins.
BurnOf(r, records) ==
    [base |-> records, pages |-> [p \in SetupPages |-> r.pages[p]],
     trigger |-> r.trigger, staged |-> r.staged, answer |-> "none"]

Init ==
    /\ env \in Scenarios
    /\ kv = NoRecords
    /\ ram = BootRam(NoRecords)
    /\ burning = 0
    /\ running = FALSE
    /\ reply = Answer("Boot", "none")
    /\ burn = BurnOf(ram, kv) /\ apart = FALSE /\ torn = FALSE

\* At any instant, inside a burn too.
PowerLoss ==
    /\ kv' = IF env.backend = "ram" THEN NoRecords ELSE kv
    /\ ram' = BootRam(kv')
    /\ burning' = 0
    /\ running' = FALSE
    /\ reply' = Answer("Boot", "none")
    /\ apart' = FALSE /\ torn' = FALSE
    /\ UNCHANGED <<burn, env>>

-----------------------------------------------------------------------------
(* The commands of TunerstudioServer.  They run one at a time in the main  *)
(* loop, so the engine state a command looks at holds until it is answered.*)

Idle == burning = 0

\* A call that writes no record.
RamCall(cmd, res) ==
    /\ Idle
    /\ reply' = Answer(cmd, res)
    /\ UNCHANGED <<kv, burning, running, burn, env>>

WriteRefused(im) ==
    /\ running \/ (~im.sound /\ im.page # "afr_table")
    /\ RamCall("WritePage", "ERR")
    /\ UNCHANGED <<ram, apart, torn>>

\* An AFR table is decoded into the live one cell by cell: when a cell is out
\* of range, the cells before it are written and the write is not reported.
WriteAfrTorn(im) ==
    /\ ~running /\ ~im.sound /\ im.page = "afr_table"
    /\ RamCall("WritePage", "ERR")
    /\ \E left \in Values : ram' = [ram EXCEPT !.pages["afr_table"] = left]
    /\ torn' = TRUE
    /\ apart' = apart

WriteBody(im) ==
    /\ ~running /\ im.sound /\ im.page \in BodyPages
    /\ RamCall("WritePage", "OK")
    /\ ram' = [ram EXCEPT !.pages[im.page] = im.body, !.written = @ \cup {im.page}]
    /\ UNCHANGED <<apart, torn>>

\* StagedCalibration::replace_calibration and the class of the diff.
Stage(r, t) ==
    [r EXCEPT !.staged = t,
              !.dirty = r.dirty \/ r.staged # t,
              !.class = IF r.staged = t THEN "NoChange" ELSE "SafetyCritical"]

\* write_expert_trigger compares with the store's own copy.
WriteTriggerRefused(im) ==
    /\ ~running /\ im.sound /\ im.page = "expert_trigger"
    /\ ~ValidTransition(im.body, ram.trigger)
    /\ RamCall("WritePage", "ERR")
    /\ UNCHANGED <<ram, apart, torn>>

\* The session compares with the active copy, and decodes more strictly.
SessionAccepts(im) == im.canonical /\ ValidTransition(im.body, ram.active)

\* The store has taken the page by the time the session refuses it.
WriteTriggerSplit(im) ==
    /\ ~running /\ im.sound /\ im.page = "expert_trigger"
    /\ ValidTransition(im.body, ram.trigger) /\ ~SessionAccepts(im)
    /\ RamCall("WritePage", "ERR")
    /\ ram' = [ram EXCEPT !.trigger = im.body]
    /\ apart' = TRUE /\ torn' = torn

WriteTrigger(im) ==
    /\ ~running /\ im.sound /\ im.page = "expert_trigger"
    /\ ValidTransition(im.body, ram.trigger) /\ SessionAccepts(im)
    /\ RamCall("WritePage", "OK")
    /\ ram' = Stage([ram EXCEPT !.trigger = im.body], im.body)
    /\ apart' = FALSE /\ torn' = torn

ImportRefused(pk) ==
    /\ running \/ ~pk.sound \/ ~pk.ours
    /\ RamCall("PackageImport", "ERR")
    /\ UNCHANGED <<ram, apart, torn>>

\* Mutant: the session takes the package, the store keeps its trigger.
ImportIntoSession(pk) ==
    /\ ~running /\ pk.sound /\ pk.ours
    /\ RamCall("PackageImport", "OK")
    /\ ram' = Stage(ram, pk.trig)
    /\ apart' = FALSE /\ torn' = torn

\* A package is target-bound, but no transition is checked.
PackageImport(pk) ==
    /\ ~running /\ pk.sound /\ pk.ours
    /\ RamCall("PackageImport", "OK")
    /\ ram' = Stage([ram EXCEPT !.trigger = pk.trig], pk.trig)
    /\ apart' = FALSE /\ torn' = torn

BurnRefused ==
    /\ env.burns /\ Idle /\ running
    /\ reply' = Answer("Burn", "RUN")
    /\ UNCHANGED <<ram, kv, burning, running, burn, apart, torn, env>>

Burn ==
    /\ env.burns /\ Idle /\ ~running
    /\ burning' = 1
    /\ reply' = Answer("Burn", "none")
    /\ burn' = BurnOf(ram, kv)
    /\ UNCHANGED <<ram, kv, running, apart, torn, env>>

RecordOf(key) ==
    CASE key \in SetupPages -> ram.pages[key]
      [] key = "expert_trigger" -> ram.trigger
      [] key = "cal_package" -> [ours |-> TRUE, sound |-> TRUE, trig |-> ram.staged]

\* One record of burn_pages, burn_expert_trigger_calibration or burn_package.
BurnRecord ==
    /\ ~Idle /\ Known(BurnOrder[burning])
    /\ kv' = KvWrite(BurnOrder[burning], RecordOf(BurnOrder[burning]))
    /\ IF burning = Len(BurnOrder)
       THEN /\ burning' = 0
            /\ reply' = Answer("Burn", "OK")
            /\ burn' = [burn EXCEPT !.answer = "OK"]
       ELSE burning' = burning + 1 /\ UNCHANGED <<reply, burn>>
    /\ UNCHANGED <<ram, running, apart, torn, env>>

\* The first error ends the burn; what was written stays.
BurnFails ==
    /\ ~Idle /\ (env.faulty \/ ~Known(BurnOrder[burning]))
    /\ burning' = 0
    /\ reply' = Answer("Burn", "ERR")
    /\ burn' = [burn EXCEPT !.answer = "ERR"]
    /\ UNCHANGED <<ram, kv, running, apart, torn, env>>

-----------------------------------------------------------------------------
(* The main loop and the engine. *)

written_pages_require_runtime_fuel_retune(pages) == pages \cap TunePages # {}

\* Between two frames (RP2040) or up to four frames later (STM32F4).
TakeWrittenPages ==
    /\ ram.written # {}
    /\ RamCall("TakeWrittenPages", "none")
    /\ ram' = [ram EXCEPT !.written = {},
                          !.strategy = IF written_pages_require_runtime_fuel_retune(ram.written)
                                       THEN TuneOf(ram.pages) ELSE @]
    /\ torn' = (torn /\ ~written_pages_require_runtime_fuel_retune(ram.written))
    /\ apart' = apart

EngineStartsOrStops ==
    /\ Idle
    /\ running' = ~running
    /\ UNCHANGED <<ram, kv, burning, reply, burn, apart, torn, env>>

-----------------------------------------------------------------------------
(* Calls a host makes on the store and on the session; no board does. *)

FactoryReset ==
    /\ env.host
    /\ RamCall("Host", "none")
    /\ ram' = [ram EXCEPT !.pages = [p \in BodyPages |->
                    IF p = "angles" THEN ResetAngles
                    ELSE IF p \in SetupPages THEN Zero ELSE ram.pages[p]],
                          !.trigger = DefaultTrigger]
    /\ apart' = (apart \/ ram.staged # DefaultTrigger) /\ torn' = torn

ApplyWrite(c) ==
    /\ env.host
    /\ RamCall("Host", "none")
    /\ ram' = [ram EXCEPT !.dirty = @ \/ c # "NoChange", !.class = c]
    /\ UNCHANGED <<apart, torn>>

SyncExpertTrigger ==
    /\ env.host
    /\ RamCall("Host", "none")
    /\ ram' = Stage(ram, ram.trigger)
    /\ apart' = FALSE /\ torn' = torn

ResetStaged ==
    /\ env.host
    /\ RamCall("Host", "none")
    /\ ram' = [ram EXCEPT !.staged = ram.active, !.dirty = FALSE, !.class = "NoChange"]
    /\ apart' = (apart \/ ram.staged # ram.active) /\ torn' = torn

\* CommitRules::evaluate.
AllowNow(policy, c, safe) ==
    \/ policy = "SafeOnly" /\ safe
    \/ policy = "Immediate" /\ (safe \/ c \in {"NoChange", "MetadataOnly"})

Commit(policy, safe) ==
    /\ env.host
    /\ RamCall("Host", "none")
    /\ ram' = IF AllowNow(policy, ram.class, safe)
              THEN [ram EXCEPT !.active = ram.staged, !.dirty = FALSE, !.class = "NoChange"]
              ELSE ram
    /\ UNCHANGED <<apart, torn>>

Next ==
    \/ PowerLoss
    \/ \E im \in env.writes :
          WriteRefused(im) \/ WriteAfrTorn(im) \/ WriteBody(im) \/ WriteTriggerRefused(im)
          \/ WriteTriggerSplit(im) \/ WriteTrigger(im)
    \/ \E pk \in env.packages : ImportRefused(pk) \/ PackageImport(pk)
    \/ BurnRefused \/ Burn \/ BurnRecord \/ BurnFails
    \/ TakeWrittenPages
    \/ EngineStartsOrStops
    \/ FactoryReset \/ SyncExpertTrigger \/ ResetStaged
    \/ \E c \in Classes : ApplyWrite(c)
    \/ \E policy \in Policies, safe \in BOOLEAN : Commit(policy, safe)

Spec == Init /\ [][Next]_vars

-----------------------------------------------------------------------------
(* Properties. *)

RecordType(key) ==
    IF key \in SetupPages THEN Values ELSE IF key = "expert_trigger" THEN TriggerType ELSE Packages

\* Every trigger anywhere, in the store, the session, the burned records and
\* the burned package, passes ExpertTriggerCalibration::validate: no order of
\* page writes, imports, resets, commits and boots lets an invalid one through.
TriggersAreValid ==
    /\ Valid(ram.trigger) /\ Valid(ram.active) /\ Valid(ram.staged)
    /\ kv["expert_trigger"] # Absent => Valid(kv["expert_trigger"])
    /\ kv["cal_package"] # Absent => Valid(kv["cal_package"].trig)

\* The runtime computes fuel with the tune that is in the pages, unless the
\* report of a page that changed it is still waiting for the main loop.  No
\* reset, burn, boot or other refused write sets them apart; a refused AFR
\* table does, by the cells before its first bad one, until the next report.
RuntimeHasTheTune ==
    \/ ram.written \cap TunePages # {}
    \/ \A p \in TunePages : ram.strategy[p] = ram.pages[p] \/ (p = "afr_table" /\ torn)

\* The trigger page the tool reads back is the one the session has staged
\* and would export, unless the session refused a page the store had taken
\* or a host changed one of the two.  Boot and import bring them together.
TriggersAgree == ~apart => ram.trigger = ram.staged

\* The page and the trigger a boot finds when the first n records of the
\* last burn are in a durable store.
PageFound(p, n) ==
    CASE Place[p] <= n -> burn.pages[p]
      [] Place[p] > n /\ env.backend = "flash" /\ n > 0 /\ burn.base["fuel"] = Absent -> Zero
      [] OTHER -> IF burn.base[p] = Absent THEN Default ELSE burn.base[p]

TriggerFound(n) ==
    CASE n = 5 -> burn.staged
      [] n < 5 /\ burn.base["cal_package"] # Absent -> burn.base["cal_package"].trig
      [] n = 4 /\ burn.base["cal_package"] = Absent -> burn.trigger
      [] OTHER -> LoadedTrigger(burn.base)

\* Boot finds the first n records of the last burn and the older ones behind
\* them, whenever the power failed: every record when the burn was answered
\* with OK, and the three pages, though never the trigger, when FlashKv
\* answered ERR.  Store and session both get the package's trigger, so an
\* older package wins over a newer trigger record, and a trigger page that
\* the session refused is found only before the first package.  RamKv512
\* keeps nothing, not even a burn answered with OK.
BootFindsTheBurn ==
    reply.cmd = "Boot" =>
        IF env.backend = "ram"
        THEN /\ \A p \in SetupPages : ram.pages[p] = Default
             /\ ram.trigger = DefaultTrigger /\ ram.staged = DefaultTrigger
        ELSE \E n \in 0..5 :
                /\ burn.answer = "OK" => n = 5
                /\ burn.answer = "ERR" /\ ~env.faulty => n = 3
                /\ \A p \in SetupPages : ram.pages[p] = PageFound(p, n)
                /\ ram.trigger = TriggerFound(n) /\ ram.staged = TriggerFound(n)

\* A page write never puts a certified profile into the session that was not
\* active already, and takes one that store and session agree on out only by
\* unlocking, although the session compares with the active copy alone.
CertifiedProfileGuarded ==
    [][reply'.cmd = "WritePage" /\ ram'.staged # ram.staged
       => /\ ram'.staged.auth = "CertifiedProfile" => ram'.staged = ram.active
          /\ ram.staged.auth = "CertifiedProfile" /\ ~apart
             /\ ram'.staged.auth # "CertifiedProfile" => ram'.staged.unlocked]_vars

\* "failed burn leaves previously committed persisted record unchanged"
\* (crates/spec/spec_math.md:1673).
FailedBurnKeepsRecords ==
    reply = Answer("Burn", "ERR") => kv = burn.base

\* The copies of the tune and of the trigger, in the pages, the session and
\* the runtime, are valid and agree or are known to differ.
CopiesAgree == TriggersAreValid /\ RuntimeHasTheTune /\ TriggersAgree
=============================================================================
