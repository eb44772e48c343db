------------------------------- MODULE TsPages -------------------------------
(***************************************************************************)
(* The calibration pages of the TunerStudio server (crates/ts pages/ and   *)
(* server.rs) over the board's page store: what a page looks like on the   *)
(* wire, which bytes its codec accepts, which fields of the configuration  *)
(* it writes, and how the server turns the payload of a WritePage, which   *)
(* may hold a whole page or an offset, a length and some bytes, into one   *)
(* write of a page.                                                        *)
(*                                                                         *)
(* The configuration is a function from field names to numbers.  Pages     *)
(* share fields: the closed-loop target and its gains are on two pages,    *)
(* and a write of the AFR table moves the target as well.  An array no     *)
(* codec checks is represented by some of its cells.  Burns and packages   *)
(* are in TuneSession; the server's statistics are left out.               *)
(***************************************************************************)
EXTENDS Integers, Sequences, FiniteSets, SequencesExt, FiniteSetsExt

CONSTANTS
    OutLen,         \* the reply buffer of the boards, in bytes
    Tools,          \* names of tools
    ToolOf(_),      \* what a tool does: [writes, reads, starts, budget], the
                    \* requests it may send, whether the engine may start, and
                    \* how many requests it sends
    NoReply

VARIABLES
    tool,       \* the name of the scenario, and the requests still to come
    turning,    \* engine_running: sync locked and the engine turns
    edits,      \* the fields of the configuration that differ from the defaults
    last        \* the last request, without its bytes, and the answer it got

pagevars == <<tool, turning, edits, last>>

-----------------------------------------------------------------------------
(* The layout of the pages. *)

Width == [bool |-> 1, u8 |-> 1, u16 |-> 2, i16 |-> 2, u32 |-> 4]
F(name, off, kind) == [name |-> name, off |-> off, kind |-> kind]

TableCells(a, b, c, kind) == <<F(a, 0, kind), F(b, 20, kind), F(c, 510, kind)>>
AeFields == <<F("ae_tpsdot", 0, "i16"), F("ae_mapdot", 2, "i16"), F("ae_gain", 4, "u8"),
              F("ae_decay", 6, "u32"), F("ae_lockout", 10, "u32")>>
DfcoFields == <<F("dfco_tps_max", 0, "u8"), F("dfco_map_max", 2, "u16"), F("dfco_rpm_min", 4, "u16"),
                F("dfco_rpm_max", 6, "u16"), F("dfco_delay", 8, "u32"), F("dfco_hyst", 12, "u32")>>
WueFields == <<F("wue_max", 0, "u8"), F("wue_min", 1, "u8"), F("wue_start", 2, "i16"),
               F("wue_end", 4, "i16")>>
AseFields == <<F("ase_percent", 0, "u8"), F("ase_taper", 2, "u32"), F("ase_lockout", 6, "u16")>>
IdleFields == <<F("idle_enable", 0, "bool"), F("idle_duty", 1, "u16"), F("idle_freq", 3, "u16")>>
FanFields == <<F("fan_enable", 0, "bool"), F("fan_on", 1, "i16"), F("fan_off", 3, "i16")>>
ClFields == <<F("cl_enable", 0, "bool"), F("target_afr", 2, "u16"), F("kp", 4, "u16"),
              F("ki", 6, "u16")>>
VeTuneFields == <<F("target_afr", 0, "u16"), F("kp", 2, "u16"), F("ki", 4, "u16"),
                  F("required_fuel", 6, "u16"), F("deadtime", 8, "u16"), F("load_source", 10, "u8"),
                  F("min_pulse", 12, "u16"), F("max_pulse", 14, "u16")>>
LimitsFields == <<F("map_min", 0, "u16"), F("map_max", 2, "u16"), F("tps_min", 4, "u8"),
                  F("tps_max", 5, "u8"), F("clear_time", 6, "u16"), F("triggers", 8, "u8")>>
SensorsFields == <<F("tps_lo", 0, "u16"), F("tps_hi", 2, "u16"), F("map_v0", 4, "u16"),
                   F("map_kpa0", 6, "u16"), F("map_v1", 8, "u16"), F("map_kpa1", 10, "u16"),
                   F("clt_deg0", 12, "i16"), F("iat_ohms7", 104, "u32")>>
AnglesFields == <<F("inj0", 0, "u16"), F("inj15", 30, "u16"), F("tdc0", 32, "u16"),
                  F("tdc15", 62, "u16"), F("tooth0", 64, "u16"), F("cam_timeout", 66, "u16")>>
TriggerFields == <<F("schema", 0, "u16"), F("unlock", 2, "u8"), F("authority", 3, "u8"),
                   F("identity", 4, "u32"), F("hash", 8, "u32"), F("pattern", 12, "u8"),
                   F("teeth", 13, "u8"), F("missing", 14, "u8"), F("speed", 15, "u8"),
                   F("angle", 16, "u16"), F("multiplier", 18, "u8"), F("edge1", 19, "u8"),
                   F("edge2", 20, "u8"), F("secondary", 21, "u8"), F("polarity", 22, "u8"),
                   F("filter", 23, "u8"), F("resync", 24, "bool"), F("skip", 25, "u8"),
                   F("ignition", 26, "u8"), F("injection", 27, "u8"), F("fixed", 28, "u8"),
                   F("fixed_deg", 30, "i16")>>

\* The registry: the length of every page, and the fields it shows.
Page(len, writable, fields) == [len |-> len, writable |-> writable, fields |-> fields]
Registry == [
    fuel |-> Page(512, TRUE, TableCells("ipw0", "ipw10", "ipw255", "u16")),
    ign |-> Page(512, TRUE, TableCells("ign0", "ign10", "ign255", "i16")),
    sensors |-> Page(128, TRUE, SensorsFields),
    ae |-> Page(16, TRUE, AeFields),
    dfco |-> Page(16, TRUE, DfcoFields),
    limits |-> Page(10, TRUE, LimitsFields),
    diag |-> Page(32, FALSE, <<>>),
    diag_log |-> Page(256, FALSE, <<>>),
    angles |-> Page(68, TRUE, AnglesFields),
    wue |-> Page(8, TRUE, WueFields),
    ase |-> Page(8, TRUE, AseFields),
    idle |-> Page(6, TRUE, IdleFields),
    fan |-> Page(6, TRUE, FanFields),
    cl |-> Page(8, TRUE, ClFields),
    snapshot |-> Page(32, FALSE, <<>>),
    expert_trigger |-> Page(48, TRUE, TriggerFields),
    ve_tune |-> Page(16, TRUE, VeTuneFields),
    ve_table |-> Page(512, TRUE, TableCells("ve0", "ve10", "ve255", "u16")),
    afr_table |-> Page(512, TRUE, TableCells("afr0", "afr10", "afr255", "u16"))]

Names(page) == {f.name : f \in Range(Registry[page].fields)}
Touches(f, off, len) == off < f.off + Width[f.kind] /\ f.off < off + len

-----------------------------------------------------------------------------
(* The codecs: little endian, two's complement. *)

ByteOf(f, value, k) == ((IF f.kind = "i16" THEN value % 65536 ELSE value) \div 256^k) % 256

\* What reading a page returns: its fields at their places, zero elsewhere.
FieldsAt == [page \in DOMAIN Registry |->
                [i \in 1..Registry[page].len |->
                    {f \in Range(Registry[page].fields) : Touches(f, i - 1, 1)}]]
read_page(cfg, page) ==
    [i \in 1..Registry[page].len |->
        IF FieldsAt[page][i] = {} THEN 0
        ELSE LET f == CHOOSE g \in FieldsAt[page][i] : TRUE IN ByteOf(f, cfg[f.name], i - 1 - f.off)]

ValueOf(f, image) ==
    LET raw == FoldLeft(LAMBDA sum, k : sum + image[f.off + k] * 256^(k - 1), 0,
                        [k \in 1..Width[f.kind] |-> k])
    IN  CASE f.kind = "bool" -> IF raw = 0 THEN 0 ELSE 1
          [] f.kind = "i16" -> IF raw >= 32768 THEN raw - 65536 ELSE raw
          [] OTHER -> raw

\* The pulse-width bounds of the VE tune page are shown, never written.
Shown == {"min_pulse", "max_pulse"}
Decode(page, image) ==
    LET fieldOf(n) == CHOOSE f \in Range(Registry[page].fields) : f.name = n
    IN  [n \in Names(page) \ Shown |-> ValueOf(fieldOf(n), image)]

AfrInRange(target) == target \in 100..220

AeSound(c) == c.ae_gain <= 100 /\ c.ae_decay # 0
DfcoSound(c) == c.dfco_tps_max <= 100 /\ c.dfco_rpm_min # 0 /\ c.dfco_rpm_max >= c.dfco_rpm_min
WueSound(c) == c.wue_max <= 100 /\ c.wue_min <= 100 /\ c.wue_start < c.wue_end
AseSound(c) == c.ase_percent <= 100 /\ c.ase_taper # 0
IdleSound(c) == c.idle_duty <= 1000 /\ c.idle_freq # 0
FanSound(c) == c.fan_on > c.fan_off
ClSound(c) == AfrInRange(c.target_afr)
VeTuneSound(c) == AfrInRange(c.target_afr) /\ c.load_source <= 1

LimitsSound(c) ==
    /\ c.map_min # 0 /\ c.map_max > c.map_min
    /\ c.tps_max <= 100 /\ c.tps_max > c.tps_min
    /\ c.clear_time # 0
    /\ c.triggers <= 3
SensorsSound(c) == c.tps_lo < c.tps_hi /\ c.map_v1 > c.map_v0 /\ c.map_kpa1 > c.map_kpa0 /\ c.map_v1 <= 5000
AnglesSound(c) == c.inj0 <= 3600 /\ c.inj15 <= 3600 /\ c.tdc0 <= 7200 /\ c.tdc15 <= 7200 /\ c.tooth0 <= 3600

\* validate_expert_trigger_page for a trusted page, and the same rules again
\* in ExpertTriggerCalibration::validate; authority 3 is a certified profile.
TriggerSound(c) ==
    /\ c.schema = 1 /\ c.unlock <= 1 /\ c.authority <= 4
    /\ c.pattern <= 3 /\ c.speed <= 1 /\ c.edge1 <= 1 /\ c.edge2 <= 1 /\ c.secondary <= 5
    /\ c.polarity <= 1 /\ c.filter <= 3 /\ c.ignition <= 3 /\ c.injection <= 4 /\ c.fixed <= 1
    /\ c.authority = 1 => c.unlock = 1
    /\ c.authority = 3 => c.identity # 0 /\ c.hash # 0 /\ c.unlock = 0
    /\ IF c.pattern = 0 THEN c.missing \in 1..(c.teeth - 1) ELSE c.teeth # 0 /\ c.missing = 0
    /\ c.angle <= 7200 /\ c.multiplier \in 1..8 /\ c.skip <= 16
    /\ (c.resync = 1 \/ c.ignition = 3 \/ c.injection = 4) => c.secondary # 0
    /\ c.fixed = 1 => c.fixed_deg \in -100..600

-----------------------------------------------------------------------------
(* The page store. *)

DefaultConfig == [
    ipw0 |-> 1000, ipw10 |-> 1000, ipw255 |-> 1000, ign0 |-> 15, ign10 |-> 15, ign255 |-> 15,
    ve0 |-> 100, ve10 |-> 100, ve255 |-> 100, afr0 |-> 147, afr10 |-> 147, afr255 |-> 147,
    tps_lo |-> 200, tps_hi |-> 3800, map_v0 |-> 500, map_kpa0 |-> 100, map_v1 |-> 4500,
    map_kpa1 |-> 2500, clt_deg0 |-> -40, iat_ohms7 |-> 3500,
    ae_tpsdot |-> 150, ae_mapdot |-> 80, ae_gain |-> 15, ae_decay |-> 400, ae_lockout |-> 150,
    dfco_tps_max |-> 2, dfco_map_max |-> 30, dfco_rpm_min |-> 1500, dfco_rpm_max |-> 7000,
    dfco_delay |-> 200, dfco_hyst |-> 300,
    wue_start |-> -20, wue_end |-> 60, wue_max |-> 40, wue_min |-> 0,
    ase_percent |-> 20, ase_taper |-> 5000, ase_lockout |-> 2000,
    idle_enable |-> 0, idle_duty |-> 0, idle_freq |-> 100, fan_enable |-> 0, fan_on |-> 95, fan_off |-> 90,
    cl_enable |-> 0, target_afr |-> 147, kp |-> 0, ki |-> 0,
    required_fuel |-> 1000, deadtime |-> 800, load_source |-> 0, min_pulse |-> 500, max_pulse |-> 20000,
    map_min |-> 100, map_max |-> 3000, tps_min |-> 0, tps_max |-> 100, clear_time |-> 3, triggers |-> 0,
    inj0 |-> 0, inj15 |-> 0, tdc0 |-> 0, tdc15 |-> 0, tooth0 |-> 0, cam_timeout |-> 500,
    schema |-> 1, unlock |-> 0, authority |-> 0, identity |-> 0, hash |-> 0, pattern |-> 0, teeth |-> 60,
    missing |-> 2, speed |-> 0, angle |-> 0, multiplier |-> 1, edge1 |-> 0, edge2 |-> 0, secondary |-> 0,
    polarity |-> 0, filter |-> 2, resync |-> 0, skip |-> 2, ignition |-> 1, injection |-> 1, fixed |-> 0,
    fixed_deg |-> 100]

Put(cfg, fields) == [n \in DOMAIN cfg |-> IF n \in DOMAIN fields THEN fields[n] ELSE cfg[n]]
Clamp(v, lo, hi) == IF v < lo THEN lo ELSE IF v > hi THEN hi ELSE v
Written(cfg) == [ok |-> TRUE, cfg |-> cfg]
Refused(cfg) == [ok |-> FALSE, cfg |-> cfg]

\* VeTunePage::apply_limits.
apply_limits(c) ==
    [c EXCEPT !.required_fuel = Clamp(@, 500, 20000), !.deadtime = Clamp(@, 0, 10000)]

\* Mutant of write_afr_table: the cells are not checked.
write_afr_table_unchecked(cfg, image) ==
    LET sent == Decode("afr_table", image)
    IN  Written([Put(cfg, sent) EXCEPT !.target_afr = sent["afr0"]])

\* The AFR table is decoded into the live table cell by cell: the cells
\* before the first one out of range are written, and then the write is
\* refused.  An accepted table also moves the closed-loop target.
write_afr_table(cfg, image) ==
    LET sent == Decode("afr_table", image)
        kept(f) == \A g \in Range(Registry["afr_table"].fields) : g.off <= f.off => AfrInRange(sent[g.name])
        stored == {f.name : f \in {g \in Range(Registry["afr_table"].fields) : kept(g)}}
        table == [n \in DOMAIN cfg |-> IF n \in stored THEN sent[n] ELSE cfg[n]]
    IN  IF stored = Names("afr_table") THEN Written([table EXCEPT !.target_afr = sent["afr0"]])
        ELSE Refused(table)

\* A store decodes and checks the page before it assigns any field of it.
Store(cfg, sent, sound) == IF sound THEN Written(Put(cfg, sent)) ELSE Refused(cfg)

write_enrichment_page(cfg, page, image) ==
    LET sent == Decode(page, image)
    IN  Store(cfg, sent, CASE page = "ae" -> AeSound(sent) [] page = "dfco" -> DfcoSound(sent)
                          [] page = "wue" -> WueSound(sent) [] page = "ase" -> AseSound(sent))

ActuatorPageStore(cfg, page, image) ==
    LET sent == Decode(page, image)
    IN  Store(cfg, sent, CASE page = "idle" -> IdleSound(sent) [] page = "fan" -> FanSound(sent)
                          [] page = "cl" -> ClSound(sent))

FuelTunePageStore(cfg, page, image) ==
    LET sent == Decode(page, image)
    IN  CASE page = "ve_tune" -> Store(cfg, apply_limits(sent), VeTuneSound(sent))
          [] page = "ve_table" -> Store(cfg, sent, TRUE)
          [] page = "afr_table" -> write_afr_table(cfg, image)

SetupPageStore(cfg, page, image) ==
    LET sent == Decode(page, image)
    IN  Store(cfg, sent, CASE page = "limits" -> LimitsSound(sent) [] page = "sensors" -> SensorsSound(sent))

AnglesPageStore(cfg, page, image) ==
    LET sent == Decode(page, image) IN Store(cfg, sent, AnglesSound(sent))

\* PersistedTsPageStore takes the trigger page before the EcuPageStore sees
\* it, and compares it with the stored one.
Transition(c, current) ==
    /\ c.authority = 3 => \A n \in DOMAIN c : c[n] = current[n]
    /\ current.authority = 3 /\ c.authority # 3 => c.unlock = 1

write_expert_trigger(cfg, image) ==
    LET sent == Decode("expert_trigger", image)
    IN  Store(cfg, sent, TriggerSound(sent) /\ Transition(sent, cfg))

\* ExpertTriggerCalibration::decode_record also wants the flag byte to be 0
\* or 1 and the reserved bytes zero; the session compares with its active
\* copy, which no board ever replaces.
SessionTakes(image) ==
    LET sent == Decode("expert_trigger", image)
    IN  /\ image[25] <= 1
        /\ \A i \in {30} \cup 33..48 : image[i] = 0
        /\ TriggerSound(sent) /\ Transition(sent, DefaultConfig)

\* TsPackageCommandStore::write_page: the store has the page by the time the
\* session refuses it.
write_trigger_page(cfg, image) ==
    LET stored == write_expert_trigger(cfg, image)
    IN  [stored EXCEPT !.ok = @ /\ SessionTakes(image)]

FuelIgnPageStore(cfg, page, image) == Store(cfg, Decode(page, image), TRUE)

\* EcuPageStore::write_page, but for the trigger page.
write_page(cfg, page, image) ==
    CASE page \in {"fuel", "ign"} -> FuelIgnPageStore(cfg, page, image)
      [] page \in {"ae", "dfco", "wue", "ase"} -> write_enrichment_page(cfg, page, image)
      [] page \in {"idle", "fan", "cl"} -> ActuatorPageStore(cfg, page, image)
      [] page \in {"ve_tune", "ve_table", "afr_table"} -> FuelTunePageStore(cfg, page, image)
      [] page \in {"limits", "sensors"} -> SetupPageStore(cfg, page, image)
      [] page = "angles" -> AnglesPageStore(cfg, page, image)
      [] page = "expert_trigger" -> write_trigger_page(cfg, image)
      [] ~Registry[page].writable -> Refused(cfg)

\* The live configuration, by its differences from the defaults.
Live(name) == IF name \in DOMAIN edits THEN edits[name] ELSE DefaultConfig[name]
config == [n \in DOMAIN DefaultConfig |-> Live(n)]
Edits(cfg) == [n \in {k \in DOMAIN cfg : cfg[k] # DefaultConfig[k]} |-> cfg[n]]

-----------------------------------------------------------------------------
(* The server. *)

\* What the tool means, and the payload after the page byte it sends.
Whole(page, image) == [page |-> page, form |-> "whole", off |-> 0, bytes |-> image]
Part(page, off, bytes) == [page |-> page, form |-> "part", off |-> off, bytes |-> bytes]
Le16(n) == <<n % 256, n \div 256>>
Payload(req) == IF req.form = "whole" THEN req.bytes
                ELSE Le16(req.off) \o Le16(Len(req.bytes)) \o req.bytes

\* Mutant of WritePayload: the rest of the page is not read before it is
\* written back.
WritePayloadBlank(cfg, page, payload) ==
    LET n == Registry[page].len
        off == payload[1] + 256 * payload[2]
        len == payload[3] + 256 * payload[4]
    IN  IF Len(payload) = n THEN write_page(cfg, page, payload)
        ELSE IF len = 0 \/ Len(payload) # 4 + len \/ off + len > n THEN Refused(cfg)
        ELSE write_page(cfg, page, [i \in 1..n |-> IF i \in (off + 1)..(off + len) THEN payload[4 + i - off]
                                                   ELSE 0])

\* The server tells the two forms apart by the length of the payload alone.
WritePayload(cfg, page, payload) ==
    LET n == Registry[page].len
        off == payload[1] + 256 * payload[2]
        len == payload[3] + 256 * payload[4]
        data == SubSeq(payload, 5, Len(payload))
        image == read_page(cfg, page)
    IN  IF Len(payload) = n THEN write_page(cfg, page, payload)
        ELSE IF Len(payload) < 4 THEN Refused(cfg)
        ELSE IF len = 0 \/ Len(data) # len \/ off + len > n THEN Refused(cfg)
        ELSE write_page(cfg, page, [i \in 1..n |-> IF i \in (off + 1)..(off + len) THEN data[i - off]
                                                   ELSE image[i]])

\* encode_reply: no reply leaves when it does not fit in the buffer.
Reply(answer, len) == IF len + 7 > OutLen THEN NoReply ELSE answer

Session == ToolOf(tool.name)
Asked(req, reply) == [page |-> req.page, form |-> req.form, off |-> req.off, len |-> Len(req.bytes),
                      reply |-> reply]

WritePage ==
    \E req \in Session.writes :
        \E result \in {WritePayload(config, req.page, Payload(req))} :
        LET ok == ~turning /\ result.ok
        IN  /\ tool.budget > 0
            /\ tool' = [tool EXCEPT !.budget = @ - 1]
            /\ edits' = IF turning THEN edits ELSE Edits(result.cfg)
            /\ last' = Asked(req, Reply(IF ok THEN "OK" ELSE "ERR", 3))
            /\ UNCHANGED turning

ReadPage ==
    \E req \in Session.reads :
        LET n == Registry[req.page].len
            len == IF req.form = "whole" THEN n ELSE Len(req.bytes)
        IN  /\ tool.budget > 0
            /\ tool' = [tool EXCEPT !.budget = @ - 1]
            /\ last' = Asked(req, IF req.off + len > n THEN NoReply ELSE Reply("DATA", len))
            /\ UNCHANGED <<turning, edits>>

EngineRunsOrStops ==
    /\ Session.starts
    /\ turning' = ~turning
    /\ UNCHANGED <<tool, edits, last>>

PagesInit ==
    /\ \E name \in Tools : tool = [name |-> name, budget |-> ToolOf(name).budget]
    /\ turning = FALSE
    /\ edits = Edits(DefaultConfig)
    /\ last = Asked(Whole("diag", <<>>), NoReply)

PagesNext == WritePage \/ ReadPage \/ EngineRunsOrStops
PagesSpec == PagesInit /\ [][PagesNext]_pagevars

-----------------------------------------------------------------------------
(* What the pages promise. *)

PagesInUse == {req.page : req \in Session.writes}

\* Whatever the tool has written before, the page store accepts every page it
\* shows, and taking it back changes nothing: the codecs' ranges hold of the
\* live configuration, so no consumer meets a zero decay time, a pair of
\* limits in the wrong order or a target out of range.  The exception is the
\* AFR table, whose first cell also sets the closed-loop target.
PagesReadBack ==
    \A page \in PagesInUse :
        LET cfg == config
            back == write_page(cfg, page, read_page(cfg, page))
        IN  Registry[page].writable =>
                /\ back.ok
                /\ page # "afr_table" => back.cfg = cfg
                /\ page = "afr_table" => back.cfg = [cfg EXCEPT !.target_afr = cfg.afr0]

Addressed(req) == {f.name : f \in {g \in Range(Registry[req.page].fields) :
                                      req.form = "whole" \/ Touches(g, req.off, req.len)}}
Changed == {n \in DOMAIN edits \cup DOMAIN edits' : Live(n)' # Live(n)}

\* A partial write whose payload has the length of the page is taken for one.
MistakenForWhole(req) == req.form = "part" /\ req.len + 4 = Registry[req.page].len

\* While the engine turns nothing changes, and otherwise a write changes only
\* fields it addresses, with one exception: an AFR table that is accepted
\* also moves the closed-loop target, which is on two other pages.  A write
\* answered with ERR changes nothing, with two: a refused AFR table leaves
\* the cells before its first bad one, never the last, and a trigger page the
\* session refuses stays in the store.  crates/spec/spec_math.md:1670 knows
\* none of the three ("`WritePage` mutates only staged RAM buffer for the
\* addressed page").
WritesAreContained ==
    [][Changed # {} =>
          LET target == IF last'.page = "afr_table" /\ last'.reply = "OK" THEN {"target_afr"} ELSE {}
          IN  /\ ~turning
              /\ ~MistakenForWhole(last') => Changed \subseteq Addressed(last') \cup target
              /\ last'.reply = "ERR" =>
                    \/ last'.page = "expert_trigger"
                    \/ last'.page = "afr_table" /\ Changed \subseteq Names("afr_table") \ {"afr255"}]_pagevars
=============================================================================
