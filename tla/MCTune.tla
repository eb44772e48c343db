------------------------------- MODULE MCTune -------------------------------
(***************************************************************************)
(* What a tuning tool meets, for TLC, one part at a time.                  *)
(*                                                                         *)
(* "session": TuneSession, with one body a tool writes, two setup pages    *)
(* (one that its codec can refuse), two tune pages, and the trigger pages  *)
(* between which the validation rules tell.                                *)
(* "pages": TsPages, a tool for each group of pages that share fields,     *)
(* writing single bytes and pairs of bytes at every offset.                *)
(* "board": BoardState, with limits that change under the readings.        *)
(***************************************************************************)
EXTENDS TuneSession, BoardState

Trig(auth, unlocked, id) == [auth |-> auth, unlocked |-> unlocked, id |-> id]
Manual == Trig("ExpertManual", TRUE, 0)
Certified(id) == Trig("CertifiedProfile", FALSE, id)

Body(page, body, sound) == [page |-> page, body |-> body, sound |-> sound]
TriggerPage(t, sound, canonical) ==
    [page |-> "expert_trigger", body |-> t, sound |-> sound, canonical |-> canonical]
Package(ours, sound, t) == [ours |-> ours, sound |-> sound, trig |-> t]

TriggerPages ==
    {TriggerPage(t, TRUE, TRUE) : t \in {DefaultTrigger, Manual, Trig("ExpertManual", FALSE, 0),
                                         Certified(1), Certified(2)}}
    \cup {TriggerPage(Manual, TRUE, FALSE), TriggerPage(Manual, FALSE, FALSE)}
CertifiedPackages == {Package(TRUE, TRUE, Certified(1)), Package(FALSE, TRUE, Certified(1))}

CONSTANTS new

Scenario(b, burns, host, writes, packages) ==
    [backend |-> b, faulty |-> b = "full", burns |-> burns, host |-> host, writes |-> writes,
     packages |-> packages]

\* The trigger and its copies: with a host that also edits and commits, and
\* with burns on either durable store.
ThreeTriggers == {im \in TriggerPages : im.sound /\ im.body # Certified(2)}
Sessions ==
    {Scenario("ram", FALSE, TRUE, ThreeTriggers, {Package(TRUE, TRUE, Certified(1))}),
     Scenario("full", TRUE, TRUE, {TriggerPage(Manual, TRUE, TRUE)}, {}),
     Scenario("full", TRUE, FALSE, ThreeTriggers, {Package(TRUE, TRUE, Certified(1))}),
     Scenario("flash", TRUE, FALSE, TriggerPages, CertifiedPackages)}

\* The burned records, on every back end.
Burns ==
    {Scenario(b, TRUE, FALSE, {Body("fuel", new, TRUE), Body("angles", new, TRUE),
                               Body("angles", new, FALSE), TriggerPage(Manual, TRUE, TRUE),
                               TriggerPage(DefaultTrigger, TRUE, FALSE)}, {}) : b \in Backends}

\* The tune of the runtime, with an AFR table that is refused half way.
Tunes ==
    {Scenario("ram", FALSE, TRUE,
              {Body(p, v, TRUE) : p \in {"ve_table", "afr_table"}, v \in {Default, new}}
              \cup {Body("afr_table", new, FALSE)}, {})}

MCScenarios == Sessions \cup Burns \cup Tunes
BoardScenarios == {s \in Burns : s.backend = "flash"}

-----------------------------------------------------------------------------
Bursts(bytes, n) == UNION {[1..k -> bytes] : k \in 1..n}
Parts(page, offsets, bytes, n) == {Part(page, off, d) : off \in offsets, d \in Bursts(bytes, n)}
Tool(writes, reads, starts, budget) ==
    [writes |-> writes, reads |-> reads, starts |-> starts, budget |-> budget]
TableImage(cells) ==
    [i \in 1..512 |-> CASE i = 1 -> cells[1] [] i = 21 -> cells[2] [] i = 511 -> cells[3] [] OTHER -> 0]
AfrWrites == {Whole("afr_table", TableImage(c)) : c \in [1..3 -> {99, 150}]}
             \cup Parts("afr_table", {0, 20}, {99, 150}, 1)
TriggerOffsets == {0, 2, 3, 12, 13, 14, 17, 18, 21, 24, 25, 26, 27, 28, 30, 31}

MCToolOf(name) ==
    CASE name = "idle" ->
            Tool(Parts("idle", 0..5, {0, 3, 255}, 2),
                 {Part("idle", 1, <<0, 0>>), Whole("fuel", <<>>), Part("fuel", 510, <<0, 0, 0>>)}, TRUE, 2)
      [] name = "fan" -> Tool(Parts("fan", 0..5, {0, 100, 255}, 1), {}, FALSE, 3)
      [] name = "wue" -> Tool(Parts("wue", 0..7, {0, 60, 255}, 1), {}, FALSE, 2)
      [] name = "ase" -> Tool(Parts("ase", 0..7, {0, 1, 101}, 1), {}, FALSE, 2)
      [] name = "ae" -> Tool(Parts("ae", 0..15, {0, 127}, 1), {}, FALSE, 2)
      [] name = "dfco" -> Tool(Parts("dfco", 0..15, {0, 127}, 1), {}, FALSE, 2)
      [] name = "limits" -> Tool(Parts("limits", 0..9, {0, 1, 100}, 1), {}, FALSE, 2)
      [] name = "afr" ->
            Tool(Parts("cl", {2, 4}, {0, 150}, 2) \cup Parts("ve_tune", {0, 7, 9, 10}, {0, 1, 150}, 1)
                 \cup AfrWrites, {}, FALSE, 2)
      [] name = "trigger" -> Tool(Parts("expert_trigger", TriggerOffsets, {0, 1, 3}, 1)
                                  \cup {Part("expert_trigger", 28, <<1, 1>>)}, {}, FALSE, 2)
      [] name = "other" ->
            Tool(Parts("angles", {1, 31, 33, 63, 65}, {14, 28, 255}, 1)
                 \cup Parts("sensors", 0..11, {0, 19}, 1), {}, FALSE, 2)
      [] name = "tables" ->
            Tool({Part(p, 0, <<7>>) : p \in {"diag", "diag_log", "snapshot", "fuel"}}
                 \cup {Part("fuel", 512, <<1>>), Part("idle", 2, <<>>)}
                 \cup {Whole(p, TableImage(<<1, 2, 3>>)) : p \in {"fuel", "ign", "ve_table"}}, {}, FALSE, 1)
      [] name = "ranges" ->
            Tool({Part("limits", 5, <<b>>) : b \in {20, 100}} \cup {Part("limits", 8, <<b>>) : b \in 1..3}
                 \cup {Part("limits", 6, <<1>>), Part("limits", 1, <<3>>), Part("limits", 3, <<3>>),
                       Part("limits", 3, <<1>>)}, {}, FALSE, 2)
      [] name = "absent" -> Tool({}, {}, FALSE, 0)
PageTools == {"idle", "fan", "wue", "ase", "ae", "dfco", "limits", "afr", "trigger", "other", "tables"}
MCTools == PageTools \cup {"ranges", "absent"}

MCEngineFaults == {[fault |-> "None", severity |-> "Info", reason |-> "Manual", sync |-> "LockedCam"],
                   [fault |-> "SafetyCut", severity |-> "Critical", reason |-> "SafetyShutdown", sync |-> "Locked"]}

-----------------------------------------------------------------------------
VARIABLE part

MCInit ==
    /\ part \in {"session", "pages", "board"}
    /\ Init /\ PagesInit /\ BoardInit
    /\ part # "session" => env = CHOOSE s \in Scenarios : TRUE
    /\ tool.name \in CASE part = "pages" -> PageTools [] part = "board" -> {"ranges"} [] OTHER -> {"absent"}

ToolIsDone == part = "pages" /\ tool.budget = 0 /\ UNCHANGED <<part, vars, pagevars, boardvars>>

MCNext ==
    \/ part = "session" /\ Next /\ UNCHANGED <<part, pagevars, boardvars>>
    \/ part = "pages" /\ PagesNext /\ UNCHANGED <<part, vars, boardvars>>
    \/ ToolIsDone
    \/ part = "board" /\ BoardNext /\ UNCHANGED <<part, vars>>

SessionSpec == MCInit /\ part = "session" /\ [][MCNext]_<<part, vars, pagevars, boardvars>>
MCSpec == MCInit /\ [][MCNext]_<<part, vars, pagevars, boardvars>>
=============================================================================
