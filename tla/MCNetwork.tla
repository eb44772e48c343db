------------------------------ MODULE MCNetwork -----------------------------
(***************************************************************************)
(* Instances of CanBus and of DiagAdapter.  CanBus: fragmented streams     *)
(* over two slots with losses, and single-frame heartbeats over a roster   *)
(* of two with a short log.  DiagAdapter: a log of two events and a        *)
(* history of two codes.                                                   *)
(***************************************************************************)
EXTENDS CanBus, DiagAdapter

CONSTANTS a, b, c

NodeId == (a :> 1) @@ (b :> 2) @@ (c :> 3)

\* The encoding of a heartbeat: variant, node, uptime (least significant byte
\* first, `more` bytes after that), status, errors, CPU load.
Hb(n, more, uptime, errors) ==
    [from |-> n, class |-> "Heartbeat",
     bytes |-> <<17, NodeId[n], uptime>> \o [i \in 1 .. more |-> 1] \o <<0, errors, 0>>,
     body |-> [node |-> n, uptime |-> uptime, status |-> "Ok", errors |-> errors]]
Table(n, len, v) ==
    [from |-> n, class |-> "FuelTable", bytes |-> <<13>> \o [i \in 1 .. len - 1 |-> v], body |-> v]

\* A heartbeat no longer fits a frame once its uptime takes three bytes.  Those
\* of LongBeats end in the same bytes, those of UnlikeBeats differ in the load.
LongBeats(n) == {Hb(n, 2, 9, 0), Hb(n, 2, 8, 0)}
UnlikeBeats(n) == {Hb(n, 2, 9, 0), [Hb(n, 2, 8, 0) EXCEPT !.bytes[8] = 1]}
Tables(n) == {Table(n, 17, 1)}

\* Fragmented heartbeats beside a table: the streams share the two slots.
Streams ==
    [sends |-> (a :> UnlikeBeats(a)) @@ (b :> Tables(b)), faults |-> 2, ages |-> {0},
     sweeps |-> {}, reads |-> FALSE, silence |-> {}]

\* Two modules with the same class: their streams may collide.
Colliding ==
    [sends |-> (a :> LongBeats(a)) @@ (b :> UnlikeBeats(b)), faults |-> 1, ages |-> {0},
     sweeps |-> {}, reads |-> FALSE, silence |-> {}]

ShortBeats(n) == {Hb(n, 1, 3, 0), Hb(n, 1, 9, 1)}

\* A module whose state changes, one that is only there, and a reader.
Reading ==
    [sends |-> (a :> ShortBeats(a)) @@ (b :> {Hb(b, 1, 9, 0)}), faults |-> 0, ages |-> {0},
     sweeps |-> {2}, reads |-> TRUE, silence |-> {}]

\* More modules than the roster has room for; heartbeats of unknown age.
Crowded ==
    [sends |-> [n \in {a, b, c} |-> {Hb(n, 1, 9, 0)}], faults |-> 0, ages |-> {0, Unknown},
     sweeps |-> {1}, reads |-> FALSE, silence |-> {a}]

\* No module sends.
Silent ==
    [sends |-> <<>>, faults |-> 0, ages |-> {0}, sweeps |-> {}, reads |-> FALSE, silence |-> {}]

MCMessages ==
    Tables(b) \cup UNION {LongBeats(n) \cup UnlikeBeats(n) \cup ShortBeats(n)
                             \cup {Hb(n, 1, 9, 0)} : n \in {a, b, c}}
MCScenarios == {Streams, Colliding, Reading, Crowded, Silent}

----------------------------------------------------------------------------
Snap ==
    [map |-> 500, tps |-> 0, iat |-> 250, clt |-> 0, vbatt |-> 12360, knock |-> 0,
     knockValid |-> FALSE, lambda |-> 0, lambdaValid |-> FALSE]
Pressed == [oil |-> 100, fuel |-> 100, oilValid |-> TRUE, fuelValid |-> FALSE]
Ident == [name |-> 6, vin |-> 17, calibration |-> 9, key |-> TRUE, flash |-> FALSE]
FaultState(f, severity, reason) == [fault |-> f, severity |-> severity, cancel |-> reason]
ClearRequest == [service |-> 4, pid |-> Absent]

\* Readings that leave their range and come back, over a timer that wraps.
Ranges ==
    [snaps |-> {Snap, [Snap EXCEPT !.map = 50, !.tps = 12000]}, pressures |-> {Pressed},
     faults |-> {}, requests |-> {ClearRequest, [service |-> 7, pid |-> Absent]}, id |-> Ident,
     cuts |-> {}, fails |-> {}, service |-> "multi", wrap |-> 5]

\* The service for Mode 04 alone.
ClearOnly == [Ranges EXCEPT !.service = "clear", !.fails = {"send"}]

\* More conditions than the log and the history have room for.
Levels ==
    [snaps |-> {Snap, [Snap EXCEPT !.vbatt = 5000, !.lambda = 90],
                [Snap EXCEPT !.vbatt = 17000, !.knock = 60, !.knockValid = TRUE]},
     pressures |-> {Pressed, [Pressed EXCEPT !.oil = 1, !.fuel = 1, !.fuelValid = TRUE]},
     faults |-> {}, requests |-> {ClearRequest}, id |-> [Ident EXCEPT !.flash = TRUE],
     cuts |-> {}, fails |-> {"send"}, service |-> "multi", wrap |-> 2]

\* Runtime faults, and ticks that a failing port ends early.
Faults ==
    [snaps |-> {Snap}, pressures |-> {Pressed},
     faults |-> {FaultState("SafetyCut", "Info", "SafetyShutdown"),
                 FaultState("SyncLoss", "Warning", "Manual")},
     requests |-> {ClearRequest},
     id |-> WithProvisioned(Ident, [name |-> 4, vin |-> 20, calibration |-> 0]),
     cuts |-> {}, fails |-> {"port"}, service |-> "multi", wrap |-> 2]

\* Power cuts, a store that was found corrupt, and saves that fail.
Cuts ==
    [snaps |-> {Snap, [Snap EXCEPT !.vbatt = 5000]}, pressures |-> {Pressed}, faults |-> {},
     requests |-> {ClearRequest}, id |-> Ident, cuts |-> {"Corrupt", "Valid"},
     fails |-> {"save"}, service |-> "multi", wrap |-> 2]

\* No request, no reading.
Nothing ==
    [snaps |-> {}, pressures |-> {}, faults |-> {}, requests |-> {}, id |-> Ident, cuts |-> {},
     fails |-> {}, service |-> "multi", wrap |-> 2]

MCDiagScenarios == {Ranges, ClearOnly, Levels, Faults, Cuts, Nothing}

----------------------------------------------------------------------------
VARIABLE part      \* the component this behaviour is about

netVars == <<part, vars, diagVars>>

NetInit ==
    /\ part \in {"can", "diag"}
    /\ Init
    /\ DiagInit
    /\ part # "can" <=> env = Silent
    /\ part # "diag" <=> given = Nothing

CanStep == part = "can" /\ Next /\ UNCHANGED <<part, diagVars>>
DiagStep == part = "diag" /\ DiagNext /\ UNCHANGED <<part, vars>>

NetSpec == NetInit /\ [][CanStep \/ DiagStep]_netVars /\ Fairness
=============================================================================
