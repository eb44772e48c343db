-------------------------------- MODULE MCEcu -------------------------------
(* TLC instances of Ecu.  A revolution is CrankRev angle units and takes    *)
(* MinuteUs microseconds at rpm 1.                                          *)
EXTENDS Observability

MCOutputs == {"Injector", "Ignition"} \X {0, 1}
MCGroup == [o \in MCOutputs |-> o[1]]

MCCal ==
    [hard_rev |-> 3, soft_rev |-> 2, rev_hyst |-> 1, launch_rpm |-> 1, launch_cycles |-> 1,
     flat_rpm |-> 2, flat_cycles |-> 0, dfco_entry_rpm |-> 2, dfco_exit_rpm |-> 1,
     dfco_entry_tps |-> 0, dfco_exit_tps |-> 0, dfco_entry_map |-> 0, dfco_delay |-> 2,
     knock_threshold |-> 1, knock_step |-> 1, knock_max |-> 2, knock_recovery |-> 1,
     knock_delay |-> 1]

Profile(kind, events, channels, phased) ==
    [kind |-> kind, events |-> events, injectors |-> channels, coils |-> channels,
     phased |-> phased]

Control(tps, knock, launch, flat, req, ok, pw, dwell) ==
    [rpm |-> 0, angle |-> 0, tps |-> tps, map |-> 0, knock |-> knock, launch |-> launch,
     flat |-> flat, req |-> req, ok |-> ok, pw |-> pw, spark |-> [advance |-> 1, dwell |-> dwell]]

Authority(crank, phase, absolute) == [crank |-> crank, phase |-> phase, absolute |-> absolute]
Lost == Authority("SyncLost", "Unknown", "None")
Geometry == Authority("PrimaryLocked", "CrankOnly360", "GeometryOnly")
Sequential == Authority("PrimaryLocked", "CamValidated720", "ExpertManual")
Invalid == Authority("PrimarySearching", "CrankOnly360", "GeometryOnly")

Request(fault, dirty, fuel, spark) ==
    [fault |-> fault, dirty |-> dirty, fuel |-> fuel, spark |-> spark]
Quiet == Request("None", FALSE, FALSE, FALSE)

Plain(pw, dwell) == Control(1, 0, FALSE, FALSE, FALSE, TRUE, pw, dwell)
AllPorts == {"none", "store", "transport", "watchdog"}

\* Sequential injection and ignition, with every way a tick can fail.
Full ==
    [caller |-> "board", profiles |-> {Profile("FullEcu", 1, 1, TRUE)},
     strategies |-> {"Semantic"}, rpms |-> {1}, angles |-> {0},
     auths |-> {Lost, Sequential}, captures |-> BOOLEAN, arming |-> {},
     controls |-> {Plain(1, 1)}, broken |-> AllPorts, cams |-> BOOLEAN, modes |-> {},
     requests |-> {Quiet, Request("Warning", TRUE, TRUE, FALSE)}]

\* Wasted spark and batch injection at two speeds.
Crank ==
    [caller |-> "board",
     profiles |-> {Profile("IgnitionOnly", 2, 1, FALSE), Profile("InjectionOnly", 2, 2, FALSE)},
     strategies |-> {"Direct"}, rpms |-> {1, 2}, angles |-> {1},
     auths |-> {Lost, Geometry}, captures |-> {TRUE}, arming |-> {},
     controls |-> {Plain(1, 2)}, broken |-> {"none"}, cams |-> BOOLEAN, modes |-> {},
     requests |-> {Quiet, Request("Critical", FALSE, FALSE, FALSE)}]

\* The default profile; launch control cuts and releases.
Legacy ==
    [caller |-> "board", profiles |-> {Profile("Legacy", 0, 1, FALSE)},
     strategies |-> {"Semantic"}, rpms |-> {1}, angles |-> {0},
     auths |-> {Lost, Geometry}, captures |-> {TRUE},
     arming |-> {<<FALSE, FALSE>>, <<TRUE, FALSE>>},
     controls |-> {Plain(2, 2)}, broken |-> {"none"}, cams |-> {}, modes |-> {},
     requests |-> {Quiet}]

Arbiter(controls) ==
    [caller |-> "host", profiles |-> {Profile("FullEcu", 0, 1, FALSE)},
     strategies |-> {"Semantic", "Direct"}, rpms |-> {0, 1, 2, 4}, angles |-> {0},
     auths |-> {Geometry}, captures |-> {}, arming |-> {}, controls |-> controls,
     broken |-> {}, cams |-> {FALSE}, modes |-> {}, requests |-> {Quiet, Request("None", FALSE, TRUE, FALSE)}]

\* Every row of the arbiter but the last two.
Limits == Arbiter({Control(1, 0, FALSE, FALSE, FALSE, TRUE, 1, 1),
                   Control(1, 0, TRUE, FALSE, FALSE, TRUE, 1, 1),
                   Control(1, 0, FALSE, TRUE, FALSE, TRUE, 1, 1),
                   Control(1, 0, FALSE, FALSE, TRUE, TRUE, 1, 1),
                   Control(1, 0, FALSE, FALSE, FALSE, FALSE, 1, 1)})

\* Overrun fuel cut and knock.
Overrun == Arbiter({Control(0, 0, FALSE, FALSE, FALSE, TRUE, 1, 1),
                    Control(1, 0, FALSE, FALSE, FALSE, TRUE, 1, 1),
                    Control(1, 1, FALSE, FALSE, FALSE, TRUE, 1, 1)})

\* Every public call, with the full-size batch.
Calls ==
    [caller |-> "host",
     profiles |-> {Profile("FullEcu", 2, 2, TRUE), Profile("Legacy", 0, 1, FALSE)},
     strategies |-> {"Semantic", "Direct"}, rpms |-> {0, 1}, angles |-> {0},
     auths |-> {NoAuthority, Sequential, Invalid}, captures |-> {}, arming |-> {},
     controls |-> {Control(1, 0, FALSE, FALSE, req, TRUE, 1, 1) : req \in BOOLEAN},
     broken |-> {}, cams |-> BOOLEAN, modes |-> EngineModes,
     requests |-> {Quiet, Request("Critical", FALSE, FALSE, FALSE),
                   Request("Warning", TRUE, FALSE, FALSE), Request("None", FALSE, TRUE, FALSE)}]

\* A warm engine at constant speed that never loses sync.
Steady ==
    [caller |-> "board", profiles |-> {Profile("FullEcu", 1, 1, TRUE)},
     strategies |-> {"Semantic"}, rpms |-> {1}, angles |-> {0},
     auths |-> {Sequential}, captures |-> {TRUE}, arming |-> {}, controls |-> {Plain(1, 1)},
     broken |-> {"none"}, cams |-> {}, modes |-> {}, requests |-> {Quiet}]

MCScenarios == {Full, Crank, Legacy, Limits, Overrun, Calls}
MCSteady == {Steady}
=============================================================================
