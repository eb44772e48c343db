----------------------------- MODULE BoardState -----------------------------
(***************************************************************************)
(* BoardEcuState of the RP2040 board (ts_ecu/ts_runtime.rs, ts_pages.rs),  *)
(* and EcuState::process_sensor_update of the compatibility core, which it *)
(* mirrors: the range diagnostics of the two load sensors, the emergency   *)
(* mode they may start, the diagnostic log, and what of it the read-only   *)
(* pages show.  A tool may write the limits page between any two updates.  *)
(***************************************************************************)
EXTENDS TsPages

CONSTANTS
    Second,         \* a second, in units of the timer
    BoardWrap,      \* where the timer, a u32 of microseconds, wraps
    MapReadings,    \* what the converted sensors may read
    TpsReadings,
    Steps,          \* the time between two updates
    LogSize,        \* DIAG_LOG_ENTRY_COUNT
    EngineFaults    \* [fault, severity, reason, sync] of the runtime snapshot

VARIABLES
    board,      \* [map, tps, emergency, log, head]
    timer,
    engine      \* the runtime's fault

boardvars == <<board, timer, engine>>

NoEvent == "None"
Inactive == [active |-> FALSE, since |-> 0]
Latched == [active |-> TRUE, since |-> 0]
Since(t) == (timer' - t) % BoardWrap

\* Limits and triggers of the live configuration.
Oob(sensor, raw) == IF sensor = "map" THEN raw < Live("map_min") \/ raw > Live("map_max")
                    ELSE raw < Live("tps_min") \/ raw > Live("tps_max")
Triggers(sensor) == IF sensor = "map" THEN Live("triggers") % 2 = 1 ELSE Live("triggers") \div 2 = 1

\* clear_time_s as u32 times a million: a release build wraps.
ClearUnits == (Live("clear_time") * Second) % BoardWrap

\* One sensor of process_sensor_update.  The instant at which it came back
\* into range is kept while the sensor leaves it again; zero means unset.
RangeStep(b, sensor, raw) ==
    LET d == b[sensor]
        since == IF d.since = 0 THEN timer' ELSE d.since
    IN  IF Oob(sensor, raw)
        THEN IF d.active THEN b
             ELSE [b EXCEPT ![sensor] = Latched,
                            !.emergency = @ \/ Triggers(sensor)]
        ELSE IF ~d.active THEN b
        ELSE IF Since(since) >= ClearUnits
        THEN [b EXCEPT ![sensor] = Inactive, !.log[b.head + 1] = sensor, !.head = (@ + 1) % LogSize]
        ELSE [b EXCEPT ![sensor].since = since]

\* Mutant of LeaveEmergency: the mode is left only when no sensor triggers it
\* any more, whatever the latches say.
LeaveEmergencyUntriggered(b) == [b EXCEPT !.emergency = @ /\ Live("triggers") # 0]

LeaveEmergency(b) ==
    [b EXCEPT !.emergency = @ /\ \E sensor \in {"map", "tps"} : Triggers(sensor) /\ b[sensor].active]

process_sensor_update ==
    \E map \in MapReadings, tps \in TpsReadings, dt \in Steps :
        /\ timer' = (timer + dt) % BoardWrap
        /\ board' = LeaveEmergency(RangeStep(RangeStep(board, "map", map), "tps", tps))
        /\ UNCHANGED <<engine, pagevars>>

RuntimeFault ==
    /\ \E f \in EngineFaults : engine' = f
    /\ UNCHANGED <<board, timer, pagevars>>

BoardInit ==
    /\ board = [map |-> Inactive, tps |-> Inactive, emergency |-> FALSE,
                log |-> [i \in 1..LogSize |-> NoEvent], head |-> 0]
    /\ timer = 0
    /\ engine = [fault |-> "None", severity |-> "Info", reason |-> "Manual", sync |-> "Unsynced"]

-----------------------------------------------------------------------------
(* What the diagnostics page shows. *)

\* latest_diag_code and last_fault_code_from: the last occupied slot.
latest_diag_code ==
    LET used == {i \in 1..LogSize : board.log[i] # NoEvent}
    IN  IF used = {} THEN NoEvent ELSE board.log[Max(used)]

runtime_fault_action ==
    CASE engine.fault = "None" -> "None"
      [] engine.reason = "SafetyShutdown" \/ engine.severity = "Critical" -> "Shutdown"
      [] engine.severity = "Warning" \/ engine.fault = "SensorOutOfRange" -> "LimpHome"
      [] OTHER -> "ObserveOnly"

current_fault_surface ==
    LET ranged == board.map.active \/ board.tps.active
        code == CASE board.map.active -> "MapRange"
                  [] ~board.map.active /\ board.tps.active -> "TpsRange"
                  [] OTHER -> engine.fault
    IN  [code |-> code,
         severity |-> CASE code = "None" -> "None" [] ranged -> "Warning" [] OTHER -> engine.severity,
         action |-> CASE code = "None" -> "None"
                      [] ranged /\ board.emergency -> "LimpHome"
                      [] ranged /\ ~board.emergency -> "ObserveOnly"
                      [] OTHER -> runtime_fault_action,
         reason |-> IF engine.fault = "None" THEN "Manual" ELSE engine.reason,
         flags |-> {f \in {"Active", "Snapshot", "Emergency", "Log"} :
                      CASE f \in {"Active", "Snapshot"} -> code # "None"
                        [] f = "Emergency" -> board.emergency
                        [] f = "Log" -> latest_diag_code # NoEvent}]

\* The diagnostics page: EcuPageStore::diag_snapshot over the fault surface.
diag_snapshot ==
    [surface |-> current_fault_surface, latest |-> latest_diag_code,
     sync |-> CASE engine.sync = "Unsynced" -> 0 [] engine.sync = "Provisional" -> 1 [] OTHER -> 2,
     phase |-> CASE engine.sync = "Unsynced" -> 0 [] engine.sync = "Provisional" -> 1
                 [] engine.sync = "Locked" -> 2 [] engine.sync = "LockedCam" -> 3,
     cam_seen |-> engine.sync = "LockedCam", authority |-> Live("authority")]

\* The log page: one entry a slot, its severity and action by code and source,
\* which is Sensor for every event of this board.
diag_log_page ==
    [i \in 1..LogSize |->
        IF board.log[i] = NoEvent THEN [code |-> NoEvent, severity |-> "None", action |-> "None"]
        ELSE [code |-> board.log[i], severity |-> "Warning", action |-> "ObserveOnly"]]

\* The snapshot page, refreshed by board_page_store on every access.
build_system_snapshot ==
    LET s == current_fault_surface
    IN  [fault |-> s.code, severity |-> s.severity, reason |-> s.reason, sync |-> engine.sync]

BoardNext == process_sensor_update \/ RuntimeFault \/ (PagesNext /\ UNCHANGED boardvars)
BoardSpec == PagesInit /\ BoardInit /\ [][BoardNext]_<<boardvars, pagevars>>

-----------------------------------------------------------------------------
\* While the board is in emergency mode a load sensor is latched out of range
\* and the tool is told to limp home, however the limits, the triggers and the
\* readings changed since; and the limits never cross, on which Rust's clamp
\* would abort.  The three read-only pages tell one story: a fault has a
\* severity and an action exactly when it is shown, and the log flag is up
\* exactly when the log page has an entry.
FaultPagesAgree ==
    LET s == diag_snapshot.surface
    IN  /\ board.emergency => /\ board.map.active \/ board.tps.active
                              /\ s.action = "LimpHome" /\ {"Active", "Emergency"} \subseteq s.flags
        /\ Live("map_min") <= Live("map_max") /\ Live("tps_min") <= Live("tps_max")
        /\ (s.code = "None") <=> (s.severity = "None")
        /\ (s.code = "None") <=> (s.action = "None")
        /\ build_system_snapshot.fault = s.code /\ build_system_snapshot.reason = s.reason
        /\ ("Log" \in s.flags) <=> \E i \in 1..LogSize : diag_log_page[i].severity # "None"
=============================================================================
