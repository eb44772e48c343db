---------------------------- MODULE Obd2History ----------------------------
(***************************************************************************)
(* The retained OBD-II diagnostic history (boards/common                   *)
(* transport_service.rs), the diagnostic event log it is fed from          *)
(* (crates/domain diag.rs) and the fault policy of crates/spec fault.rs,   *)
(* as operators on values.                                                 *)
(*                                                                         *)
(* A diagnostic event keeps its code and its timestamp; its source, its    *)
(* context and its start and end times, which nothing reads back, are left *)
(* out.                                                                    *)
(***************************************************************************)
EXTENDS Integers, Sequences, SequencesExt, FiniteSets

CONSTANTS
    DtcCap,         \* OBD2_STORED_DTC_CAP
    LogSize,        \* DIAG_LOG_ENTRY_COUNT
    HeadMod,        \* the log's head wraps here: a u8
    Absent          \* Option::None

ASSUME HistoryAssumption == DtcCap \in Nat \ {0} /\ LogSize \in Nat \ {0} /\ HeadMod \in Nat \ {0}

FaultCodes == {"None", "SyncLoss", "SensorOutOfRange", "CalibrationInvalid", "SafetyCut",
               "ActuatorFault"}
Severities == {"Info", "Warning", "Critical"}
CancelReasons == {"Manual", "SyncLoss", "SafetyShutdown", "Commit", "Timeout"}
FaultStates == [fault : FaultCodes, severity : Severities, cancel : CancelReasons]
NoFault == [fault |-> "None", severity |-> "Info", cancel |-> "Manual"]

DiagCodes ==
    {"MapRange", "TpsRange", "CamMissing", "LowVoltage", "Overvoltage", "MapFailureHighLoad",
     "TpsMapPlausibility", "KnockDetected", "PersistCrcFault", "OilPressureLow",
     "FuelPressureLow", "LambdaInvalid"}

Event(code, at) == [code |-> code, at |-> at]
Option(S) == S \cup {Absent}

(***************************************************************************)
(* DiagLog: a ring that overwrites its oldest entry; head is a u8.         *)
(***************************************************************************)
NewDiagLog == [events |-> [i \in 0 .. LogSize - 1 |-> Absent], head |-> 0]

PushLog(log, e) ==
    [events |-> [log.events EXCEPT ![log.head % LogSize] = e], head |-> (log.head + 1) % HeadMod]

\* The log as the history reads it: array order, not order of arrival.
LogEvents(log) ==
    SelectSeq([i \in 1 .. LogSize |-> log.events[i - 1]], LAMBDA e : e # Absent)

(***************************************************************************)
(* The fault policy: the specification's, which is also the runtime's, and *)
(* the one the board's telemetry reports a fault transition with.          *)
(***************************************************************************)
SpecFaultAction(f) ==
    IF f.fault = "None" THEN "None"
    ELSE IF f.cancel = "SafetyShutdown" \/ f.severity = "Critical" \/ f.fault = "SafetyCut"
    THEN "Shutdown"
    ELSE IF f.severity = "Warning" \/ f.fault = "SensorOutOfRange" THEN "LimpHome"
    ELSE "ObserveOnly"

BoardFaultAction(f) ==
    IF f.fault = "None" THEN "None"
    ELSE IF f.cancel = "SafetyShutdown" \/ f.severity = "Critical" THEN "Shutdown"
    ELSE IF f.severity = "Warning" \/ f.fault = "SensorOutOfRange" THEN "LimpHome"
    ELSE "ObserveOnly"

NoTransition ==
    [changed |-> FALSE, at |-> 0, event |-> "None", action |-> "None",
     previous |-> NoFault, current |-> NoFault]

FaultTransition(at, previous, current) ==
    [changed |-> TRUE, at |-> at,
     event |-> CASE previous.fault = "None" /\ current.fault # "None" -> "FaultEntered"
                 [] previous.fault # "None" /\ current.fault = "None" -> "FaultCleared"
                 [] OTHER -> "FaultUpdated",
     action |-> IF current.fault = "None" THEN "Cleared" ELSE BoardFaultAction(current),
     previous |-> previous, current |-> current]

DiagCodeOf(fault) ==
    [SyncLoss |-> "CamMissing", SensorOutOfRange |-> "MapRange",
     CalibrationInvalid |-> "PersistCrcFault", SafetyCut |-> "MapFailureHighLoad",
     ActuatorFault |-> "TpsMapPlausibility"][fault]

\* obd2_diag_event_from_runtime_fault
EventOfFault(f, source) ==
    IF SpecFaultAction(f) = "None" THEN Absent ELSE Event(DiagCodeOf(f.fault), source.at)

\* obd2_diag_event_from_fault_transition: a cleared fault is not an event.
EventOfTransition(t) ==
    IF t.changed /\ t.event \in {"FaultEntered", "FaultUpdated"} /\ SpecFaultAction(t.current) # "None"
    THEN Event(DiagCodeOf(t.current.fault), t.at)
    ELSE Absent

(***************************************************************************)
(* Obd2RetainedDiagnosticHistory.  A message is a record of the OBD-II     *)
(* sensor data with the time of its capture, at.                           *)
(***************************************************************************)
NewHistory(source) ==
    [source |-> source, frozen |-> Absent, stored |-> <<>>, freezeDtc |-> Absent,
     freezeEvent |-> Absent, current |-> Absent, lastFault |-> "None",
     lastCode |-> Absent, lastAt |-> 0]

PushStoredDtc(h, code) ==
    IF code \in Range(h.stored) \/ Len(h.stored) >= DtcCap THEN h
    ELSE [h EXCEPT !.stored = Append(@, code)]

ObserveDiagEvent(h, e) ==
    IF h.lastCode = e.code /\ h.lastAt = e.at THEN h
    ELSE LET first == h.freezeDtc = Absent
         IN  [PushStoredDtc(h, e.code) EXCEPT
                 !.freezeDtc = IF first THEN e.code ELSE @,
                 !.freezeEvent = IF first THEN e ELSE @,
                 !.frozen = IF first THEN h.source ELSE @,
                 !.lastCode = e.code, !.lastAt = e.at]

\* observe_live_diagnostic: the events handed over, or, when there are none,
\* the current runtime fault if it is not the last one observed.
ObserveLiveDiagnostic(h, fault, current, events, source) ==
    LET own == EventOfFault(fault, source)
        sourced == [h EXCEPT !.source = source,
                             !.current = IF current # Absent THEN current ELSE own]
        seen == IF events = <<>> /\ own # Absent /\ fault.fault # h.lastFault
                THEN <<own>> ELSE events
    IN  [FoldLeft(ObserveDiagEvent, sourced, seen) EXCEPT !.lastFault = fault.fault]

ClearHistory(h) == NewHistory(h.source)

\* What PID 0x01 answers of the history.
Readiness(h) == [mil |-> h.current # Absent, dtcs |-> Len(h.stored)]

(***************************************************************************)
(* The sidecar: a header, and the snapshot as words in the order of the    *)
(* encoder.  The optional fields are a flag or a zero code; the array of   *)
(* stored codes is written whole.                                          *)
(***************************************************************************)
ToU8 ==
    [MapRange |-> 1, TpsRange |-> 2, CamMissing |-> 3, LowVoltage |-> 4, Overvoltage |-> 5,
     MapFailureHighLoad |-> 6, TpsMapPlausibility |-> 7, KnockDetected |-> 8,
     PersistCrcFault |-> 9, OilPressureLow |-> 10, FuelPressureLow |-> 11, LambdaInvalid |-> 12]
FromU8(n) == CHOOSE c \in DiagCodes : ToU8[c] = n
FaultToU8 ==
    [None |-> 0, SyncLoss |-> 1, SensorOutOfRange |-> 2, CalibrationInvalid |-> 3,
     SafetyCut |-> 4, ActuatorFault |-> 5]
FaultFromU8(n) == CHOOSE c \in FaultCodes : FaultToU8[c] = n

CodeWord(c) == IF c = Absent THEN 0 ELSE ToU8[c]
CodeOf(n) == IF n = 0 THEN Absent ELSE FromU8(n)
EventWords(e) == IF e = Absent THEN <<0, 0, 0>> ELSE <<1, ToU8[e.code], e.at>>
EventFrom(w) == IF w[1] = 0 THEN Absent ELSE Event(FromU8(w[2]), w[3])
SourceWords(m) == <<m.tps, m.iat, m.clt, m.volt, m.at>>
SourceFrom(w) == [tps |-> w[1], iat |-> w[2], clt |-> w[3], volt |-> w[4], at |-> w[5]]

Encode(h) ==
    SourceWords(h.source)
      \o (IF h.frozen = Absent THEN <<0, 0, 0, 0, 0, 0>> ELSE <<1>> \o SourceWords(h.frozen))
      \o [i \in 1 .. DtcCap |-> IF i <= Len(h.stored) THEN ToU8[h.stored[i]] ELSE 1]
      \o <<Len(h.stored), CodeWord(h.freezeDtc)>>
      \o EventWords(h.current) \o EventWords(h.freezeEvent)
      \o <<FaultToU8[h.lastFault], CodeWord(h.lastCode), h.lastAt>>

Decode(w) ==
    LET n == IF w[12 + DtcCap] > DtcCap THEN DtcCap ELSE w[12 + DtcCap]
        t == SubSeq(w, 13 + DtcCap, Len(w))
    IN  [source |-> SourceFrom(SubSeq(w, 1, 5)),
         frozen |-> IF w[6] = 0 THEN Absent ELSE SourceFrom(SubSeq(w, 7, 11)),
         stored |-> [i \in 1 .. n |-> FromU8(w[11 + i])],
         freezeDtc |-> CodeOf(t[1]),
         current |-> EventFrom(SubSeq(t, 2, 4)), freezeEvent |-> EventFrom(SubSeq(t, 5, 7)),
         lastFault |-> FaultFromU8(t[8]), lastCode |-> CodeOf(t[9]), lastAt |-> t[10]]

\* The sidecar in the store.  An area that was erased, or written by another
\* version, holds no history.
SidecarHeader(h) == <<843334223, 1, Len(Encode(h))>>
Sidecar(h) == SidecarHeader(h) \o Encode(h)
Erased(h) == [i \in 1 .. Len(Sidecar(h)) |-> -1]
FromSidecar(w) ==
    LET h == Decode(SubSeq(w, 4, Len(w)))
    IN  IF w[1] = 843334223 /\ w[2] = 1 /\ w[3] = Len(w) - 3 THEN h ELSE Absent
============================================================================
