---------------------------- MODULE Obd2Service ----------------------------
(***************************************************************************)
(* What the ECU answers to an OBD-II request: the service surfaces of      *)
(* crates/transport can.rs and the conversions of the sensor data in       *)
(* boards/common transport_service.rs, as operators on values.             *)
(*                                                                         *)
(* A request is [service, pid], pid = Absent when it has no parameter.  An *)
(* answer is [verdict, body]; the verdict of a negative one is its code.   *)
(***************************************************************************)
EXTENDS Obd2History

Pids == {1, 5, 15, 17, 66}
DataPids == Pids \ {1}
InfoTypes == {2, 4, 10, 225, 226}
KeyLifecycle == 225
FlashFault == 226

Smaller(m, n) == IF m < n THEN m ELSE n

\* The ids of a catalogue a discovery block announces, or Absent.
Block(catalogue, start) ==
    LET ids == {id \in catalogue : id > start /\ id <= Smaller(start + 32, 255)}
    IN  IF start % 32 # 0 \/ ids = {} THEN Absent ELSE ids

(***************************************************************************)
(* The current-data message of a capture: zero readings are replaced by    *)
(* defaults, the throttle saturates, and voltages are rounded to a tenth.  *)
(***************************************************************************)
TempOffset(c10, default) ==
    LET t == IF c10 = 0 THEN default ELSE c10
        degrees == IF t < 0 THEN -((-t) \div 10) ELSE t \div 10
    IN  IF degrees + 40 < 0 THEN 0 ELSE Smaller(degrees + 40, 255)

Decivolts(mv) == Smaller((((IF mv = 0 THEN 12500 ELSE mv) + 50) % 65536) \div 100, 255)

SensorMessage(snap, at) ==
    [tps |-> Smaller(snap.tps \div 100, 100), iat |-> TempOffset(snap.iat, 250),
     clt |-> TempOffset(snap.clt, 200), volt |-> Decivolts(snap.vbatt), at |-> at]

DefaultMessage(at) ==
    [tps |-> 0, iat |-> TempOffset(0, 250), clt |-> TempOffset(0, 200), volt |-> Decivolts(0),
     at |-> at]

\* The payload bytes of a data PID, as one number.
Projected(pid, m) ==
    CASE pid = 5 -> m.clt
      [] pid = 15 -> m.iat
      [] pid = 17 -> Smaller((m.tps * 255 + 50) \div 100, 255)
      [] pid = 66 -> m.volt * 100

(***************************************************************************)
(* Dispatch.                                                               *)
(***************************************************************************)
Positive(verdict, body) == [verdict |-> verdict, body |-> body]
ServiceNotSupported == [verdict |-> "ServiceNotSupported", body |-> <<>>]
RequestOutOfRange == [verdict |-> "RequestOutOfRange", body |-> <<>>]
IsPositive(answer) == answer.verdict \notin {"ServiceNotSupported", "RequestOutOfRange"}

\* Two bytes of PID 0x01: the lamp with the count of codes, and the one
\* monitor there is, complete while no condition is current.
ReadinessPayload(r) ==
    <<(IF r.mil THEN 128 ELSE 0) + Smaller(r.dtcs, 127), IF r.mil THEN 33 ELSE 32>>

CurrentDataAnswer(pid, h) ==
    CASE pid # Absent /\ Block(Pids, pid) # Absent -> Positive("Discovery", Block(Pids, pid))
      [] pid = 1 -> Positive("Readiness", ReadinessPayload(Readiness(h)))
      [] pid \in DataPids -> Positive("CurrentData", Projected(pid, h.source))
      [] OTHER -> RequestOutOfRange

FreezeFrameAnswer(pid, h) ==
    IF h.freezeDtc # Absent /\ pid \in DataPids /\ h.frozen # Absent
    THEN Positive("FreezeFrame", Projected(pid, h.frozen))
    ELSE RequestOutOfRange

StoredDtcsAnswer(h) ==
    Positive("StoredDtcs", SubSeq(h.stored, 1, Smaller(Len(h.stored), 3)))

DtcClearAnswer(pid) == IF pid = Absent THEN Positive("DtcClear", <<>>) ELSE RequestOutOfRange

\* The lengths of the segments a payload of the given length is sent in.
SegmentLens(total) == [i \in 1 .. (total + 5) \div 6 |-> Smaller(total - 6 * (i - 1), 6)]

Segmented(total) == Positive("Segmented", SegmentLens(Smaller(total, 17)))

\* Mutant of VehicleInfoAnswer: the flash-fault bit is announced regardless.
VehicleInfoAlwaysAnnounced(pid, id) ==
    CASE pid # Absent /\ Block(InfoTypes, pid) # Absent ->
            Positive("Discovery", Block(InfoTypes, pid))
      [] pid = 2 -> Segmented(id.vin)
      [] pid = 4 -> Segmented(id.calibration)
      [] pid = 10 -> Positive("EcuName", Smaller(id.name, 6))
      [] pid = KeyLifecycle /\ id.key -> Segmented(10)
      [] pid = FlashFault /\ id.flash -> Segmented(6)
      [] OTHER -> RequestOutOfRange

VehicleInfoAnswer(pid, id) ==
    CASE pid # Absent /\ Block(InfoTypes, pid) # Absent ->
            Positive("Discovery", IF id.flash THEN Block(InfoTypes, pid)
                                  ELSE Block(InfoTypes, pid) \ {FlashFault})
      [] pid = 2 -> Segmented(id.vin)
      [] pid = 4 -> Segmented(id.calibration)
      [] pid = 10 -> Positive("EcuName", Smaller(id.name, 6))
      [] pid = KeyLifecycle /\ id.key -> Segmented(10)
      [] pid = FlashFault /\ id.flash -> Segmented(6)
      [] OTHER -> RequestOutOfRange

Dispatch(req, h, id) ==
    CASE req.service = 1 -> CurrentDataAnswer(req.pid, h)
      [] req.service = 2 -> FreezeFrameAnswer(req.pid, h)
      [] req.service = 3 -> StoredDtcsAnswer(h)
      [] req.service = 4 -> DtcClearAnswer(req.pid)
      [] req.service = 9 -> VehicleInfoAnswer(req.pid, id)
      [] OTHER -> ServiceNotSupported

\* The identity the answers are given from: the built-in signature's, and
\* over it whatever a provisioned record has.
WithProvisioned(id, record) ==
    [id EXCEPT !.name = IF record.name > 0 THEN Smaller(record.name, 6) ELSE @,
               !.vin = IF record.vin > 0 THEN Smaller(record.vin, 17) ELSE @,
               !.calibration = IF record.calibration > 0
                               THEN Smaller(record.calibration, 17) ELSE @]
============================================================================
