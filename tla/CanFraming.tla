----------------------------- MODULE CanFraming -----------------------------
(***************************************************************************)
(* How CanTransport cuts a message into CAN frames and puts the frames of  *)
(* several senders back together: crates/transport/src/can.rs.             *)
(*                                                                         *)
(* A message is a sender, a class, the bytes of its encoding and a body.   *)
(* Frames and reassembly buffers hold bytes, which do not say where they   *)
(* come from.  History, for the properties: the field `of` of a frame and  *)
(* of a slot is the message that the frame, or the start frame that opened *)
(* the slot, was cut from, and rx.whose that of the stream handed up.      *)
(***************************************************************************)
EXTENDS Integers, Sequences, SequencesExt

CONSTANTS
    MaxCanData,      \* bytes of a frame: MAX_CAN_DATA
    ReasmBuf,        \* bytes of a reassembly buffer: REASM_BUF
    Slots,           \* the reassembly slots, 1 .. RX_REASSEMBLY_SLOTS
    TidMod,          \* transfer ids, 0 .. 63 in the code
    Messages,        \* [from, class, bytes, body]
    Garbled,         \* what the decoder makes of bytes that no message encodes to
    None

ASSUME FrameAssumption == MaxCanData \in Nat /\ MaxCanData > 5
ASSUME SlotsAssumption == Slots \subseteq Nat
ASSUME TidAssumption == TidMod \in Nat \ {0}
\* The encoding can be decoded.
ASSUME EncodingAssumption == \A m, k \in Messages : m.bytes = k.bytes => m = k

\* CanMessageClass::arbitration_id; a smaller id wins the bus.
ArbitrationId ==
    [Fault |-> 128, ResetCommand |-> 80, EngineControlCommand |-> 96, TriggerTiming |-> 256,
     SensorData |-> 512, GpsData |-> 544, ExternalEgtData |-> 560, FuelTable |-> 768,
     IgnitionTable |-> 784, EngineConfig |-> 1024, InjectorConfig |-> 1040,
     CalibrationCommand |-> 1056, Obd2Request |-> 1072, Obd2Response |-> 1088,
     Heartbeat |-> 1792]

MessageClasses == DOMAIN ArbitrationId
RouteFor(m) == ArbitrationId[m.class]

Devices == [bus_off : BOOLEAN, recovering : BOOLEAN, ready : BOOLEAN, fails : BOOLEAN]
IsSendBlocked(dev) == dev.bus_off \/ dev.recovering

\* send_frame
SendResult(dev) ==
    IF IsSendBlocked(dev) \/ ~dev.ready THEN "NotReady"
    ELSE IF dev.fails THEN "HardwareError"
    ELSE "Ok"

---------------------------------------------------------------------------
\* Sending.  tx is one call of send: its message, its transfer id and the
\* bytes already on the bus.

\* One bit shifted into a checksum, with the polynomial 16#1021: bits 12, 5, 0.
Toggled(x, k) == IF (x \div 2^k) % 2 = 0 THEN x + 2^k ELSE x - 2^k
ShiftIn(crc, bit) ==
    LET shifted == (2 * crc) % 2^16
    IN  IF (crc \div 2^15 + bit) % 2 = 0 THEN shifted
        ELSE Toggled(Toggled(Toggled(shifted, 12), 5), 0)
ByteIn(crc, byte) ==
    LET bits[k \in 0..8, c \in 0 .. 2^16 - 1] ==
            IF k = 8 THEN c ELSE bits[k + 1, ShiftIn(c, (byte \div 2^(7 - k)) % 2)]
    IN  bits[0, crc]
\* crc16_ccitt
Crc16(bytes) ==
    LET from[k \in 0 .. Len(bytes), crc \in 0 .. 2^16 - 1] ==
            IF k = Len(bytes) THEN crc ELSE from[k + 1, ByteIn(crc, bytes[k + 1])]
    IN  from[0, 2^16 - 1]
Checksum == [m \in Messages |-> Crc16(m.bytes)]

Size(m) == Len(m.bytes)
Chunk(m, sent, n) == SubSeq(m.bytes, sent + 1, sent + n)

IsSingle(m) == Size(m) <= MaxCanData - 1
StartChunk == MaxCanData - 5

\* Mutant of NextFrame: a last chunk that fills its frame is not marked the end.
NextFrameShort(m, tid, sent) ==
    LET remaining == Size(m) - sent
        take == IF IsSingle(m) THEN Size(m)
                ELSE IF sent = 0 THEN StartChunk
                ELSE IF remaining < MaxCanData - 1 THEN remaining ELSE MaxCanData - 1
        kind == IF IsSingle(m) THEN "single"
                ELSE IF sent = 0 THEN "start"
                ELSE IF remaining < MaxCanData - 1 THEN "end" ELSE "cont"
    IN  [kind |-> kind, tid |-> tid, id |-> RouteFor(m), data |-> Chunk(m, sent, take), of |-> m,
         total |-> IF kind = "start" THEN Size(m) ELSE 0,
         crc |-> IF kind = "start" THEN Checksum[m] ELSE 0]

\* The frame that send puts on the bus next, and how many bytes it carries.
NextFrame(m, tid, sent) ==
    LET remaining == Size(m) - sent
        take == IF IsSingle(m) THEN Size(m)
                ELSE IF sent = 0 THEN IF StartChunk < Size(m) THEN StartChunk ELSE Size(m)
                ELSE IF remaining < MaxCanData - 1 THEN remaining ELSE MaxCanData - 1
        kind == IF IsSingle(m) THEN "single"
                ELSE IF sent = 0 THEN "start"
                ELSE IF remaining <= MaxCanData - 1 THEN "end" ELSE "cont"
    IN  [kind |-> kind, tid |-> tid, id |-> RouteFor(m), data |-> Chunk(m, sent, take), of |-> m,
         total |-> IF kind = "start" THEN Size(m) ELSE 0,
         crc |-> IF kind = "start" THEN Checksum[m] ELSE 0]

NextTid(tid) == (tid + 1) % TidMod

---------------------------------------------------------------------------
\* Receiving.  buf is the bytes of a slot up to its len.

EmptySlot == [tid |-> None, id |-> 0, expected |-> 0, crc |-> 0, buf |-> <<>>, of |-> None]
\* The slots, and what the last try_receive returned and noted.
NewReceiver ==
    [slots |-> [s \in Slots |-> EmptySlot], out |-> None, event |-> "None", whose |-> None]

Matching(rx, f) == {s \in Slots : rx.slots[s].tid = f.tid /\ rx.slots[s].id = f.id}
FindSlot(rx, f) == CHOOSE s \in Matching(rx, f) : \A t \in Matching(rx, f) : s <= t
Free(rx) == {s \in Slots : rx.slots[s].tid = None}
FirstFree(rx) == CHOOSE s \in Free(rx) : \A t \in Free(rx) : s <= t

Encoded(bytes) == {m \in Messages : m.bytes = bytes}
Decoded(bytes) == IF Encoded(bytes) = {} THEN Garbled ELSE CHOOSE m \in Encoded(bytes) : TRUE

\* What try_receive returns and notes, and what it is of.
Returned(rx, out, event, of) == [rx EXCEPT !.out = out, !.event = event, !.whose = of]

\* Mutant of RefuseSlot: the slot is not cleared.
RefuseSlotKept(rx, s, event) == Returned(rx, None, event, None)

\* rx_error, and rx_error_for_slot, which also clears the slot
Refuse(rx, event) == Returned(rx, None, event, None)
RefuseSlot(rx, s, event) == [Refuse(rx, event) EXCEPT !.slots[s] = EmptySlot]

ReceiveSingle(rx, f) == Returned(rx, Decoded(f.data), "None", f.of)

ReceiveStart(rx, f) ==
    IF f.total = 0 \/ f.total > ReasmBuf \/ Len(f.data) > f.total THEN Refuse(rx, "None")
    ELSE IF Matching(rx, f) # {} THEN RefuseSlot(rx, FindSlot(rx, f), "DuplicateStart")
    ELSE IF Free(rx) = {} THEN Refuse(rx, "None")
    ELSE [Returned(rx, None, "None", None) EXCEPT
            !.slots[FirstFree(rx)] = [tid |-> f.tid, id |-> f.id, expected |-> f.total,
                                      crc |-> f.crc, buf |-> f.data, of |-> f.of]]

\* Mutant of Complete: the checksum is not compared.
CompleteUnchecked(rx, s, slot) ==
    [Returned(rx, Decoded(slot.buf), "InOrderComplete", slot.of) EXCEPT !.slots[s] = EmptySlot]

\* A complete stream: the checksum decides, and then the decoder.
Complete(rx, s, slot) ==
    IF Len(slot.buf) = slot.expected /\ Crc16(slot.buf) = slot.crc
    THEN [Returned(rx, Decoded(slot.buf), "InOrderComplete", slot.of) EXCEPT !.slots[s] = EmptySlot]
    ELSE RefuseSlot(rx, s, "MissingFragments")

ReceiveContinuation(rx, f) ==
    IF Matching(rx, f) = {} THEN Refuse(rx, "UnexpectedContinuation")
    ELSE LET s == FindSlot(rx, f)
             slot == rx.slots[s]
             remaining == slot.expected - Len(slot.buf)
             n == Len(f.data)
             grown == [slot EXCEPT !.buf = @ \o f.data]
         IN  IF n = 0 \/ n > remaining THEN RefuseSlot(rx, s, "UnexpectedContinuation")
             ELSE IF \/ f.kind = "cont" /\ n = remaining
                     \/ f.kind = "end" /\ n # remaining
             THEN RefuseSlot(rx, s, "MissingFragments")
             ELSE IF f.kind = "end" THEN Complete(rx, s, grown)
             ELSE [Returned(rx, None, "None", None) EXCEPT !.slots[s] = grown]

\* try_receive of the frame f
Receive(rx, f) ==
    CASE f.kind = "single" -> ReceiveSingle(rx, f)
      [] f.kind = "start" -> ReceiveStart(rx, f)
      [] OTHER -> ReceiveContinuation(rx, f)
=============================================================================
