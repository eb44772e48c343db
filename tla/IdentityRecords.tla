-------------------------- MODULE IdentityRecords ---------------------------
(***************************************************************************)
(* The identity records of the STM32F4 store and their byte formats.       *)
(*   boards/stm32f4/src/store_support.rs (encode_ and decode_ functions)   *)
(*   boards/stm32f4/src/identity_provisioning.rs (types, field parsing)    *)
(*   boards/common/src/transport_service.rs (normalize_ascii_identity)     *)
(*                                                                         *)
(* A stored record is its fields as the bytes hold them: flag bytes are    *)
(* numbers, a byte left erased is 255.  The magic and version are the kind *)
(* of the record.  Its CRC is left out: records reach the flash whole or   *)
(* not at all (SectorStore).  A name is a sequence of characters.          *)
(***************************************************************************)
EXTENDS Integers, Sequences

CONSTANTS
    Absent,      \* Option::None
    VinLen,      \* capacity of the VIN and calibration id (17)
    BuildLen     \* capacity of the board build identity (6)

Erased255 == 255

HasBit(flags, w) == (flags \div w) % 2 = 1

Weight(b, w) == IF b THEN w ELSE 0

-----------------------------------------------------------------------------
(* Names: letters are upper-cased, anything but letters and digits is      *)
(* dropped, and the result is cut at the capacity.                         *)

Upper(c) == CASE c = "a" -> "A" [] c = "b" -> "B" [] OTHER -> c

Alphanumeric(c) == c \in {"a", "b", "A", "B", "1"}

Cut(s, n) == SubSeq(s, 1, IF Len(s) < n THEN Len(s) ELSE n)

normalize_ascii_identity(input) ==
    LET kept == SelectSeq(input, Alphanumeric)
    IN  Cut([i \in DOMAIN kept |-> Upper(kept[i])], VinLen)

from_ascii(f) ==
    [vin |-> normalize_ascii_identity(f.vin),
     calibration_id |-> normalize_ascii_identity(f.calibration_id),
     build |-> Cut(normalize_ascii_identity(f.build), BuildLen)]

(* The first field that is too long or normalises to nothing, or Absent.   *)
RejectedField(f) ==
    LET r == from_ascii(f)
    IN  CASE Len(f.vin) > VinLen -> "Vin"
          [] Len(f.calibration_id) > VinLen -> "CalibrationId"
          [] Len(f.build) > BuildLen -> "BoardBuildIdentity"
          [] Len(r.vin) = 0 -> "Vin"
          [] Len(r.calibration_id) = 0 -> "CalibrationId"
          [] Len(r.build) = 0 -> "BoardBuildIdentity"
          [] OTHER -> Absent

Lengths(r) == <<Len(r.vin), Len(r.calibration_id), Len(r.build)>>

-----------------------------------------------------------------------------
(* Identity record.                                                        *)

encode_obd2_identity_record(r) ==
    [magic |-> "identity", lengths |-> Lengths(r), text |-> r]

decode_obd2_identity_record(bytes) ==
    IF \/ bytes = Absent
       \/ bytes.lengths[1] > VinLen
       \/ bytes.lengths[2] > VinLen
       \/ bytes.lengths[3] > BuildLen
    THEN Absent ELSE bytes.text

-----------------------------------------------------------------------------
(* Command audit: who asked, whether it was authorised, and the status.    *)

encode_obd2_identity_rejected_field(field) ==
    CASE field = Absent -> 0
      [] field = "Vin" -> 1
      [] field = "CalibrationId" -> 2
      [] field = "BoardBuildIdentity" -> 3

decode_obd2_identity_rejected_field(value) ==
    CASE value \in {0, Erased255} -> Absent
      [] value = 1 -> "Vin"
      [] value = 2 -> "CalibrationId"
      [] value = 3 -> "BoardBuildIdentity"

encode_obd2_identity_command_audit(a) ==
    LET s == a.status IN
    [magic |-> "command_audit",
     request_id |-> a.request_id,
     flags |-> Weight(a.authorized, 1) + Weight(a.authorization_failed, 2)
                 + IF s = Absent THEN 0
                   ELSE 4 + Weight(s.attempted, 8) + Weight(s.accepted, 16)
                          + Weight(s.store_failed, 32),
     field |-> IF s = Absent THEN Erased255
               ELSE encode_obd2_identity_rejected_field(s.rejected_field),
     lengths |-> IF s = Absent \/ s.lengths = Absent
                 THEN [i \in 1 .. 3 |-> Erased255] ELSE s.lengths]

decode_obd2_identity_audit_lengths(lengths) ==
    IF \A i \in 1 .. 3 : lengths[i] = Erased255 THEN Absent ELSE lengths

decode_obd2_identity_command_audit(b) ==
    IF b = Absent THEN Absent
    ELSE [request_id |-> b.request_id,
          authorized |-> HasBit(b.flags, 1),
          authorization_failed |-> HasBit(b.flags, 2),
          status |->
            IF ~HasBit(b.flags, 4) THEN Absent
            ELSE [attempted |-> HasBit(b.flags, 8),
                  accepted |-> HasBit(b.flags, 16),
                  rejected_field |-> decode_obd2_identity_rejected_field(b.field),
                  store_failed |-> HasBit(b.flags, 32),
                  lengths |-> decode_obd2_identity_audit_lengths(b.lengths)]]

-----------------------------------------------------------------------------
(* Provisioning key record.                                                *)

KeyRecord(key, generation, revoked) ==
    [key |-> key, generation |-> generation, last_arm_nonce |-> 0, revoked |-> revoked]

active_key(k) == IF k.revoked THEN Absent ELSE k.key

encode_obd2_identity_provisioning_key_record(k) ==
    [magic |-> "key", flags |-> IF k.revoked THEN 2 ELSE 1,
     generation |-> k.generation, key |-> k.key, last_arm_nonce |-> k.last_arm_nonce]

decode_obd2_identity_provisioning_key_record(b) ==
    IF b = Absent \/ b.flags \notin {1, 2} THEN Absent
    ELSE [key |-> b.key, generation |-> b.generation,
          last_arm_nonce |-> b.last_arm_nonce, revoked |-> HasBit(b.flags, 2)]

-----------------------------------------------------------------------------
(* Key audit.                                                              *)

KeyRejected == {"none", "unauthorized", "rollback", "store"}

encode_obd2_identity_key_audit(a) ==
    [magic |-> "key_audit", request_id |-> a.request_id,
     flags |-> Weight(a.authorized, 1) + Weight(a.accepted, 2) + Weight(a.store_failed, 4),
     rejected_reason |-> a.rejected_reason, generation |-> a.generation]

decode_obd2_identity_key_audit(b) ==
    IF b = Absent \/ b.flags > 7 THEN Absent
    ELSE [request_id |-> b.request_id,
          authorized |-> HasBit(b.flags, 1),
          accepted |-> HasBit(b.flags, 2),
          store_failed |-> HasBit(b.flags, 4),
          rejected_reason |-> b.rejected_reason,
          generation |-> b.generation]

=============================================================================
