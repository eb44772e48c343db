------------------------ MODULE IdentityProvisioning ------------------------
(***************************************************************************)
(* Provisioning of the OBD-II identity over CAN, on STM32F4.               *)
(*   boards/stm32f4/src/identity_provisioning.rs                           *)
(*   boards/stm32f4/src/store_support.rs (the write_obd2 operations)       *)
(*   boards/stm32f4/src/main.rs (boot, and the dispatch of the messages)   *)
(*                                                                         *)
(* A tool arms one command by sending it with a fresh nonce and a tag made *)
(* with the provisioning key, then sends the command itself.  The key is   *)
(* rotated or revoked by a key command of a higher generation.  Each       *)
(* handler makes one or two writes to the flash store, and any of them can *)
(* fail, with or without having taken effect, or be cut by a power loss.   *)
(*                                                                         *)
(* The store is the register of KvRegister that SectorStore implements: a  *)
(* write of one or two records takes effect at one instant or not at all.  *)
(* A tag is the tuple of what it signs (external: HMAC-SHA256).            *)
(***************************************************************************)
EXTENDS IdentityRecords, FiniteSets

CONSTANTS
    EnvKey,          \* the key compiled into the image, or Absent
    IdScenarios      \* [name -> set of messages the tool sends]

VARIABLES
    tool,            \* the scenario of this behaviour
    operator,        \* Obd2IdentityProvisioningOperatorArm
    cells,           \* the four stored records
    job,             \* the handler waiting for a store write, or Absent
    answer,          \* the message sent in answer to the last command, or Absent
    lifecycle,       \* the key lifecycle status shown over OBD-II
    ghost            \* history: arms granted and used, identities asked for, accepted generations

idVars == <<tool, operator, cells, job, answer, lifecycle, ghost>>

-----------------------------------------------------------------------------
(* Tags.                                                                   *)

Fields(m) == [vin |-> m.vin, calibration_id |-> m.calibration_id, build |-> m.build]

obd2_identity_provisioning_arm_tag(key, m) ==
    <<"arm", key, m.request_id, m.nonce, Fields(m)>>

obd2_identity_provisioning_key_command_tag(key, m) ==
    <<"key", key, m.request_id, m.nonce, m.generation, m.revoke, m.key>>

-----------------------------------------------------------------------------
(* Loads from the store.                                                   *)

LoadIdentity(c) == decode_obd2_identity_record(c.identity)
LoadCommandAudit(c) == decode_obd2_identity_command_audit(c.command_audit)
LoadKeyRecord(c) == decode_obd2_identity_provisioning_key_record(c.key)
LoadKeyAudit(c) == decode_obd2_identity_key_audit(c.key_audit)

StoredGeneration(c) == IF LoadKeyRecord(c) = Absent THEN 0 ELSE LoadKeyRecord(c).generation

Encoded(rec, encode(_)) == IF rec = Absent THEN Absent ELSE encode(rec)

(* The boot of main.rs: a stored key record, even a revoked one, takes     *)
(* precedence over the compiled-in key.                                    *)
from_persisted_key_or_compile_time_env(c) ==
    LET k == LoadKeyRecord(c)
    IN  [armed |-> Absent,
         key |-> IF k = Absent THEN EnvKey ELSE active_key(k),
         nonce |-> IF k = Absent THEN Absent ELSE k.last_arm_nonce]

LifecycleOf(audit, persisted) ==
    IF audit = Absent THEN [present |-> FALSE, persisted |-> FALSE, audit |-> Absent]
    ELSE [present |-> TRUE, persisted |-> persisted, audit |-> audit]

-----------------------------------------------------------------------------
(* Arming.                                                                 *)

\* Mutant of arm: the nonce is compared with >=.
ArmAllowsEqualNonce(o, m) ==
    /\ o.nonce = Absent \/ m.nonce >= o.nonce
    /\ o.key # Absent
    /\ m.tag = obd2_identity_provisioning_arm_tag(o.key, m)

arm(o, m) ==
    /\ o.nonce = Absent \/ m.nonce > o.nonce
    /\ o.key # Absent
    /\ m.tag = obd2_identity_provisioning_arm_tag(o.key, m)

(* The key record that the nonce is written into, or Absent for an error.  *)
NonceRecord(c, current_key, nonce) ==
    LET k == LoadKeyRecord(c)
    IN  CASE k = Absent ->
                [KeyRecord(current_key, 0, FALSE) EXCEPT !.last_arm_nonce = nonce]
          [] k # Absent /\ active_key(k) = current_key -> [k EXCEPT !.last_arm_nonce = nonce]
          [] OTHER -> Absent

ArmAnswer(m, armed) == [kind |-> "ArmAudit", request_id |-> m.request_id, armed |-> armed]

NoAnswer == [kind |-> "none"]

ReceiveArm(m) ==
    /\ job = Absent
    /\ m.kind = "Arm"
    /\ LET rec == NonceRecord(cells, operator.key, m.nonce) IN
       IF arm(operator, m) /\ rec # Absent
       THEN /\ job' = [at |-> "nonce", msg |-> m, record |-> rec]
            /\ answer' = NoAnswer
       ELSE /\ answer' = ArmAnswer(m, FALSE)
            /\ UNCHANGED job
    /\ UNCHANGED <<tool, operator, cells, lifecycle, ghost>>

WithKey(c, rec) == [c EXCEPT !.key = encode_obd2_identity_provisioning_key_record(rec)]

(* How a store write ends: it took effect and returned Ok, it failed and   *)
(* left the store alone, or it failed after taking effect.                 *)
Outcomes == {"ok", "undone", "done"}

Written(c, outcome) == IF outcome = "undone" THEN cells ELSE c

(* obd2_identity_operator_arm_message_with_nonce_store: a failed write     *)
(* puts the operator state back.                                           *)
NonceWritten(outcome) ==
    /\ job # Absent
    /\ job.at = "nonce"
    /\ LET m == job.msg
           granted == outcome = "ok"
                        /\ LoadKeyRecord(WithKey(cells, job.record)) = job.record
       IN
       /\ cells' = Written(WithKey(cells, job.record), outcome)
       /\ operator' = IF granted
                      THEN [operator EXCEPT
                              !.nonce = m.nonce,
                              !.armed = [request_id |-> m.request_id, fields |-> Fields(m)]]
                      ELSE operator
       /\ answer' = ArmAnswer(m, granted)
       /\ ghost' = IF granted
                   THEN [ghost EXCEPT !.grants = @ + 1,
                                      !.nonces = @ \cup {<<job.record.generation, m.nonce>>}]
                   ELSE ghost
    /\ job' = Absent
    /\ UNCHANGED <<tool, lifecycle>>

-----------------------------------------------------------------------------
(* The armed command.                                                      *)

authorize_obd2_identity_provisioning(o, m) ==
    LET ok == o.armed = [request_id |-> m.request_id, fields |-> Fields(m)]
    IN  [ok |-> ok, op |-> IF ok THEN [o EXCEPT !.armed = Absent] ELSE o]

CommandAudit(m, authorized, status) ==
    [request_id |-> m.request_id, authorized |-> authorized,
     authorization_failed |-> ~authorized, status |-> status]

IdStatus(accepted, field, store_failed, lengths) ==
    [attempted |-> TRUE, accepted |-> accepted, rejected_field |-> field,
     store_failed |-> store_failed, lengths |-> lengths]

obd2_identity_operator_audit_message(a) == [kind |-> "Audit", audit |-> a]

AuditJob(m, audit) == [at |-> "audit", msg |-> m, audit |-> audit]

(* A message whose lengths exceed its arrays is no command and is ignored. *)
obd2_identity_operator_command_from_message(m) ==
    m.kind = "Command" /\ Len(m.vin) <= VinLen /\ Len(m.calibration_id) <= VinLen /\ Len(m.build) <= BuildLen

ReceiveCommand(m) ==
    /\ job = Absent
    /\ obd2_identity_operator_command_from_message(m)
    /\ LET auth == authorize_obd2_identity_provisioning(operator, m)
           field == RejectedField(Fields(m))
       IN
       /\ operator' = auth.op
       /\ job' = CASE ~auth.ok -> AuditJob(m, CommandAudit(m, FALSE, Absent))
                   [] auth.ok /\ field # Absent ->
                         AuditJob(m, CommandAudit(m, TRUE, IdStatus(FALSE, field, FALSE, Absent)))
                   [] OTHER -> [at |-> "record", msg |-> m,
                                record |-> from_ascii(Fields(m))]
       /\ ghost' = IF auth.ok
                   THEN [ghost EXCEPT !.uses = @ + 1,
                                      !.asked = from_ascii(Fields(m)),
                                      !.records = @ \cup {from_ascii(Fields(m))}]
                   ELSE ghost
    /\ answer' = NoAnswer
    /\ UNCHANGED <<tool, cells, lifecycle>>

WithIdentity(c, rec) == [c EXCEPT !.identity = encode_obd2_identity_record(rec)]

IdentityWritten(outcome) ==
    /\ job # Absent
    /\ job.at = "record"
    /\ LET stored == outcome = "ok"
                       /\ LoadIdentity(WithIdentity(cells, job.record)) = job.record
       IN  job' = AuditJob(job.msg,
                    CommandAudit(job.msg, TRUE,
                                 IdStatus(stored, Absent, ~stored, Lengths(job.record))))
    /\ cells' = Written(WithIdentity(cells, job.record), outcome)
    /\ UNCHANGED <<tool, operator, answer, lifecycle, ghost>>

WithCommandAudit(c, a) == [c EXCEPT !.command_audit = encode_obd2_identity_command_audit(a)]

(* Without its audit on flash the command gets no answer at all.           *)
AuditWritten(outcome) ==
    /\ job # Absent
    /\ job.at = "audit"
    /\ LET c == WithCommandAudit(cells, job.audit) IN
       /\ cells' = Written(c, outcome)
       /\ answer' = IF outcome = "ok" /\ LoadCommandAudit(c) = job.audit
                    THEN obd2_identity_operator_audit_message(job.audit) ELSE NoAnswer
    /\ job' = Absent
    /\ UNCHANGED <<tool, operator, lifecycle, ghost>>

-----------------------------------------------------------------------------
(* Key commands.                                                           *)

KeyAudit(m, authorized, accepted, reason) ==
    [request_id |-> m.request_id, authorized |-> authorized, accepted |-> accepted,
     store_failed |-> reason = "store", rejected_reason |-> reason,
     generation |-> m.generation]

KeyVerdict(o, c, m) ==
    CASE o.key = Absent \/ m.tag # obd2_identity_provisioning_key_command_tag(o.key, m) ->
            "unauthorized"
      [] m.generation <= StoredGeneration(c) -> "rollback"
      [] OTHER -> "none"

WithKeyAudit(c, rec, a) ==
    [c EXCEPT !.key = Encoded(rec, encode_obd2_identity_provisioning_key_record),
              !.key_audit = encode_obd2_identity_key_audit(a)]

obd2_identity_operator_key_command_from_message(m) == m.kind = "KeyCommand"

ReceiveKeyCommand(m) ==
    /\ job = Absent
    /\ obd2_identity_operator_key_command_from_message(m)
    /\ LET verdict == KeyVerdict(operator, cells, m) IN
       job' = IF verdict = "none"
              THEN [at |-> "key", msg |-> m, previous |-> LoadKeyRecord(cells),
                    record |-> KeyRecord(m.key, m.generation, m.revoke),
                    audit |-> KeyAudit(m, TRUE, TRUE, "none")]
              ELSE [at |-> "key_audit", msg |-> m, previous |-> LoadKeyRecord(cells),
                    audit |-> KeyAudit(m, verdict # "unauthorized", FALSE, verdict)]
    /\ answer' = NoAnswer
    /\ UNCHANGED <<tool, operator, cells, lifecycle, ghost>>

KeyAnswer(a) == [kind |-> "KeyAudit", audit |-> a]

obd2_identity_key_lifecycle_status_after_operator_response(a, c) ==
    LifecycleOf(a, LoadKeyAudit(c) = a)

(* The new key and its audit go out in one rewrite.  If that fails, the    *)
(* audit of the failure goes out with the key record of before.            *)
KeyWritten(outcome) ==
    /\ job # Absent
    /\ job.at = "key"
    /\ LET c == WithKeyAudit(cells, job.record, job.audit)
           stored == /\ outcome = "ok"
                     /\ LoadKeyAudit(c) = job.audit
                     /\ LoadKeyRecord(c) = job.record
       IN
       /\ cells' = Written(c, outcome)
       /\ IF stored
          THEN /\ operator' = [armed |-> Absent, key |-> active_key(job.record),
                               nonce |-> Absent]
               /\ answer' = KeyAnswer(job.audit)
               /\ lifecycle' =
                    obd2_identity_key_lifecycle_status_after_operator_response(job.audit, c)
               /\ ghost' = [ghost EXCEPT !.accepted = Append(@, job.msg.generation),
                                         !.split = FALSE]
               /\ job' = Absent
          ELSE /\ job' = [at |-> "key_audit", msg |-> job.msg, previous |-> job.previous,
                          audit |-> KeyAudit(job.msg, TRUE, FALSE, "store")]
               /\ UNCHANGED <<operator, answer, lifecycle, ghost>>
    /\ UNCHANGED tool

\* Mutant of PutBack: the audit of a failure leaves the key on flash alone.
PutBackAuditOnly(c, j) == [c EXCEPT !.key_audit = encode_obd2_identity_key_audit(j.audit)]

PutBack(c, j) == WithKeyAudit(c, j.previous, j.audit)

KeyAuditWritten(outcome) ==
    /\ job # Absent
    /\ job.at = "key_audit"
    /\ LET c == Written(PutBack(cells, job), outcome) IN
       /\ cells' = c
       /\ lifecycle' =
            obd2_identity_key_lifecycle_status_after_operator_response(job.audit, c)
    /\ answer' = KeyAnswer(job.audit)
    /\ ghost' = [ghost EXCEPT !.split =
                    @ \/ (job.audit.rejected_reason = "store" /\ outcome # "ok")]
    /\ job' = Absent
    /\ UNCHANGED <<tool, operator>>

-----------------------------------------------------------------------------
(* Power loss: a write under way took effect or it did not.  Boot reads    *)
(* the operator state and the lifecycle status back from the store.        *)

InFlight(c) ==
    IF job = Absent THEN {c}
    ELSE {c, CASE job.at = "nonce" -> WithKey(c, job.record)
               [] job.at = "record" -> WithIdentity(c, job.record)
               [] job.at = "audit" -> WithCommandAudit(c, job.audit)
               [] job.at = "key" -> WithKeyAudit(c, job.record, job.audit)
               [] job.at = "key_audit" -> PutBack(c, job)}

BootIdentity(c) ==
    /\ operator' = from_persisted_key_or_compile_time_env(c)
    /\ lifecycle' = LifecycleOf(LoadKeyAudit(c), TRUE)

IdentityPowerLoss ==
    /\ \E c \in InFlight(cells) : cells' = c /\ BootIdentity(c)
    /\ job' = Absent
    /\ answer' = NoAnswer
    /\ ghost' = [ghost EXCEPT !.split = FALSE]
    /\ UNCHANGED tool

-----------------------------------------------------------------------------
NoCells == [identity |-> Absent, command_audit |-> Absent, key |-> Absent, key_audit |-> Absent]

IdInit ==
    /\ tool \in DOMAIN IdScenarios
    /\ cells = NoCells
    /\ operator = from_persisted_key_or_compile_time_env(NoCells)
    /\ job = Absent
    /\ answer = NoAnswer
    /\ lifecycle = LifecycleOf(Absent, TRUE)
    /\ ghost = [grants |-> 0, nonces |-> {}, uses |-> 0, records |-> {}, asked |-> Absent,
                accepted |-> <<>>, split |-> FALSE]

IdNext ==
    \/ \E m \in IdScenarios[tool] : ReceiveArm(m) \/ ReceiveCommand(m) \/ ReceiveKeyCommand(m)
    \/ \E outcome \in Outcomes :
          \/ NonceWritten(outcome)
          \/ IdentityWritten(outcome)
          \/ AuditWritten(outcome)
          \/ KeyWritten(outcome)
          \/ KeyAuditWritten(outcome)
    \/ IdScenarios[tool] # {} /\ IdentityPowerLoss

-----------------------------------------------------------------------------
(* Records keep their format: whatever is on flash decodes.                *)
IdTypeOK ==
    /\ cells.identity # Absent => LoadIdentity(cells) # Absent
    /\ cells.key # Absent => LoadKeyRecord(cells) # Absent
    /\ cells.key_audit # Absent => LoadKeyAudit(cells).rejected_reason \in KeyRejected
    /\ job # Absent => job.at \in {"nonce", "record", "audit", "key", "key_audit"}
    /\ answer.kind \in {"none", "ArmAudit", "Audit", "KeyAudit"}

(* An arm is granted at most once for each nonce of a key generation, over *)
(* failed writes and power losses: the nonce is on flash before the tool   *)
(* hears that it is armed (arm, write_obd2_identity_provisioning_arm_      *)
(* nonce, from_persisted_key_or_compile_time_env).                         *)
NoncesAreUsedOnce == ghost.grants = Cardinality(ghost.nonces)

(* Every authorised command spends an arm of its own: no arm serves two    *)
(* commands, and none outlives a power loss or a change of key             *)
(* (authorize_obd2_identity_provisioning).                                 *)
ArmsAreSpentOnce == ghost.uses <= ghost.grants

(* An answer is never ahead of the flash: an identity command is answered  *)
(* only if its audit reads back, and with accepted only if the identity on *)
(* flash is the one this command asked for, not an older one; a key        *)
(* command is answered with accepted only if the key is on flash and in    *)
(* force.                                                                  *)
AnswersAreStored ==
    job = Absent =>
        /\ answer.kind = "Audit" =>
              /\ LoadCommandAudit(cells) = answer.audit
              /\ answer.audit.status # Absent /\ answer.audit.status.accepted
                   => LoadIdentity(cells) = ghost.asked
        /\ answer.kind = "KeyAudit" /\ answer.audit.accepted =>
              /\ StoredGeneration(cells) = answer.audit.generation
              /\ operator.key = active_key(LoadKeyRecord(cells))

(* The identity on flash is always the normalised form of an authorised    *)
(* command, and a stored one has no empty field.                           *)
IdentityWasAuthorized ==
    LoadIdentity(cells) # Absent =>
        /\ LoadIdentity(cells) \in ghost.records
        /\ \A i \in 1 .. 3 : Lengths(LoadIdentity(cells))[i] > 0
        /\ \A i \in DOMAIN LoadIdentity(cells).vin : LoadIdentity(cells).vin[i] \in {"A", "B", "1"}

(* The key audit on flash agrees with the key on flash: one that says a    *)
(* generation was accepted lies beside a key of that generation, since the *)
(* two are written in one rewrite.                                         *)
KeyAuditMatchesKey ==
    LoadKeyAudit(cells) # Absent /\ LoadKeyAudit(cells).accepted =>
        StoredGeneration(cells) = LoadKeyAudit(cells).generation

(* Between commands the key in RAM is the key that a boot would load,      *)
(* except after a key command whose two writes both failed: then the key   *)
(* may be on flash although the tool was told that the store failed.       *)
KeySurvivesBoot ==
    job = Absent /\ ~ghost.split =>
        operator.key = from_persisted_key_or_compile_time_env(cells).key

(* The lifecycle status claims persistence only of the audit on flash.     *)
LifecycleIsTruthful ==
    job = Absent =>
        /\ lifecycle.persisted => LoadKeyAudit(cells) = lifecycle.audit
        /\ ~lifecycle.present => LoadKeyAudit(cells) = Absent

(* Accepted key generations only ever go up, whatever failed in between:   *)
(* a rollback is refused even after a power loss.                          *)
GenerationsAscend ==
    \A i \in 1 .. Len(ghost.accepted) - 1 : ghost.accepted[i] < ghost.accepted[i + 1]

(* Nothing that authorises a change serves twice: not a nonce, not an arm, *)
(* not a key generation.                                                   *)
GrantsAreUsedOnce == NoncesAreUsedOnce /\ ArmsAreSpentOnce /\ GenerationsAscend

(* Flash, RAM and what the tool was told agree between commands, whichever *)
(* of a command's two writes failed and wherever power was lost.           *)
FlashMatchesAnswers ==
    /\ IdTypeOK
    /\ AnswersAreStored
    /\ IdentityWasAuthorized
    /\ KeyAuditMatchesKey
    /\ KeySurvivesBoot
    /\ LifecycleIsTruthful
=============================================================================
