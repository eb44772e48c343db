------------------------------ MODULE MCStores ------------------------------
(***************************************************************************)
(* The stores for TLC: the RP2040 flash store, the STM32F4 flash store, and *)
(* identity provisioning on top of the latter.  Each behaviour exercises    *)
(* one of the three; the others stay as they were at boot.                  *)
(*                                                                          *)
(* Sequence numbers are taken modulo 4.  RP2040: two tune values, one       *)
(* history.  STM32F4: two of the three pages (they are treated alike), and  *)
(* the one pair of records that is written together.  Provisioning: two     *)
(* keys, names that normalise to a name and to nothing, and key commands    *)
(* that rotate the key there and back, repeat a generation, and revoke.     *)
(***************************************************************************)
EXTENDS AbFlashKv, SectorStore, IdentityProvisioning

VARIABLE part

storeVars == <<part, vars, svars, idVars>>

ArmMsg(signer, nonce, f) ==
    LET m == [kind |-> "Arm", request_id |-> 1, nonce |-> nonce, vin |-> f.vin,
              calibration_id |-> f.calibration_id, build |-> f.build, tag |-> <<>>]
    IN  [m EXCEPT !.tag = obd2_identity_provisioning_arm_tag(signer, m)]

CommandMsg(f) ==
    [kind |-> "Command", request_id |-> 1, vin |-> f.vin,
     calibration_id |-> f.calibration_id, build |-> f.build]

KeyMsg(signer, generation, revoke, key) ==
    LET m == [kind |-> "KeyCommand", request_id |-> generation, nonce |-> 1,
              generation |-> generation, revoke |-> revoke, key |-> key, tag |-> <<>>]
    IN  [m EXCEPT !.tag = obd2_identity_provisioning_key_command_tag(signer, m)]

Names(vin, build) == [vin |-> vin, calibration_id |-> <<"A">>, build |-> build]

Plain == Names(<<"a", "#">>, <<"b">>)
Other == Names(<<"B">>, <<"1">>)
Hollow == Names(<<"#">>, <<"1">>)
Long == Names(<<"a", "1", "1">>, <<"1">>)

MCPairs == {<<"key", "key_audit">>}

MCIdScenarios ==
    [idle |-> {},
     identity |->
        {ArmMsg("k1", n, f) : n \in {0, 1}, f \in {Plain, Hollow}}
            \cup {ArmMsg("k1", 2, Other)}
            \cup {CommandMsg(f) : f \in {Plain, Other, Hollow, Long}},
     keys |->
        {ArmMsg(k, 1, Plain) : k \in {"k1", "k2"}}
            \cup {KeyMsg("k1", 1, FALSE, "k2"), KeyMsg("k2", 2, FALSE, "k1"),
                  KeyMsg("k2", 1, FALSE, "k2"), KeyMsg("k1", 3, TRUE, "k1")}]

StoresInit ==
    /\ part \in {"ab", "sector", "identity"}
    /\ Init
    /\ SectorInit
    /\ IdInit
    /\ (tool = "idle") = (part # "identity")

StoresNext ==
    \/ part = "ab" /\ Next /\ UNCHANGED <<part, svars, idVars>>
    \/ part = "sector" /\ SectorNext /\ UNCHANGED <<part, vars, idVars>>
    \/ part = "identity" /\ IdNext /\ UNCHANGED <<part, vars, svars>>

StoresSpec == StoresInit /\ [][StoresNext]_storeVars

=============================================================================
