------------------------------ MODULE SendKeys ------------------------------
(***************************************************************************)
(* The sending half of the DTLS 1.3 record protection in dtls13/engine.rs: *)
(* which keys and which sequence counter a protected record uses, and how  *)
(* a KeyUpdate rotates them.  Operators on a record k with the engine's    *)
(* hs_send_*, app_send_* and prev_app_send_* fields.  The keys themselves  *)
(* are identified by the epoch they were derived for.                      *)
(***************************************************************************)
EXTENDS Integers

CONSTANTS MAX_SEQUENCE_NUMBER,   \* 2^48 - 1 in the code
          aead_encryption_limit  \* of the configuration

ASSUME SendKeysAssumption ==
  /\ MAX_SEQUENCE_NUMBER \in Nat
  /\ aead_encryption_limit \in Nat

\* The values jittered_aead_threshold can draw.
JitteredThresholds ==
  LET quarter == aead_encryption_limit \div 4
  IN  {aead_encryption_limit - quarter + offset : offset \in 0 .. quarter}

SendKeysType ==
  [hs_send_keys : BOOLEAN, hs_send_seq : Nat,
   app_send_keys : BOOLEAN, app_send_epoch : Nat, app_send_seq : Nat,
   prev_app_send_keys : BOOLEAN, prev_app_send_epoch : Nat, prev_app_send_seq : Nat,
   app_send_record_count : Nat, needs_key_update : BOOLEAN,
   aead_encryption_threshold : JitteredThresholds]

NoSendKeys(threshold) ==
  [hs_send_keys |-> FALSE, hs_send_seq |-> 0,
   app_send_keys |-> FALSE, app_send_epoch |-> 0, app_send_seq |-> 0,
   prev_app_send_keys |-> FALSE, prev_app_send_epoch |-> 0, prev_app_send_seq |-> 0,
   app_send_record_count |-> 0, needs_key_update |-> FALSE,
   aead_encryption_threshold |-> threshold]

install_handshake_keys(k) == [k EXCEPT !.hs_send_keys = TRUE, !.hs_send_seq = 0]

install_application_keys(k) ==
  [k EXCEPT !.app_send_keys = TRUE, !.app_send_epoch = 3, !.app_send_seq = 0]

\* Records of the epoch a KeyUpdate left behind still use the retained keys.
UsesPrev(k, epoch) == k.prev_app_send_keys /\ epoch = k.prev_app_send_epoch

SendSeq(k, epoch) ==
  IF epoch = 2 THEN k.hs_send_seq
  ELSE IF UsesPrev(k, epoch) THEN k.prev_app_send_seq ELSE k.app_send_seq

\* The epoch whose keys encrypt a record labelled `epoch'.
SendKey(k, epoch) ==
  IF epoch = 2 THEN 2
  ELSE IF UsesPrev(k, epoch) THEN k.prev_app_send_epoch ELSE k.app_send_epoch

\* Fault: the last sequence number is used as well.
CanProtect_OffByOne(k, epoch) ==
  /\ IF epoch = 2 THEN k.hs_send_keys ELSE UsesPrev(k, epoch) \/ k.app_send_keys
  /\ SendSeq(k, epoch) <= MAX_SEQUENCE_NUMBER

CanProtect(k, epoch) ==
  /\ IF epoch = 2 THEN k.hs_send_keys ELSE UsesPrev(k, epoch) \/ k.app_send_keys
  /\ SendSeq(k, epoch) < MAX_SEQUENCE_NUMBER

\* create_ciphertext_record once the record is known to leave.
CountRecord(k, epoch) ==
  IF epoch = 2 THEN [k EXCEPT !.hs_send_seq = k.hs_send_seq + 1]
  ELSE IF UsesPrev(k, epoch)
  THEN [k EXCEPT !.prev_app_send_seq = k.prev_app_send_seq + 1]
  ELSE [k EXCEPT !.app_send_seq = k.app_send_seq + 1,
                 !.app_send_record_count = k.app_send_record_count + 1,
                 !.needs_key_update = k.needs_key_update
                                      \/ k.app_send_record_count + 1
                                           >= k.aead_encryption_threshold]

\* Fault: the counter of the keys that are kept is left as it was.
update_send_keys_KeepsSeq(k, threshold) ==
  [k EXCEPT !.prev_app_send_keys = TRUE,
            !.prev_app_send_epoch = k.app_send_epoch,
            !.app_send_epoch = k.app_send_epoch + 1,
            !.app_send_seq = 0,
            !.app_send_record_count = 0,
            !.needs_key_update = FALSE,
            !.aead_encryption_threshold = threshold]

\* Fault: the jitter is added to the limit.
update_send_keys_OverLimit(k, threshold) ==
  [k EXCEPT !.prev_app_send_keys = TRUE,
            !.prev_app_send_epoch = k.app_send_epoch,
            !.prev_app_send_seq = k.app_send_seq,
            !.app_send_epoch = k.app_send_epoch + 1,
            !.app_send_seq = 0,
            !.app_send_record_count = 0,
            !.needs_key_update = FALSE,
            !.aead_encryption_threshold = aead_encryption_limit + threshold]

update_send_keys(k, threshold) ==
  [k EXCEPT !.prev_app_send_keys = TRUE,
            !.prev_app_send_epoch = k.app_send_epoch,
            !.prev_app_send_seq = k.app_send_seq,
            !.app_send_epoch = k.app_send_epoch + 1,
            !.app_send_seq = 0,
            !.app_send_record_count = 0,
            !.needs_key_update = FALSE,
            !.aead_encryption_threshold = threshold]

\* Fault: the old keys are never given up.
DropPrevKeys_Never(k) == k

\* process_ack once the whole KeyUpdate flight is acknowledged.
DropPrevKeys(k) == [k EXCEPT !.prev_app_send_keys = FALSE]
=============================================================================
