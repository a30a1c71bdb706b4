--------------------------- MODULE SendKeysProofs ---------------------------
(***************************************************************************)
(* Nonce uniqueness of the DTLS 1.3 record protection, for every number of *)
(* records, KeyUpdates, retransmissions and failed sends.                  *)
(***************************************************************************)
EXTENDS SendKeysSpec, TLAPS

\* The retained keys are those of the epoch just left, and application keys
\* only exist from epoch 3 on.
EpochsInOrder ==
  /\ keys.app_send_keys => keys.hs_send_keys /\ keys.app_send_epoch >= 3
  /\ ~keys.app_send_keys => keys.app_send_epoch = 0 /\ ~keys.prev_app_send_keys
  /\ keys.prev_app_send_keys => keys.prev_app_send_epoch = keys.app_send_epoch - 1
                                /\ keys.prev_app_send_epoch >= 3
  /\ released => keys.app_send_keys

\* Every saved entry still has the keys it was first sent under.
SavedHaveKeys ==
  \A e \in saved : \/ e = 2 /\ keys.hs_send_keys
                   \/ e >= 3 /\ keys.app_send_keys /\ e = keys.app_send_epoch
                   \/ keys.prev_app_send_keys /\ e = keys.prev_app_send_epoch

\* Each counter is ahead of every number used under its keys.
CountersAhead ==
  /\ \A r \in protected : r.serial < sends
  /\ \A r \in protected : r.key = 2 => r.seq < keys.hs_send_seq /\ keys.hs_send_keys
  /\ \A r \in protected : r.key # 2 => keys.app_send_keys /\ r.key <= keys.app_send_epoch
  /\ \A r \in protected : r.key = keys.app_send_epoch => r.seq < keys.app_send_seq
  /\ \A r \in protected :
        keys.prev_app_send_keys /\ r.key = keys.prev_app_send_epoch
          => r.seq < keys.prev_app_send_seq

SendInv == /\ TypeOK /\ EpochsInOrder /\ SavedHaveKeys /\ CountersAhead
           /\ NonceUnique /\ LabelMatchesKey /\ SequenceNeverWraps

\* The engine starts without keys and without records.
LEMMA SendInit == Init => SendInv
<1> SUFFICES ASSUME Init PROVE SendInv
  OBVIOUS
<1> PICK threshold \in JitteredThresholds : keys = NoSendKeys(threshold)
  BY DEF Init
<1>1. keys \in SendKeysType
  BY DEF NoSendKeys, SendKeysType
<1>2. EpochsInOrder
  BY DEF Init, NoSendKeys, EpochsInOrder
<1> QED BY <1>1, <1>2 DEF Init, SendInv, TypeOK, SavedHaveKeys, CountersAhead,
                          NonceUnique, LabelMatchesKey, SequenceNeverWraps

\* The epochs create_ciphertext_record is called with: their keys exist.
Usable(e) ==
  /\ e \in Nat
  /\ \/ e = 2 /\ keys.hs_send_keys
     \/ e >= 3 /\ keys.app_send_keys /\ e = keys.app_send_epoch
     \/ keys.prev_app_send_keys /\ e = keys.prev_app_send_epoch

\* Counting a record keeps the engine's fields in their types.
LEMMA CountRecordType ==
  ASSUME NEW k \in SendKeysType, NEW e
  PROVE  CountRecord(k, e) \in SendKeysType
<1>1. CASE e = 2
  <2>1. k.hs_send_seq + 1 \in Nat
    BY DEF SendKeysType
  <2>2. CountRecord(k, e) = [k EXCEPT !.hs_send_seq = k.hs_send_seq + 1]
    BY <1>1 DEF CountRecord
  <2> QED BY <2>1, <2>2 DEF SendKeysType
<1>2. CASE e # 2 /\ UsesPrev(k, e)
  <2>1. k.prev_app_send_seq + 1 \in Nat
    BY DEF SendKeysType
  <2>2. CountRecord(k, e) = [k EXCEPT !.prev_app_send_seq = k.prev_app_send_seq + 1]
    BY <1>2 DEF CountRecord
  <2> QED BY <2>1, <2>2 DEF SendKeysType
<1>3. CASE e # 2 /\ ~UsesPrev(k, e)
  <2> DEFINE s == k.app_send_seq + 1
             c == k.app_send_record_count + 1
             n == k.needs_key_update \/ c >= k.aead_encryption_threshold
  <2>1. s \in Nat /\ c \in Nat
    BY DEF SendKeysType
  <2>2. n \in BOOLEAN
    OBVIOUS
  <2>3. CountRecord(k, e) = [k EXCEPT !.app_send_seq = s,
                                      !.app_send_record_count = c,
                                      !.needs_key_update = n]
    BY <1>3 DEF CountRecord
  <2> HIDE DEF s, c, n
  <2> QED BY <2>1, <2>2, <2>3 DEF SendKeysType
<1> QED BY <1>1, <1>2, <1>3

\* update_send_keys moves the epoch in use, with its counter, to the previous
\* one and starts the next epoch at number 0.
LEMMA UpdateFields ==
  ASSUME NEW c \in SendKeysType, NEW t
  PROVE  LET u == update_send_keys(c, t)
         IN  /\ u.hs_send_keys = c.hs_send_keys /\ u.hs_send_seq = c.hs_send_seq
             /\ u.app_send_keys = c.app_send_keys
             /\ u.app_send_epoch = c.app_send_epoch + 1 /\ u.app_send_seq = 0
             /\ u.prev_app_send_keys /\ u.prev_app_send_epoch = c.app_send_epoch
             /\ u.prev_app_send_seq = c.app_send_seq
<1> DEFINE next == c.app_send_epoch + 1
           u == [c EXCEPT !.prev_app_send_keys = TRUE, !.prev_app_send_epoch = c.app_send_epoch,
                          !.prev_app_send_seq = c.app_send_seq, !.app_send_epoch = next,
                          !.app_send_seq = 0, !.app_send_record_count = 0,
                          !.needs_key_update = FALSE, !.aead_encryption_threshold = t]
<1>1. update_send_keys(c, t) = u
  BY DEF update_send_keys
<1> HIDE DEF next
<1>2. /\ u.hs_send_keys = c.hs_send_keys /\ u.hs_send_seq = c.hs_send_seq
      /\ u.app_send_keys = c.app_send_keys
  BY DEF SendKeysType
<1>3. u.app_send_epoch = next /\ u.app_send_seq = 0
  BY DEF SendKeysType
<1>4. /\ u.prev_app_send_keys /\ u.prev_app_send_epoch = c.app_send_epoch
      /\ u.prev_app_send_seq = c.app_send_seq
  BY DEF SendKeysType
<1> HIDE DEF u
<1> QED BY <1>1, <1>2, <1>3, <1>4 DEF next

\* Rotating the keys keeps them in their types.
LEMMA UpdateType ==
  ASSUME NEW k \in SendKeysType, NEW t \in JitteredThresholds
  PROVE  update_send_keys(k, t) \in SendKeysType
<1> DEFINE e == k.app_send_epoch
           s == k.app_send_seq
           n == e + 1
<1>1. e \in Nat /\ s \in Nat /\ n \in Nat
  BY DEF SendKeysType
<1> DEFINE p == [k EXCEPT !.prev_app_send_keys = TRUE, !.prev_app_send_epoch = e,
                          !.prev_app_send_seq = s]
           q == [p EXCEPT !.app_send_epoch = n, !.app_send_seq = 0]
<1>2. update_send_keys(k, t) = [q EXCEPT !.app_send_record_count = 0, !.needs_key_update = FALSE,
                                         !.aead_encryption_threshold = t]
  BY DEF update_send_keys, SendKeysType
<1> HIDE DEF e, s, n
<1>3. p \in SendKeysType
  BY <1>1 DEF SendKeysType
<1> HIDE DEF p
<1>4. q \in SendKeysType
  BY <1>1, <1>3 DEF SendKeysType
<1> HIDE DEF q
<1>5. [q EXCEPT !.app_send_record_count = 0, !.needs_key_update = FALSE,
                !.aead_encryption_threshold = t] \in SendKeysType
  BY <1>4 DEF SendKeysType
<1> QED BY <1>2, <1>5

\* Whatever the label, the record that leaves has a number of its own and the
\* counter of its keys moves past it (CountRecord is the only counter change).
LEMMA SendOne ==
  ASSUME SendInv, NEW e, Usable(e), CanProtect(keys, e),
         keys' = CountRecord(keys, e), Leave(e),
         released' = released, saved' \subseteq saved \cup {e}
  PROVE  SendInv'
<1> DEFINE rec == [key |-> SendKey(keys, e), epoch |-> e, seq |-> SendSeq(keys, e), serial |-> sends]
<1>1. keys \in SendKeysType /\ sends \in Nat /\ e \in Nat
  BY DEF SendInv, TypeOK, Usable
<1>2. /\ protected' = protected \cup {rec}
      /\ sends' = sends + 1
  BY DEF Leave
<1>3. rec.key = e /\ rec.epoch = e /\ rec.seq \in Nat /\ rec.seq < MAX_SEQUENCE_NUMBER
      /\ rec.serial = sends /\ rec.seq = SendSeq(keys, e)
  <2>1. SendKey(keys, e) = e
    BY <1>1 DEF SendKey, Usable, UsesPrev, SendInv, EpochsInOrder, SendKeysType
  <2>2. SendSeq(keys, e) \in Nat
    BY <1>1 DEF SendSeq, SendKeysType
  <2> QED BY <2>1, <2>2 DEF CanProtect
<1>4. keys' \in SendKeysType
  BY <1>1, CountRecordType
<1>5. \A r \in protected : r.key = e => r.seq < SendSeq(keys, e)
  BY <1>1 DEF SendInv, CountersAhead, SendSeq, UsesPrev, Usable, EpochsInOrder, SendKeysType
<1>6. /\ keys'.hs_send_keys = keys.hs_send_keys /\ keys'.app_send_keys = keys.app_send_keys
      /\ keys'.prev_app_send_keys = keys.prev_app_send_keys
      /\ keys'.app_send_epoch = keys.app_send_epoch
      /\ keys'.prev_app_send_epoch = keys.prev_app_send_epoch
  BY <1>1 DEF CountRecord, SendKeysType
<1>7. TypeOK'
  <2>1. rec \in [key : Nat, epoch : Nat, seq : Nat, serial : Nat]
    BY <1>1, <1>3
  <2> QED BY <1>1, <1>2, <1>4, <2>1 DEF TypeOK, SendInv
<1>8. EpochsInOrder'
  BY <1>6 DEF EpochsInOrder, SendInv
<1>9. SavedHaveKeys'
  BY <1>6 DEF SavedHaveKeys, SendInv, Usable
<1>10. CountersAhead'
  <2>1. /\ keys'.hs_send_seq >= keys.hs_send_seq
        /\ keys'.app_send_seq >= keys.app_send_seq
        /\ keys'.prev_app_send_seq >= keys.prev_app_send_seq
        /\ keys'.hs_send_seq \in Nat /\ keys'.app_send_seq \in Nat /\ keys'.prev_app_send_seq \in Nat
    BY <1>1 DEF CountRecord, SendKeysType
  <2>2. SendSeq(keys', e) = SendSeq(keys, e) + 1
    BY <1>1, <1>6 DEF SendSeq, CountRecord, UsesPrev, SendKeysType
  <2>3. ASSUME NEW r \in protected
        PROVE  /\ r.seq \in Nat /\ r.key \in Nat /\ r.serial \in Nat
               /\ r.serial < sends'
               /\ r.key = 2 => r.seq < keys'.hs_send_seq /\ keys'.hs_send_keys
               /\ r.key # 2 => keys'.app_send_keys /\ r.key <= keys'.app_send_epoch
               /\ r.key = keys'.app_send_epoch => r.seq < keys'.app_send_seq
               /\ keys'.prev_app_send_keys /\ r.key = keys'.prev_app_send_epoch
                    => r.seq < keys'.prev_app_send_seq
    BY <1>1, <1>2, <1>6, <2>1 DEF SendInv, TypeOK, CountersAhead, SendKeysType
  <2>4. /\ rec.serial < sends'
        /\ rec.key = 2 => rec.seq < keys'.hs_send_seq /\ keys'.hs_send_keys
        /\ rec.key # 2 => keys'.app_send_keys /\ rec.key <= keys'.app_send_epoch
        /\ rec.key = keys'.app_send_epoch => rec.seq < keys'.app_send_seq
        /\ keys'.prev_app_send_keys /\ rec.key = keys'.prev_app_send_epoch
             => rec.seq < keys'.prev_app_send_seq
    BY <1>1, <1>2, <1>3, <1>6, <2>1, <2>2
       DEF SendSeq, Usable, UsesPrev, SendInv, EpochsInOrder, SendKeysType
  <2> HIDE DEF rec
  <2> QED BY <1>2, <2>3, <2>4 DEF CountersAhead
<1>11. NonceUnique'
  <2>1. \A r \in protected : ~(r.key = rec.key /\ r.seq = rec.seq)
    BY <1>1, <1>3, <1>5 DEF SendInv, TypeOK
  <2> HIDE DEF rec
  <2> QED BY <1>2, <2>1 DEF NonceUnique, SendInv
<1>12. LabelMatchesKey' /\ SequenceNeverWraps'
  <2> HIDE DEF rec
  <2> QED BY <1>2, <1>3 DEF LabelMatchesKey, SequenceNeverWraps, SendInv
<1> QED BY <1>7, <1>8, <1>9, <1>10, <1>11, <1>12 DEF SendInv

\* create_key_update: the message leaves under the old keys, which are
\* retained, and the new epoch has no record yet.
LEMMA SendKeyUpdate ==
  ASSUME SendInv, released, NEW t \in JitteredThresholds,
         CanProtect(keys, keys.app_send_epoch),
         keys' = update_send_keys(CountRecord(keys, keys.app_send_epoch), t),
         Leave(keys.app_send_epoch),
         released' = released, saved' = {keys.app_send_epoch}
  PROVE  SendInv'
<1> DEFINE e == keys.app_send_epoch
           rec == [key |-> SendKey(keys, e), epoch |-> e, seq |-> SendSeq(keys, e), serial |-> sends]
<1>1. /\ keys \in SendKeysType /\ sends \in Nat /\ e \in Nat /\ e >= 3
      /\ keys.app_send_keys /\ keys.hs_send_keys /\ ~UsesPrev(keys, e)
  BY DEF SendInv, TypeOK, EpochsInOrder, UsesPrev, SendKeysType
<1>2. /\ protected' = protected \cup {rec}
      /\ sends' = sends + 1
  BY DEF Leave
<1>3. rec.key = e /\ rec.epoch = e /\ rec.seq = keys.app_send_seq /\ rec.seq \in Nat
      /\ rec.seq < MAX_SEQUENCE_NUMBER /\ rec.serial = sends
  <2>1. SendKey(keys, e) = e /\ SendSeq(keys, e) = keys.app_send_seq
    BY <1>1 DEF SendKey, SendSeq
  <2>2. keys.app_send_seq \in Nat
    BY <1>1 DEF SendKeysType
  <2> QED BY <2>1, <2>2 DEF CanProtect
<1>4. /\ keys' \in SendKeysType
      /\ keys'.hs_send_keys = keys.hs_send_keys /\ keys'.hs_send_seq = keys.hs_send_seq
      /\ keys'.app_send_keys /\ keys'.app_send_epoch = e + 1 /\ keys'.app_send_seq = 0
      /\ keys'.prev_app_send_keys /\ keys'.prev_app_send_epoch = e
      /\ keys'.prev_app_send_seq = keys.app_send_seq + 1
  <2> DEFINE c == CountRecord(keys, e)
  <2>0. c \in SendKeysType
    BY <1>1, CountRecordType
  <2>1. /\ c.hs_send_keys = keys.hs_send_keys /\ c.hs_send_seq = keys.hs_send_seq
        /\ c.app_send_keys = keys.app_send_keys
        /\ c.app_send_epoch = e /\ c.app_send_seq = keys.app_send_seq + 1
    <3> DEFINE s == keys.app_send_seq + 1
               n == keys.app_send_record_count + 1
               b == keys.needs_key_update \/ n >= keys.aead_encryption_threshold
    <3>1. e # 2
      BY <1>1
    <3>2. c = [keys EXCEPT !.app_send_seq = s, !.app_send_record_count = n,
                           !.needs_key_update = b]
      BY <1>1, <3>1 DEF CountRecord
    <3> HIDE DEF s, n, b, c, e
    <3>3. /\ c.hs_send_keys = keys.hs_send_keys /\ c.hs_send_seq = keys.hs_send_seq
          /\ c.app_send_keys = keys.app_send_keys
          /\ c.app_send_epoch = keys.app_send_epoch /\ c.app_send_seq = s
      BY <1>1, <3>2 DEF SendKeysType
    <3> QED BY <3>3 DEF s, e
  <2>2. keys' = update_send_keys(c, t)
    OBVIOUS
  <2> HIDE DEF c
  <2>3. keys' \in SendKeysType
    BY <2>0, <2>2, UpdateType
  <2>4. /\ keys'.hs_send_keys = c.hs_send_keys /\ keys'.hs_send_seq = c.hs_send_seq
        /\ keys'.app_send_keys = c.app_send_keys
        /\ keys'.app_send_epoch = c.app_send_epoch + 1 /\ keys'.app_send_seq = 0
        /\ keys'.prev_app_send_keys /\ keys'.prev_app_send_epoch = c.app_send_epoch
        /\ keys'.prev_app_send_seq = c.app_send_seq
    BY <2>0, <2>2, UpdateFields
  <2> QED BY <1>1, <2>1, <2>3, <2>4
<1>5. TypeOK' /\ EpochsInOrder' /\ SavedHaveKeys'
  <2>1. rec \in [key : Nat, epoch : Nat, seq : Nat, serial : Nat]
    BY <1>1, <1>3
  <2>2. TypeOK'
    BY <1>1, <1>2, <1>4, <2>1 DEF TypeOK, SendInv
  <2>3. EpochsInOrder' /\ SavedHaveKeys'
    BY <1>1, <1>4 DEF EpochsInOrder, SavedHaveKeys
  <2> QED BY <2>2, <2>3
<1>6. \A r \in protected : /\ r.seq \in Nat /\ r.key \in Nat /\ r.serial \in Nat
                           /\ r.serial < sends
                           /\ r.key = 2 => r.seq < keys.hs_send_seq
                           /\ r.key <= e \/ r.key = 2
                           /\ r.key = e => r.seq < keys.app_send_seq
  BY <1>1 DEF SendInv, TypeOK, CountersAhead
<1>7. CountersAhead'
  <2>1. keys.hs_send_seq \in Nat /\ keys.app_send_seq \in Nat
    BY <1>1 DEF SendKeysType
  <2>2. \A r \in protected \cup {rec} :
          /\ r.serial < sends'
          /\ r.key = 2 => r.seq < keys'.hs_send_seq /\ keys'.hs_send_keys
          /\ r.key # 2 => keys'.app_send_keys /\ r.key <= keys'.app_send_epoch
          /\ r.key = keys'.app_send_epoch => r.seq < keys'.app_send_seq
          /\ keys'.prev_app_send_keys /\ r.key = keys'.prev_app_send_epoch
               => r.seq < keys'.prev_app_send_seq
    <3> HIDE DEF rec, e
    <3> QED BY <1>1, <1>2, <1>3, <1>4, <1>6, <2>1
  <2> HIDE DEF rec, e
  <2> QED BY <1>2, <2>2 DEF CountersAhead
<1>8. NonceUnique' /\ LabelMatchesKey' /\ SequenceNeverWraps'
  <2>1. \A r \in protected : ~(r.key = rec.key /\ r.seq = rec.seq)
    BY <1>3, <1>6
  <2> HIDE DEF rec, e
  <2> QED BY <1>2, <1>3, <2>1
          DEF NonceUnique, LabelMatchesKey, SequenceNeverWraps, SendInv
<1> QED BY <1>5, <1>7, <1>8 DEF SendInv

\* A step that sends nothing and only forgets saved entries or retained keys.
LEMMA SendNothing ==
  ASSUME SendInv, keys' = keys, released' = released, sends' = sends, protected' = protected,
         saved' \subseteq saved \cup {e \in Nat : Usable(e)}
  PROVE  SendInv'
BY DEF SendInv, TypeOK, EpochsInOrder, SavedHaveKeys, CountersAhead, Usable,
       NonceUnique, LabelMatchesKey, SequenceNeverWraps

\* Every step of the engine that concerns the send keys preserves SendInv.
LEMMA SendStep == SendInv /\ [Next]_vars => SendInv'
<1> SUFFICES ASSUME SendInv, [Next]_vars PROVE SendInv'
  OBVIOUS
<1>0. keys \in SendKeysType /\ saved \subseteq Nat
  BY DEF SendInv, TypeOK
<1>1. CASE InstallHandshakeKeys
  <2>1. /\ keys' \in SendKeysType /\ keys'.hs_send_keys
        /\ keys'.app_send_keys = keys.app_send_keys
        /\ keys'.prev_app_send_keys = keys.prev_app_send_keys
        /\ keys'.app_send_epoch = keys.app_send_epoch
        /\ keys'.app_send_seq = keys.app_send_seq
        /\ keys'.prev_app_send_epoch = keys.prev_app_send_epoch
        /\ keys'.prev_app_send_seq = keys.prev_app_send_seq
    BY <1>0, <1>1 DEF InstallHandshakeKeys, install_handshake_keys, SendKeysType
  <2>2. \A r \in protected : r.key # 2
    BY <1>1 DEF InstallHandshakeKeys, SendInv, CountersAhead
  <2> QED BY <1>1, <2>1, <2>2
          DEF InstallHandshakeKeys, SendInv, TypeOK, EpochsInOrder, SavedHaveKeys,
              CountersAhead, NonceUnique, LabelMatchesKey, SequenceNeverWraps
<1>2. CASE InstallApplicationKeys
  <2>1. /\ keys' \in SendKeysType /\ keys'.hs_send_keys /\ keys'.app_send_keys
        /\ keys'.hs_send_seq = keys.hs_send_seq
        /\ keys'.prev_app_send_keys = keys.prev_app_send_keys
        /\ keys'.app_send_epoch = 3
        /\ ~keys.prev_app_send_keys /\ ~keys.app_send_keys /\ keys.hs_send_keys
    BY <1>0, <1>2 DEF InstallApplicationKeys, install_application_keys, SendKeysType, SendInv, EpochsInOrder
  <2>2. \A r \in protected : r.key = 2
    BY <2>1 DEF SendInv, CountersAhead
  <2>3. \A e \in saved : e = 2
    BY <2>1 DEF SendInv, SavedHaveKeys
  <2> QED BY <1>2, <2>1, <2>2, <2>3
          DEF InstallApplicationKeys, SendInv, TypeOK, EpochsInOrder, SavedHaveKeys,
              CountersAhead, NonceUnique, LabelMatchesKey, SequenceNeverWraps
<1>3. CASE ReleaseApplicationData
  BY <1>3 DEF ReleaseApplicationData, SendInv, TypeOK, EpochsInOrder, SavedHaveKeys,
              CountersAhead, NonceUnique, LabelMatchesKey, SequenceNeverWraps
<1>4. CASE ResetForHelloRetry
  <2>1. /\ keys' \in SendKeysType /\ keys'.hs_send_keys = keys.hs_send_keys
        /\ keys'.app_send_keys = keys.app_send_keys
        /\ keys'.prev_app_send_keys = keys.prev_app_send_keys
        /\ keys'.app_send_epoch = keys.app_send_epoch
        /\ keys'.app_send_seq = keys.app_send_seq
        /\ keys'.prev_app_send_epoch = keys.prev_app_send_epoch
        /\ keys'.prev_app_send_seq = keys.prev_app_send_seq
    BY <1>0, <1>4 DEF ResetForHelloRetry, SendKeysType
  <2>2. \A r \in protected : r.key # 2
    BY <1>4 DEF ResetForHelloRetry, SendInv, CountersAhead
  <2> QED BY <1>4, <2>1, <2>2
          DEF ResetForHelloRetry, SendInv, TypeOK, EpochsInOrder, SavedHaveKeys,
              CountersAhead, NonceUnique, LabelMatchesKey, SequenceNeverWraps
<1>5. ASSUME NEW room \in BOOLEAN, NEW e \in {2, keys.app_send_epoch}, CreateRecord(e, room)
      PROVE  SendInv'
  <2>1. Usable(e)
    BY <1>0, <1>5 DEF CreateRecord, CanProtect, Usable, SendInv, EpochsInOrder, SendKeysType
  <2> QED BY <1>5, <2>1, SendOne DEF CreateRecord
<1>6. ASSUME NEW room \in BOOLEAN, CreateHandshake(room)
      PROVE  SendInv'
  <2>1. Usable(2)
    BY <1>6 DEF CreateHandshake, Usable
  <2>2. CASE CanProtect(keys, 2) /\ room
    BY <1>6, <2>1, <2>2, SendOne DEF CreateHandshake
  <2>3. CASE ~(CanProtect(keys, 2) /\ room)
    BY <1>6, <2>1, <2>3, SendNothing DEF CreateHandshake
  <2> QED BY <2>2, <2>3
<1>7. ASSUME NEW room \in BOOLEAN, NEW t \in JitteredThresholds, CreateKeyUpdate(room, t)
      PROVE  SendInv'
  <2>1. CASE CanProtect(keys, keys.app_send_epoch) /\ room
    BY <1>7, <2>1, SendKeyUpdate DEF CreateKeyUpdate
  <2>2. CASE ~(CanProtect(keys, keys.app_send_epoch) /\ room)
    <3>1. Usable(keys.app_send_epoch)
      BY <1>0, <1>7 DEF CreateKeyUpdate, Usable, SendInv, EpochsInOrder, SendKeysType
    <3>2. keys.app_send_epoch \in Nat
      BY <1>0 DEF SendKeysType
    <3> QED BY <1>7, <2>2, <3>1, <3>2, SendNothing DEF CreateKeyUpdate
  <2> QED BY <2>1, <2>2
<1>8. ASSUME NEW room \in BOOLEAN, NEW e \in saved, FlightResend(e, room)
      PROVE  SendInv'
  <2>1. Usable(e)
    BY <1>0 DEF Usable, SendInv, SavedHaveKeys
  <2>2. CASE CanProtect(keys, e) /\ room
    BY <1>8, <2>1, <2>2, SendOne DEF FlightResend
  <2>3. CASE ~(CanProtect(keys, e) /\ room)
    BY <1>8, <2>3, SendNothing DEF FlightResend
  <2> QED BY <2>2, <2>3
<1>9. CASE ClearResends
  BY <1>9, SendNothing DEF ClearResends
<1>10. CASE ProcessAck
  <2>1. CASE keys' = keys
    BY <1>10, <2>1, SendNothing DEF ProcessAck
  <2>2. CASE keys' = DropPrevKeys(keys)
    <3>1. /\ keys' \in SendKeysType /\ ~keys'.prev_app_send_keys
          /\ keys'.hs_send_keys = keys.hs_send_keys /\ keys'.hs_send_seq = keys.hs_send_seq
          /\ keys'.app_send_keys = keys.app_send_keys
          /\ keys'.app_send_epoch = keys.app_send_epoch
          /\ keys'.app_send_seq = keys.app_send_seq
      BY <1>0, <2>2 DEF DropPrevKeys, SendKeysType
    <3> QED BY <1>10, <3>1
            DEF ProcessAck, SendInv, TypeOK, EpochsInOrder, SavedHaveKeys,
                CountersAhead, NonceUnique, LabelMatchesKey, SequenceNeverWraps
  <2> QED BY <1>10, <2>1, <2>2 DEF ProcessAck
<1>11. CASE UNCHANGED vars
  BY <1>11, SendNothing DEF vars
<1> QED BY <1>1, <1>2, <1>3, <1>4, <1>5, <1>6, <1>7, <1>8, <1>9, <1>10, <1>11 DEF Next

\* Spec => []NonceUnique: no AEAD nonce is used twice under the same keys,
\* however many records, rotations, retransmissions and failed sends there are.
THEOREM NoncesNeverReused == Spec => []NonceUnique
<1>1. SendInv => NonceUnique
  BY DEF SendInv
<1> QED BY SendInit, SendStep, <1>1, PTL DEF Spec

\* Spec => []LabelMatchesKey: create_ciphertext_record's fallback to the current
\* keys never encrypts a record labelled with another epoch.
THEOREM LabelsHonest == Spec => []LabelMatchesKey
<1>1. SendInv => LabelMatchesKey
  BY DEF SendInv
<1> QED BY SendInit, SendStep, <1>1, PTL DEF Spec

\* Spec => []SequenceNeverWraps: the 48-bit sequence number never wraps.
THEOREM SequenceBounded == Spec => []SequenceNeverWraps
<1>1. SendInv => SequenceNeverWraps
  BY DEF SendInv
<1> QED BY SendInit, SendStep, <1>1, PTL DEF Spec

\* Spec => []TypeOK: the send keys, counters and history keep their types.
THEOREM SendTypeCorrect == Spec => []TypeOK
<1>1. SendInv => TypeOK
  BY DEF SendInv
<1> QED BY SendInit, SendStep, <1>1, PTL DEF Spec
=============================================================================
