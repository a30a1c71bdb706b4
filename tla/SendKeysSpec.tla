---------------------------- MODULE SendKeysSpec ----------------------------
(***************************************************************************)
(* Every record the DTLS 1.3 engine of one endpoint protects, from the     *)
(* handshake keys on: handshake messages, ACKs, application data, alerts,  *)
(* KeyUpdates and the retransmission of saved records, in any order the    *)
(* state machines and the timers can call them.                            *)
(***************************************************************************)
EXTENDS SendKeys

VARIABLES keys,        \* the engine's send keys and counters
          released,    \* release_app_data: the handshake is over
          saved,       \* epochs of the entries of flight_saved_records
          sends,       \* how many records left so far
          protected    \* the records that left: [key, epoch, seq, serial]

vars == <<keys, released, saved, sends, protected>>

Init == /\ \E threshold \in JitteredThresholds : keys = NoSendKeys(threshold)
        /\ released = FALSE
        /\ saved = {}
        /\ sends = 0
        /\ protected = {}

\* A record labelled `epoch' leaves; its serial number tells two transmissions
\* of one payload apart.
Leave(epoch) ==
  /\ protected' = protected \cup {[key |-> SendKey(keys, epoch), epoch |-> epoch,
                                   seq |-> SendSeq(keys, epoch), serial |-> sends]}
  /\ sends' = sends + 1

InstallHandshakeKeys ==
  /\ ~keys.hs_send_keys
  /\ keys' = install_handshake_keys(keys)
  /\ UNCHANGED <<released, saved, sends, protected>>

\* Both roles install application keys once, after the handshake keys.
InstallApplicationKeys ==
  /\ keys.hs_send_keys /\ ~keys.app_send_keys
  /\ keys' = install_application_keys(keys)
  /\ UNCHANGED <<released, saved, sends, protected>>

ReleaseApplicationData ==
  /\ keys.app_send_keys /\ ~released
  /\ released' = TRUE
  /\ UNCHANGED <<keys, saved, sends, protected>>

\* A HelloRetryRequest comes before any handshake key exists.
ResetForHelloRetry ==
  /\ ~keys.hs_send_keys
  /\ keys' = [keys EXCEPT !.hs_send_seq = 0]
  /\ UNCHANGED <<released, saved, sends, protected>>

\* create_ciphertext_record for an ACK, an alert or application data, at epoch
\* 2 or at the current application epoch; `room' is false when the transmit
\* queue is full, which leaves the counters alone.
CreateRecord(epoch, room) ==
  /\ epoch = 2 \/ (keys.app_send_keys /\ epoch = keys.app_send_epoch)
  /\ CanProtect(keys, epoch) /\ room
  /\ keys' = CountRecord(keys, epoch)
  /\ Leave(epoch)
  /\ UNCHANGED <<released, saved>>

\* create_handshake at epoch 2: the entry is saved before anything can fail.
CreateHandshake(room) ==
  /\ keys.hs_send_keys /\ ~released
  /\ saved' = saved \cup {2}
  /\ IF CanProtect(keys, 2) /\ room
     THEN keys' = CountRecord(keys, 2) /\ Leave(2)
     ELSE UNCHANGED <<keys, sends, protected>>
  /\ UNCHANGED released

\* Fault: the flight before the KeyUpdate is not forgotten.
CreateKeyUpdate_KeepsFlight(room, threshold) ==
  /\ released
  /\ saved' = saved \cup {keys.app_send_epoch}
  /\ IF CanProtect(keys, keys.app_send_epoch) /\ room
     THEN /\ keys' = update_send_keys(CountRecord(keys, keys.app_send_epoch), threshold)
          /\ Leave(keys.app_send_epoch)
     ELSE UNCHANGED <<keys, sends, protected>>
  /\ UNCHANGED released

\* create_key_update: the message leaves under the current keys, then they
\* rotate; on an error they do not, and the entry stays saved.
CreateKeyUpdate(room, threshold) ==
  /\ released
  /\ saved' = {keys.app_send_epoch}
  /\ IF CanProtect(keys, keys.app_send_epoch) /\ room
     THEN /\ keys' = update_send_keys(CountRecord(keys, keys.app_send_epoch), threshold)
          /\ Leave(keys.app_send_epoch)
     ELSE UNCHANGED <<keys, sends, protected>>
  /\ UNCHANGED released

\* One entry of flight_resend; an error loses the entries it took.
FlightResend(epoch, room) ==
  /\ epoch \in saved
  /\ IF CanProtect(keys, epoch) /\ room
     THEN keys' = CountRecord(keys, epoch) /\ Leave(epoch) /\ saved' = saved
     ELSE saved' = {} /\ UNCHANGED <<keys, sends, protected>>
  /\ UNCHANGED released

\* flight_begin, cancel_flights and abort forget the saved entries.
ClearResends == saved' = {} /\ UNCHANGED <<keys, released, sends, protected>>

\* process_ack when every saved entry is acknowledged.
ProcessAck ==
  /\ 2 \in saved \/ (keys.prev_app_send_keys /\ saved # {})
  /\ saved' = {}
  /\ keys' = IF 2 \in saved THEN keys ELSE DropPrevKeys(keys)
  /\ UNCHANGED <<released, sends, protected>>

Next ==
  \/ InstallHandshakeKeys
  \/ InstallApplicationKeys
  \/ ReleaseApplicationData
  \/ ResetForHelloRetry
  \/ \E room \in BOOLEAN :
       \/ \E epoch \in {2, keys.app_send_epoch} : CreateRecord(epoch, room)
       \/ CreateHandshake(room)
       \/ \E threshold \in JitteredThresholds : CreateKeyUpdate(room, threshold)
       \/ \E epoch \in saved : FlightResend(epoch, room)
  \/ ClearResends
  \/ ProcessAck

Spec == Init /\ [][Next]_vars

-----------------------------------------------------------------------------
\* The keys, the counters and the history have their types.
TypeOK ==
  /\ keys \in SendKeysType
  /\ released \in BOOLEAN
  /\ saved \subseteq Nat
  /\ sends \in Nat
  /\ protected \subseteq [key : Nat, epoch : Nat, seq : Nat, serial : Nat]

\* No two records ever leave under the same keys with the same sequence number,
\* i.e. with the same AEAD nonce: not across the handshake, current and
\* previous counters, not after a rotation, a failed send or a retransmission.
NonceUnique ==
  \A r, q \in protected : r.key = q.key /\ r.seq = q.seq => r = q

\* A record is encrypted under the keys of the epoch in its header, so the
\* receiver selects the right keys.  create_ciphertext_record falls back to the
\* current keys for any epoch that is neither 2 nor the previous one, which
\* would mislabel a saved record that outlived its keys.
LabelMatchesKey == \A r \in protected : r.epoch = r.key

\* create_ciphertext_record never numbers a record MAX_SEQUENCE_NUMBER or more.
SequenceNeverWraps == \A r \in protected : r.seq < MAX_SEQUENCE_NUMBER
=============================================================================
