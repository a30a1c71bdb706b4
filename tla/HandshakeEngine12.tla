-------------------------- MODULE HandshakeEngine12 -------------------------
(***************************************************************************)
(* The DTLS 1.2 engine (dtls12/engine.rs, dtls12/incoming.rs): plaintext   *)
(* records of epoch 0, protected ones of epoch 1, retransmission by timer  *)
(* and by what the peer repeats, ChangeCipherSpec, alerts and application  *)
(* data.  As in HandshakeEngine13 an engine is a record, an operator for a *)
(* call returns the engine after it, lengths are counted in units of which *)
(* `mtu' fit in a datagram, and keys and hashes are the transcripts they   *)
(* are computed from.                                                      *)
(***************************************************************************)
EXTENDS Reassembly, CryptoContext12

CONSTANTS flight_retries, max_queue_tx, max_queue_rx,
          MaxRecords      \* records taken from one datagram (8 in the code)

ASSUME HandshakeEngineAssumption ==
  /\ flight_retries \in Nat
  /\ {max_queue_tx, max_queue_rx, MaxRecords} \subseteq Nat \ {0}

Failed(e) == e.error # "None"

Fail(e, error) == [e EXCEPT !.error = error]

\* The `?' of the code: an error ends the call.
Then(e, Rest(_)) == IF Failed(e) THEN e ELSE Rest(e)

-----------------------------------------------------------------------------
(* Messages.                                                               *)

\* One unit of a message body: the client's random and the cookie made from it,
\* what a hello offers or selects, a public key or an identity, how it is
\* signed, and what a CertificateVerify or Finished covers.  All hellos offer
\* the same signatures and SRTP profiles: they do not show.
Plain == [random |-> "None", cookie |-> <<>>, suite |-> "None", suites |-> <<>>, groups |-> <<>>, srtp |-> "None",
          public_key |-> <<>>, algorithms |-> <<>>, digest |-> <<>>]

\* SignatureAndHashAlgorithm::supported.
SupportedAlgorithms == <<<<"SHA256", "ECDSA">>, <<"SHA384", "ECDSA">>, <<"SHA256", "RSA">>, <<"SHA384", "RSA">>>>

\* SrtpProfileId::supported.
SupportedProfiles == <<"AES128_CM_SHA1_80", "AEAD_AES_128_GCM", "AEAD_AES_256_GCM">>

NoFragment == Fragment("None", 0, <<>>, 0, 0)

Content(type) == [type |-> type, frag |-> NoFragment, data |-> 0]

HandshakeContent(frag) == [Content("Handshake") EXCEPT !.frag = frag]

DataContent(n) == [Content("ApplicationData") EXCEPT !.data = n]

\* The transcript has the message with its number.  An accepted signature or
\* verify_data is a function of the messages before it: it keeps none.
TranscriptEntry(msg_type, seq, body) ==
  [msg_type |-> msg_type, seq |-> seq,
   body |-> [i \in DOMAIN body |-> [body[i] EXCEPT !.digest = <<>>]]]

epoch_for_message(msg_type) == IF msg_type = "Finished" THEN 1 ELSE 0


\* The messages that call for a resend when they come again.
dupe_triggers_resend(h) ==
  /\ h.fragment_offset = 0
  /\ h.msg_type \in {"ClientHello", "HelloVerifyRequest", "ServerHelloDone", "ClientKeyExchange"}

NewEngine(is_client, config) ==
  [is_client  |-> is_client,
   config     |-> config,
   state      |-> IF is_client THEN "SendClientHello" ELSE "AwaitClientHello",
   error      |-> "None",
   queue_tx   |-> <<>>,
   queue_rx   |-> <<>>,
   saved      |-> <<>>,        \* flight_saved_records
   flight     |-> "Unarmed",   \* flight_timeout
   connect    |-> "Unarmed",   \* connect_timeout
   left       |-> flight_retries,
   next_seq   |-> 0,           \* next_handshake_seq_no
   peer_seq   |-> 0,           \* peer_handshake_seq_no
   send_seq   |-> [epoch \in {0, 1} |-> 0],
   peer_enc   |-> FALSE,       \* peer_encryption_enabled
   confirmed  |-> FALSE,       \* peer_handshake_confirmed
   released   |-> FALSE,       \* release_app_data
   close_notify |-> FALSE,     \* close_notify_received
   seen       |-> {},          \* the replay window
   transcript |-> <<>>,
   suite      |-> "None",      \* cipher_suite
   crypto     |-> NewContext(IF config.psk = "None" THEN "Certificate" ELSE "Psk"),
   client_groups |-> <<>>,     \* client_supported_groups
   srtp       |-> "None",      \* negotiated_srtp_profile
   keying     |-> <<>>,        \* of the KeyingMaterial event
   session_hash |-> <<>>,      \* captured_session_hash
   cookie     |-> <<>>,
   certificates |-> FALSE,     \* the peer's
   certificate_verify |-> FALSE,
   psk_valid  |-> "None",
   queued     |-> <<>>,        \* queued_data
   events     |-> <<>>]        \* the local_events so far

\* An error of the context is one of the call.
WithContext(e, cx) ==
  IF cx.error # "None" THEN Fail(e, "CryptoError") ELSE [e EXCEPT !.crypto = cx]

is_cipher_suite_allowed(e, suite) == suite \in Range(e.config.suites)

-----------------------------------------------------------------------------
(* Sending.                                                                *)

\* encrypt_data's key, and whether decrypt_data opens a record.
encrypt_data(e) == WriteKey(e.crypto, e.is_client)

decrypt_data(e, r) == e.crypto.keys # <<>> /\ r.key = WriteKey(e.crypto, ~e.is_client)

Length(content) ==
  IF content.type = "Handshake" /\ content.frag.data # <<>> THEN Len(content.frag.data) ELSE 1

Used(datagram) == FoldLeft(LAMBDA n, r : n + Length(r), 0, datagram)

\* The record joins the last datagram if it fits.
CanAppend(e, content) == e.queue_tx # <<>> /\ Used(Last(e.queue_tx)) + Length(content) <= e.config.mtu

Enqueue(e, record, can_append) ==
  IF ~can_append /\ Len(e.queue_tx) >= max_queue_tx THEN Fail(e, "TransmitQueueFull")
  ELSE IF record.epoch = 1 /\ record.key = <<>> THEN Fail(e, "CryptoError")
  ELSE [e EXCEPT !.send_seq[record.epoch] = @ + 1,
                 !.queue_tx = IF can_append THEN Append(Front(@), Append(Last(@), record)) ELSE Append(@, <<record>>)]

\* The entry for a retransmission is saved before the queue is found full.
create_record(e, epoch, content, save) ==
  IF epoch = 1 /\ e.suite = "None" THEN Fail(e, "InvalidState")
  ELSE Enqueue([e EXCEPT !.saved = IF save THEN Append(@, [epoch |-> epoch, content |-> content]) ELSE @],
               [epoch |-> epoch, seq |-> e.send_seq[epoch], key |-> IF epoch = 1 THEN encrypt_data(e) ELSE <<>>,
                handled |-> FALSE, inner |-> content.type, type |-> content.type,
                frag |-> content.frag, data |-> content.data],
               CanAppend(e, content))

\* A fragment takes what is free in the last datagram, or all of the next; a
\* message without a body is one record all the same.
Chunk(left, used, mtu) ==
  LET free == IF used < mtu THEN mtu - used ELSE mtu IN IF left < free THEN left ELSE free

RECURSIVE SendFragments(_, _, _, _, _)
SendFragment(e, msg_type, seq, body, offset, chunk) ==
  Then(create_record(e, epoch_for_message(msg_type),
                     HandshakeContent(Fragment(msg_type, seq, body, offset, chunk)), TRUE),
       LAMBDA s : IF offset + chunk >= Len(body) THEN s
                  ELSE SendFragments(s, msg_type, seq, body, offset + chunk))

SendFragments(e, msg_type, seq, body, offset) ==
  SendFragment(e, msg_type, seq, body, offset,
               Chunk(Len(body) - offset, IF e.queue_tx = <<>> THEN 0 ELSE Used(Last(e.queue_tx)), e.config.mtu))

create_handshake(e, msg_type, body) ==
  SendFragments([e EXCEPT !.transcript = Append(@, TranscriptEntry(msg_type, e.next_seq, body)),
                          !.next_seq = @ + 1],
                msg_type, e.next_seq, body, 0)

flight_begin(e) == [e EXCEPT !.left = flight_retries, !.saved = <<>>, !.flight = "Unarmed"]

\* The client has the server's last flight when it stops its timers, so the
\* server is through; the server knows nothing of the client then.
flight_stop_resend_timers(e) ==
  [e EXCEPT !.flight = "Disabled", !.connect = "Disabled", !.confirmed = @ \/ e.is_client]

\* During the handshake what waits to be sent is replaced, not repeated; there
\* is then no datagram that the first record could join.
flight_resend(e) ==
  LET Resend(s, entry) == IF Failed(s) THEN s ELSE create_record(s, entry.epoch, entry.content, FALSE)
  IN  FoldLeft(Resend, [e EXCEPT !.queue_tx = IF e.released THEN @ ELSE <<>>], e.saved)

discard_pending_writes(e) == [e EXCEPT !.queue_tx = <<>>]

abort(e) == [e EXCEPT !.queue_tx = <<>>, !.saved = <<>>, !.flight = "Disabled", !.connect = "Disabled"]

-----------------------------------------------------------------------------
(* Receiving.                                                              *)

\* A protected record that comes before the ChangeCipherSpec took effect is
\* kept as it is: its content type shows, its content does not.
Raw(r) == [r EXCEPT !.type = "Raw"]

\* Data that can be opened shows that the peer's handshake is over.
note_decrypted_record(e, content_type) == [e EXCEPT !.confirmed = @ \/ content_type = "ApplicationData"]

\* Fault: the replay window is not consulted.
ParseRecord_NoWindow(acc, r) ==
  IF Failed(acc.e) THEN acc
  ELSE IF r.epoch = 0 THEN [acc EXCEPT !.parsed = Append(@, r)]
  ELSE IF ~acc.e.peer_enc THEN [acc EXCEPT !.parsed = Append(@, Raw(r))]
  ELSE IF ~decrypt_data(acc.e, r)
  THEN [acc EXCEPT !.e = IF acc.e.released THEN @ ELSE Fail(@, "CryptoError")]
  ELSE [acc EXCEPT !.parsed = Append(@, r)]

\* Record::parse.  A record that cannot be opened is an error as long as the
\* handshake lasts, and is dropped after it.
ParseRecord(acc, r) ==
  IF Failed(acc.e) THEN acc
  ELSE IF r.epoch = 0 THEN [acc EXCEPT !.parsed = Append(@, r)]
  ELSE IF ~acc.e.peer_enc THEN [acc EXCEPT !.parsed = Append(@, Raw(r))]
  ELSE IF r.seq \in acc.e.seen THEN acc
  ELSE IF ~decrypt_data(acc.e, r)
  THEN [acc EXCEPT !.e = IF acc.e.released THEN @ ELSE Fail(@, "CryptoError")]
  ELSE [e |-> note_decrypted_record([acc.e EXCEPT !.seen = @ \cup {r.seq}], r.type),
        parsed |-> Append(acc.parsed, r)]

\* What of the plaintext is of no use once the peer encrypts.
IsStale(e, r) ==
  /\ e.peer_enc /\ r.epoch = 0
  /\ r.type = "ChangeCipherSpec" \/ (IsHandshake(r) /\ ~dupe_triggers_resend(r.frag))

\* classify_record; the only alert the two endpoints send is close_notify.
ClassifyRecord(acc, r) ==
  IF IsStale(acc.e, r) THEN acc
  ELSE IF r.type = "Alert" THEN [acc EXCEPT !.e.close_notify = TRUE]
  ELSE IF acc.e.close_notify /\ r.type = "ApplicationData" THEN acc
  ELSE [acc EXCEPT !.kept = Append(@, r)]

\* Fault: it does not matter whether the peer has finished.
RepeatsFlight_Always(e, item) ==
  LET calls == SelectSeq(item, LAMBDA r : IsHandshake(r) /\ dupe_triggers_resend(r.frag))
  IN  calls # <<>> /\ calls[1].frag.message_seq < e.peer_seq

\* The first message of the datagram that calls for a resend is old, and the
\* peer is not known to have finished.
RepeatsFlight(e, item) ==
  LET calls == SelectSeq(item, LAMBDA r : IsHandshake(r) /\ dupe_triggers_resend(r.frag))
  IN  calls # <<>> /\ calls[1].frag.message_seq < e.peer_seq /\ ~e.confirmed

\* Fault: plaintext messages are kept after the peer encrypts.
insert_incoming_handshake_KeepsOld(e, item) ==
  Then(IF RepeatsFlight(e, item) THEN flight_resend(e) ELSE e,
       LAMBDA s : IF e.released THEN Fail(s, "RenegotiationAttempt")
                  ELSE [s EXCEPT !.queue_rx = Insert12(@, item)])

insert_incoming_handshake(e, item) ==
  Then(IF RepeatsFlight(e, item) THEN flight_resend(e) ELSE e,
       LAMBDA s : IF item[1].frag.message_seq < e.peer_seq \/ (e.peer_enc /\ item[1].epoch = 0) THEN s
                  ELSE IF e.released THEN Fail(s, "RenegotiationAttempt")
                  ELSE [s EXCEPT !.queue_rx = Insert12(@, item)])

SequenceBefore(r, s) == r.epoch < s.epoch \/ (r.epoch = s.epoch /\ r.seq < s.seq)

\* Plaintext handshakes behind the first record are not looked at any more
\* once the peer encrypts.  A datagram with a record number that is in the queue
\* is a duplicate, which is taken to be impossible in epoch 1.
insert_incoming_non_handshake(e, item) ==
  LET usable == [i \in DOMAIN item |->
                   [item[i] EXCEPT !.handled = @ \/ (e.peer_enc /\ item[i].epoch = 0 /\ IsHandshake(item[i]))]]
      before == {i \in DOMAIN e.queue_rx : SequenceBefore(e.queue_rx[i][1], item[1])}
      same   == {i \in DOMAIN e.queue_rx :
                   e.queue_rx[i][1].epoch = item[1].epoch /\ e.queue_rx[i][1].seq = item[1].seq}
  IN  IF same = {} THEN [e EXCEPT !.queue_rx = InsertAt(@, 1 + Cardinality(before), usable)]
      ELSE IF item[1].epoch # 0 THEN Fail(e, "AssertionFailed")
      ELSE e

\* Records::parse: a datagram of too many records is given up at the record
\* that is too many, one with a record in error as a whole.
AtMostRecords(acc, after) ==
  IF Len(after.parsed) <= MaxRecords THEN after
  ELSE [after EXCEPT !.e = Fail(@, "Transient"), !.parsed = acc.parsed]

ParseRecords(e, datagram) ==
  FoldLeft(LAMBDA acc, r : AtMostRecords(acc, ParseRecord(acc, r)), [e |-> e, parsed |-> <<>>], datagram)

ClassifyRecords(p) ==
  IF Failed(p.e) THEN [e |-> p.e, kept |-> <<>>]
  ELSE FoldLeft(ClassifyRecord, [e |-> p.e, kept |-> <<>>], p.parsed)

insert_incoming(e, kept) ==
  IF Failed(e) \/ kept = <<>> THEN e
  ELSE IF Len(e.queue_rx) >= max_queue_rx THEN Fail(e, "ReceiveQueueFull")
  ELSE IF IsHandshake(kept[1]) THEN insert_incoming_handshake(e, kept)
  ELSE insert_incoming_non_handshake(e, kept)

InsertKept(c) == insert_incoming(c.e, c.kept)

parse_packet(e, datagram) == InsertKept(ClassifyRecords(ParseRecords(e, datagram)))

\* From the first datagram with a protected record on, all records that are
\* not handled are parsed again, each for itself.
ParseAgain(e, index) ==
  IF index = 0 THEN e
  ELSE FoldLeft(LAMBDA s, r : IF r.handled \/ Failed(s) THEN s ELSE parse_packet(s, <<[r EXCEPT !.type = r.inner]>>),
                [e EXCEPT !.queue_rx = SubSeq(@, 1, index - 1)],
                FlattenSeq(SubSeq(e.queue_rx, index, Len(e.queue_rx))))

enable_peer_encryption(e) ==
  ParseAgain([e EXCEPT !.peer_enc = TRUE],
             SelectInSeq(e.queue_rx, LAMBDA item : \E j \in DOMAIN item : item[j].epoch = 1))

-----------------------------------------------------------------------------
(* Taking messages and records.                                            *)

has_complete_handshake(e, wanted) == has_complete_handshake12(e.queue_rx, wanted, e.peer_seq)

\* Whether the wanted message is there, the engine after it was taken, and
\* the message.
Take(e, d) ==
  IF ~d.ok THEN Fail([e EXCEPT !.queue_rx = d.queue_rx], "Transient")
  ELSE [e EXCEPT !.queue_rx = d.queue_rx, !.peer_seq = @ + 1,
                 !.transcript = Append(@, TranscriptEntry(d.message.msg_type, e.peer_seq, d.message.body))]

Taking(e, d) == [found |-> TRUE, body |-> d.message.body, e |-> Take(e, d)]

next_handshake(e, wanted) ==
  IF has_complete_handshake(e, wanted) THEN Taking(e, next_handshake12(e.queue_rx))
  ELSE [found |-> FALSE, body |-> <<>>, e |-> e]

\* The usual beginning of a state that waits for a message.
OnFound(n, Handle(_, _)) == IF n.found THEN Then(n.e, LAMBDA e : Handle(e, n.body)) ELSE n.e

Await(e, wanted, Handle(_, _)) == OnFound(next_handshake(e, wanted), Handle)

\* next_record and drop_pending_ccs: the next record must be the
\* ChangeCipherSpec, and all others of its kind go with it.
CcsIsNext(e) ==
  LET waiting == SkipHandled(FlattenSeq(e.queue_rx))
  IN  waiting # <<>> /\ waiting[1].type = "ChangeCipherSpec"

drop_pending_ccs(e) ==
  [e EXCEPT !.queue_rx = [i \in DOMAIN @ |-> [j \in DOMAIN @[i] |->
     [@[i][j] EXCEPT !.handled = @ \/ e.queue_rx[i][j].type = "ChangeCipherSpec"]]]]

reset_server_for_hello_verify_request(e) == [e EXCEPT !.transcript = <<>>, !.queue_rx = <<>>]

reset_client_for_hello_verify_request(e) == [e EXCEPT !.transcript = <<>>]

release_application_data(e) == [e EXCEPT !.released = TRUE]
=============================================================================
