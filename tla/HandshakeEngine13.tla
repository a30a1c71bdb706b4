-------------------------- MODULE HandshakeEngine13 -------------------------
(***************************************************************************)
(* The DTLS 1.3 engine (dtls13/engine.rs, dtls13/incoming.rs) during the   *)
(* handshake: records of epochs 0, 2 and 3, fragmentation, retransmission, *)
(* ACKs, the transcript and the keys derived from it.  Engine13 models the *)
(* engine after the handshake.  An engine is a record, and an operator for *)
(* a call takes the engine before it and returns the engine after it; a    *)
(* call that fails leaves its Error in the field `error'.                  *)
(*                                                                         *)
(* The length of a message is counted in units that fill a datagram after  *)
(* `mtu' of them; headers and tags have no length.  Hashes, MACs and key   *)
(* derivations are injective: a key is the transcript it comes from, and a *)
(* record can be opened by who holds the key that sealed it.               *)
(***************************************************************************)
EXTENDS Reassembly

CONSTANTS flight_retries, max_queue_tx, max_queue_rx,
          MaxRecords   \* how many records of a datagram Records::parse takes

ASSUME HandshakeEngineAssumption ==
  flight_retries \in Nat /\ {max_queue_tx, max_queue_rx, MaxRecords} \subseteq Nat \ {0}

Failed(e) == e.error # "None"

Fail(e, error) == [e EXCEPT !.error = error]

\* The `?' of the code: an error ends the call.
Then(e, Rest(_)) == IF Failed(e) THEN e ELSE Rest(e)

-----------------------------------------------------------------------------
(* Messages.                                                               *)

\* One unit of a message body.  All units have all the fields: what a hello
\* offers or selects (`dtls13': in supported_versions, `group': of its key
\* share), the client's random that a cookie is made from, the SRTP profile,
\* the curve of a certificate or the scheme of a signature, and what a
\* CertificateVerify or Finished covers.
Plain ==
  [dtls13 |-> TRUE, retry |-> FALSE, group |-> "None", random |-> "None", cookie |-> <<>>,
   suite |-> "None", groups |-> <<>>, suites |-> <<>>, srtp |-> "None", scheme |-> "None", digest |-> <<>>]

NoFragment == Fragment("None", 0, <<>>, 0, 0)

Content(type) == [type |-> type, frag |-> NoFragment, acks |-> {}, data |-> 0]

HandshakeContent(frag) == [Content("Handshake") EXCEPT !.frag = frag]

AckContent(numbers) == [Content("Ack") EXCEPT !.acks = numbers]

DataContent(n) == [Content("ApplicationData") EXCEPT !.data = n]

\* A signature or a verify_data that was accepted is a function of the
\* messages before it, so the transcript keeps none.
TranscriptEntry(message) ==
  [message EXCEPT !.body = [i \in DOMAIN @ |-> [@[i] EXCEPT !.digest = <<>>]]]

epoch_for_message(msg_type) == IF msg_type \in {"ClientHello", "ServerHello"} THEN 0 ELSE 2

NewEngine(is_client, config) ==
  [is_client  |-> is_client,
   config     |-> config,
   state      |-> IF is_client THEN "SendClientHello" ELSE "AwaitClientHello",
   error      |-> "None",
   queue_tx   |-> <<>>,        \* datagrams, each a sequence of records
   sealed     |-> FALSE,       \* datagram_sealed
   queue_rx   |-> <<>>,
   saved      |-> <<>>,        \* flight_saved_records
   flight     |-> "Unarmed",   \* flight_timeout
   connect    |-> "Unarmed",   \* connect_timeout
   left       |-> flight_retries,
   ack        |-> "None",      \* handshake_ack_deadline: None, Now or Later
   next_seq   |-> 0,           \* next_handshake_seq_no
   peer_seq   |-> 0,           \* peer_handshake_seq_no
   send_seq   |-> [epoch \in {0, 2, 3} |-> 0],
   hs_key     |-> <<>>,        \* hs_send_keys and, with hs_recv, hs_recv_keys
   hs_recv    |-> FALSE,
   app_key    |-> <<>>,        \* app_send_keys and app_recv_keys
   peer_enc   |-> FALSE,       \* peer_encryption_enabled
   released   |-> FALSE,       \* release_app_data
   seen       |-> [epoch \in {2, 3} |-> {}],   \* the replay windows
   numbers    |-> {},          \* received_record_numbers
   transcript |-> <<>>,
   suite      |-> "None",      \* cipher_suite
   hello_retry |-> FALSE,
   cookie     |-> <<>>,        \* saved_cookie
   group      |-> "None",      \* hrr_selected_group, the server's selected_group
   share      |-> "None",      \* active_key_exchange
   shared     |-> <<>>,        \* shared_secret, handshake_secret
   peer_curve |-> "None",      \* of the peer's certificates
   srtp       |-> "None",      \* negotiated_srtp_profile
   keying     |-> <<>>,        \* of the KeyingMaterial event
   auth       |-> FALSE,       \* client_auth_requested
   auto_mode  |-> FALSE,       \* the server may still fall back to DTLS 1.2
   retained   |-> <<>>,        \* retained_hello
   queued     |-> <<>>,        \* queued_data
   events     |-> <<>>]        \* the local_events so far

-----------------------------------------------------------------------------
(* Sending.                                                                *)

\* The key and the nonces one side sends with; none before there are secrets.
derive_epoch_keys(traffic_secrets, of_client) ==
  IF traffic_secrets = <<>> THEN <<>> ELSE <<IF of_client THEN "c" ELSE "s", traffic_secrets>>

SendKey(e, epoch) ==
  CASE epoch = 0 -> <<>>
    [] epoch = 2 -> derive_epoch_keys(e.hs_key, e.is_client)
    [] epoch = 3 -> derive_epoch_keys(e.app_key, e.is_client)

Length(content) == IF content.type = "Handshake" THEN Len(content.frag.data) ELSE 1

Used(datagram) == FoldLeft(LAMBDA n, r : n + Length(r), 0, datagram)

\* The record joins the last datagram if it fits and the datagram is open.
CanAppend(e, content) ==
  ~e.sealed /\ e.queue_tx # <<>> /\ Used(Last(e.queue_tx)) + Length(content) <= e.config.mtu

Enqueue(e, record, can_append) ==
  IF ~can_append /\ Len(e.queue_tx) >= max_queue_tx THEN Fail(e, "TransmitQueueFull")
  ELSE [e EXCEPT !.send_seq[record.epoch] = @ + 1, !.sealed = @ /\ can_append,
                 !.queue_tx = IF can_append THEN Append(Front(@), Append(Last(@), record)) ELSE Append(@, <<record>>)]

RecordFor(e, epoch, content) ==
  [epoch |-> epoch, seq |-> e.send_seq[epoch], key |-> SendKey(e, epoch), handled |-> FALSE, inner |-> content.type,
   type |-> content.type, frag |-> content.frag, acks |-> content.acks, data |-> content.data]

Save(e, epoch, seq, content) ==
  [e EXCEPT !.saved = Append(@, [epoch |-> epoch, seq |-> seq, content |-> content, acked |-> FALSE])]

\* Fault: the entry for a retransmission has the number of the next record.
create_record_NextNumber(e, epoch, content, save) ==
  Enqueue(IF save THEN Save(e, epoch, e.send_seq[epoch] + 1, content) ELSE e,
          RecordFor(e, epoch, content), CanAppend(e, content))

\* create_plaintext_record and create_ciphertext_record.  The entry for a
\* retransmission is saved before the queue is found to be full.
create_record(e, epoch, content, save) ==
  Enqueue(IF save THEN Save(e, epoch, e.send_seq[epoch], content) ELSE e,
          RecordFor(e, epoch, content), CanAppend(e, content))

\* A fragment takes what is free in the last datagram, or all of the next.
Chunk(left, used, mtu) ==
  LET free == IF used < mtu THEN mtu - used ELSE mtu IN IF left < free THEN left ELSE free

RECURSIVE SendFragments(_, _, _, _, _)
SendFragment(e, msg_type, seq, body, offset, chunk) ==
  Then(create_record(e, epoch_for_message(msg_type),
                     HandshakeContent(Fragment(msg_type, seq, body, offset, chunk)), TRUE),
       LAMBDA s : IF offset + chunk >= Len(body) THEN s
                  ELSE SendFragments(s, msg_type, seq, body, offset + chunk))

SendFragments(e, msg_type, seq, body, offset) ==
  SendFragment(e, msg_type, seq, body, offset,
               Chunk(Len(body) - offset, IF e.queue_tx = <<>> THEN 0 ELSE Used(Last(e.queue_tx)), e.config.mtu))

create_handshake(e, msg_type, body) ==
  SendFragments([e EXCEPT !.transcript = Append(@, TranscriptEntry([msg_type |-> msg_type, body |-> body])),
                          !.next_seq = @ + 1],
                msg_type, e.next_seq, body, 0)

flight_begin(e) == [e EXCEPT !.left = flight_retries, !.saved = <<>>, !.flight = "Unarmed"]

flight_stop_resend_timers(e) == [e EXCEPT !.flight = "Disabled", !.connect = "Disabled"]

\* What is not acknowledged leaves again, in fresh datagrams and under new
\* record numbers; an error loses the entries.
Resend(s, entry) ==
  IF Failed(s) \/ entry.acked
  THEN [s EXCEPT !.saved = Append(@, entry)]
  ELSE [create_record(s, entry.epoch, entry.content, FALSE)
        EXCEPT !.saved = Append(@, [entry EXCEPT !.seq = s.send_seq[entry.epoch]])]

LoseOnError(e) == IF Failed(e) THEN [e EXCEPT !.saved = <<>>] ELSE e

flight_resend(e) == LoseOnError(FoldLeft(Resend, [e EXCEPT !.saved = <<>>, !.sealed = TRUE], e.saved))

\* Nothing more is sent, and no timer runs.
abort(e) ==
  [e EXCEPT !.queue_tx = <<>>, !.saved = <<>>, !.flight = "Disabled", !.connect = "Disabled", !.ack = "None"]

-----------------------------------------------------------------------------
(* Acknowledgements.                                                       *)

send_ack(e) ==
  IF e.numbers = {} THEN e
  ELSE create_record([e EXCEPT !.numbers = {}], IF e.app_key # <<>> THEN 3 ELSE 2,
                     AckContent(e.numbers), FALSE)

\* Fault: one acknowledged record stops the retransmission.
process_ack_Any(e, acks) ==
  IF \E i \in DOMAIN e.saved : <<e.saved[i].epoch, e.saved[i].seq>> \in acks
  THEN [e EXCEPT !.saved = <<>>, !.flight = "Disabled"] ELSE e

\* A flight whose encrypted records are all acknowledged is over.
process_ack(e, acks) ==
  LET marked == [i \in DOMAIN e.saved |->
                   [e.saved[i] EXCEPT !.acked = @ \/ <<e.saved[i].epoch, e.saved[i].seq>> \in acks]]
      epoch2 == {i \in DOMAIN marked : marked[i].epoch = 2}
  IN  IF epoch2 # {} /\ \A i \in epoch2 : marked[i].acked
      THEN [e EXCEPT !.saved = <<>>, !.flight = "Disabled"]
      ELSE [e EXCEPT !.saved = marked]

\* Only a client that waits for the rest of the server's flight.
handshake_in_progress(e) == e.hs_key # <<>> /\ e.app_key = <<>> /\ ~e.released

maybe_schedule_handshake_ack(e) ==
  IF ~handshake_in_progress(e) THEN [e EXCEPT !.ack = "None"]
  ELSE IF e.ack # "None" \/ ~handshake_ack_help_needed(e.queue_rx, e.peer_seq) THEN e
  ELSE [e EXCEPT !.ack = IF has_gap_in_incoming_handshake(e.queue_rx, e.peer_seq) THEN "Now" ELSE "Later"]

\* The encrypted handshake records in the queue now.
QueuedNumbers(e) ==
  {<<r.epoch, r.seq>> : r \in {q \in Range(FlattenSeq(e.queue_rx)) : q.epoch = 2 /\ IsHandshake(q)}}

maybe_flush_handshake_ack(e, due) ==
  LET numbers == QueuedNumbers(e)
      cleared == [e EXCEPT !.ack = "None"]
  IN  IF e.ack = "None" \/ ~due THEN e
      ELSE IF numbers = {} \/ ~handshake_in_progress(e) THEN cleared
      ELSE create_record(cleared, 2, AckContent(numbers), FALSE)

-----------------------------------------------------------------------------
(* Receiving.                                                              *)

\* A ciphertext that comes before its keys is kept as it is, its content
\* unknown.  The numbers such records have in the queue are still encrypted;
\* the model keeps them in the order of the true ones.
Raw(r) == [r EXCEPT !.type = "Raw"]

RecvKey(e, epoch) ==
  CASE epoch = 2 -> derive_epoch_keys(IF e.hs_recv THEN e.hs_key ELSE <<>>, ~e.is_client)
    [] epoch = 3 -> derive_epoch_keys(e.app_key, ~e.is_client)

\* Record::parse: what the record becomes, and what the replay windows do.
ParseRecord(acc, r) ==
  CASE r.epoch = 0 -> [acc EXCEPT !.parsed = Append(@, r)]
    [] r.epoch # 0 /\ ~acc.e.peer_enc -> [acc EXCEPT !.parsed = Append(@, Raw(r))]
    [] r.epoch # 0 /\ acc.e.peer_enc ->
         IF \/ RecvKey(acc.e, r.epoch) = <<>> \/ RecvKey(acc.e, r.epoch) # r.key
            \/ r.seq \in acc.e.seen[r.epoch]
         THEN acc
         ELSE [e |-> [acc.e EXCEPT !.seen[r.epoch] = @ \cup {r.seq}], parsed |-> Append(acc.parsed, r)]

AtMostRecords(acc) == IF Len(acc.parsed) <= MaxRecords THEN acc ELSE [acc EXCEPT !.e = Fail(@, "Transient")]

\* classify_record: an ACK takes effect and is not kept.
ClassifyRecord(acc, r) ==
  IF r.type = "Ack"
  THEN [acc EXCEPT !.e = process_ack(@, r.acks)]
  ELSE [acc EXCEPT !.kept = Append(@, r)]

\* The first hello in the datagram was answered before.
RepeatedHello(e, item) ==
  LET hellos == SelectSeq(item, LAMBDA r : /\ IsHandshake(r) /\ r.frag.msg_type = "ClientHello"
                                           /\ r.frag.fragment_offset = 0)
  IN  hellos # <<>> /\ hellos[1].frag.message_seq < e.peer_seq

\* Fault: what is old is not dropped.
insert_incoming_handshake_KeepsOld(e, item) ==
  Then(IF RepeatedHello(e, item) THEN flight_resend(e) ELSE e,
       LAMBDA s : IF e.released THEN Fail(s, "RenegotiationAttempt")
                  ELSE [s EXCEPT !.queue_rx = Insert13(@, item)])

\* What enters the queue is noted for an ACK.
EnterQueue(e, queue, item) ==
  IF queue = e.queue_rx THEN e
  ELSE [e EXCEPT !.queue_rx = queue,
                 !.numbers = @ \cup {<<r.epoch, r.seq>> : r \in {q \in Range(item) : q.epoch >= 2}}]

\* The datagram is dropped with all its records when its first message is old.
insert_incoming_handshake(e, item) ==
  Then(IF RepeatedHello(e, item) THEN flight_resend(e) ELSE e,
       LAMBDA s : IF item[1].frag.message_seq < e.peer_seq THEN s
                  ELSE IF e.released THEN Fail(s, "RenegotiationAttempt")
                  ELSE EnterQueue(s, Insert13(e.queue_rx, item), item))

SequenceBefore(r, s) == r.epoch < s.epoch \/ (r.epoch = s.epoch /\ r.seq < s.seq)

insert_incoming_non_handshake(e, item) ==
  IF \E i \in DOMAIN e.queue_rx :
       e.queue_rx[i][1].epoch = item[1].epoch /\ e.queue_rx[i][1].seq = item[1].seq
  THEN e
  ELSE [e EXCEPT !.queue_rx = InsertAt(@, 1 + Cardinality({i \in DOMAIN @ : SequenceBefore(@[i][1], item[1])}), item)]

\* Records::parse: a datagram of too many records is given up at the record
\* that is too many.
ParseRecords(e, datagram) ==
  FoldLeft(LAMBDA acc, r : IF Failed(acc.e) THEN acc ELSE AtMostRecords(ParseRecord(acc, r)),
           [e |-> e, parsed |-> <<>>], datagram)

ClassifyRecords(p) ==
  IF Failed(p.e) THEN [e |-> p.e, kept |-> <<>>]
  ELSE FoldLeft(ClassifyRecord, [e |-> p.e, kept |-> <<>>], p.parsed)

insert_incoming(e, kept) ==
  IF kept = <<>> THEN e
  ELSE IF Len(e.queue_rx) >= max_queue_rx THEN Fail(e, "ReceiveQueueFull")
  ELSE IF IsHandshake(kept[1]) THEN insert_incoming_handshake(e, kept)
  ELSE insert_incoming_non_handshake(e, kept)

InsertKept(c) == insert_incoming(c.e, c.kept)

parse_packet(e, datagram) == InsertKept(ClassifyRecords(ParseRecords(e, datagram)))

\* From the first datagram with a record of epoch 2 or more on, all records
\* that are not handled are parsed again, each for itself.
ParseAgain(e, index) ==
  IF index = 0 THEN e
  ELSE FoldLeft(LAMBDA s, r : IF r.handled \/ Failed(s) THEN s ELSE parse_packet(s, <<[r EXCEPT !.type = r.inner]>>),
                [e EXCEPT !.queue_rx = SubSeq(@, 1, index - 1)],
                FlattenSeq(SubSeq(e.queue_rx, index, Len(e.queue_rx))))

enable_peer_encryption(e) ==
  ParseAgain([e EXCEPT !.peer_enc = TRUE],
             SelectInSeq(e.queue_rx, LAMBDA item : \E j \in DOMAIN item : item[j].epoch >= 2))

-----------------------------------------------------------------------------
(* The transcript and the keys.                                            *)

\* next_handshake: whether the wanted message is there, the engine after it
\* was taken, and the message.
Take(e, d) ==
  IF d.ok THEN [e EXCEPT !.queue_rx = d.queue_rx, !.transcript = Append(@, TranscriptEntry(d.message))]
  ELSE Fail([e EXCEPT !.queue_rx = d.queue_rx], "Transient")

Taking(e, d) == [found |-> TRUE, body |-> d.message.body, e |-> Take(e, d)]

next_handshake(e, wanted) ==
  IF has_complete_handshake13(e.queue_rx, wanted, e.peer_seq) THEN Taking(e, next_handshake13(e.queue_rx))
  ELSE [found |-> FALSE, body |-> <<>>, e |-> e]

\* The usual beginning of a state that waits for a message.
OnFound(n, Handle(_, _)) == IF n.found THEN Then(n.e, LAMBDA e : Handle(e, n.body)) ELSE n.e

Await(e, wanted, Handle(_, _)) == OnFound(next_handshake(e, wanted), Handle)

advance_peer_handshake_seq(e) == [e EXCEPT !.peer_seq = @ + 1]

replace_transcript_with_message_hash(e, split_at) ==
  LET hashed == FlattenSeq([i \in 1 .. split_at |-> e.transcript[i].body])
  IN  [e EXCEPT !.transcript = <<[msg_type |-> "message_hash", body |-> hashed]>>
                               \o SubSeq(@, split_at + 1, Len(@))]

reset_for_hello_retry(e) ==
  [e EXCEPT !.send_seq[2] = 0, !.ack = "None",
            !.queue_rx = SelectSeq(@, LAMBDA item : ~item[1].handled)]

\* Both sides' traffic secrets, from what the key exchange gave and all
\* messages so far; the exporter's secret comes with those of the application.
derive_handshake_secrets(e) == <<"hs traffic", e.shared, e.transcript>>

derive_application_secrets(e) == <<"ap traffic", e.shared, e.transcript>>

install_handshake_keys(e, traffic_secrets) ==
  [e EXCEPT !.hs_key = traffic_secrets, !.hs_recv = TRUE, !.send_seq[2] = 0]

install_application_keys(e, traffic_secrets) == [e EXCEPT !.app_key = traffic_secrets, !.send_seq[3] = 0]

\* The content of a side's Finished.
compute_verify_data(e, is_client) == <<IF is_client THEN "client" ELSE "server", e.hs_key, e.transcript>>

extract_srtp_keying_material(e, profile) == IF e.app_key = <<>> THEN <<>> ELSE <<profile, e.app_key>>

release_application_data(e) == [e EXCEPT !.released = TRUE, !.hs_recv = FALSE]
=============================================================================
