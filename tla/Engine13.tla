------------------------------ MODULE Engine13 ------------------------------
(***************************************************************************)
(* The DTLS 1.3 engine of one connected endpoint (dtls13/engine.rs,        *)
(* dtls13/incoming.rs) with the two state-machine states that follow the   *)
(* handshake (await_application_data and half_closed_local, the same code  *)
(* in client.rs and server.rs).  An engine is a record.  An operator for a *)
(* call takes the engine before it and returns the engine after it, or the *)
(* set of those it can lead to where the code draws a random number or its *)
(* outcome is unspecified.  A call that fails leaves its Error in the      *)
(* field `error'.                                                          *)
(***************************************************************************)
EXTENDS SendKeys, RecvKeys, SequencesExt

CONSTANTS mtu,            \* how many records fit in one datagram
          MaxRecords,     \* capacity of Records (16 in the code)
          max_queue_tx,
          max_queue_rx,
          flight_retries

ASSUME EngineAssumption ==
  /\ mtu \in Nat \ {0} /\ MaxRecords \in Nat \ {0} /\ max_queue_tx \in Nat \ {0}
  /\ max_queue_rx \in Nat \ {0} /\ flight_retries \in Nat

-----------------------------------------------------------------------------
(* Record contents.  A payload has all the fields, whatever its type.      *)

Payload(type) == [type |-> type, data |-> 0, acks |-> {}, message_seq |-> 0, requested |-> FALSE]

AppData(n) == [Payload("ApplicationData") EXCEPT !.data = n]

Ack(numbers) == [Payload("Ack") EXCEPT !.acks = numbers]

CloseNotify == Payload("Alert")

KeyUpdate(seq, requested) ==
  [Payload("Handshake") EXCEPT !.message_seq = seq, !.requested = requested]

IsKeyUpdate(p) == p.type = "Handshake"

\* An engine whose handshake is over and whose client has seen the ACK of its
\* Finished.  That ACK was the first record on the server's application keys.
\* The records of the server's last flight, which it keeps but never sends
\* again, are left out.
ConnectedEngine(is_client, threshold) ==
  LET send == install_application_keys(install_handshake_keys(NoSendKeys(threshold)))
      recv == ReleaseRecv(InstallApplicationRecv(InstallHandshakeRecv(NoRecvKeys)))
  IN  [state      |-> "AwaitApplicationData",
       error      |-> "None",
       send       |-> IF is_client THEN send ELSE CountRecord(send, 3),
       recv       |-> IF is_client THEN replay_update(recv, 3, 0) ELSE recv,
       queue_tx   |-> <<>>,      \* datagrams, each a sequence of records
       sealed     |-> FALSE,     \* datagram_sealed
       queue_rx   |-> <<>>,      \* datagrams, each the records it left here
       saved      |-> <<>>,      \* flight_saved_records
       flight     |-> "Disabled",                                    \* flight_timeout
       connect    |-> IF is_client THEN "Armed" ELSE "Disabled",     \* connect_timeout
       left       |-> flight_retries,
       next_seq   |-> 0,         \* next_handshake_seq_no, counted from here
       peer_seq   |-> 0,         \* peer_handshake_seq_no, counted from here
       numbers    |-> {},        \* received_record_numbers
       pending    |-> FALSE,     \* pending_key_update_response
       close_seq  |-> <<>>,      \* close_notify_sequence
       reported   |-> FALSE]     \* close_notify_reported

Failed(e) == e.error # "None"

\* The next call, from each engine of S that has not failed.
Then(S, Call(_)) == UNION {IF Failed(e) THEN {e} ELSE Call(e) : e \in S}

-----------------------------------------------------------------------------
(* Sending.                                                                *)

create_ciphertext_record(e, payload, epoch, save) ==
  LET seq    == SendSeq(e.send, epoch)
      record == [epoch |-> epoch, seq |-> seq, payload |-> payload]
      entry  == [epoch |-> epoch, seq |-> seq, payload |-> payload, acked |-> FALSE]
      s      == [e EXCEPT !.saved = IF save THEN Append(@, entry) ELSE @]
      can_append == ~e.sealed /\ e.queue_tx # <<>> /\ Len(Last(e.queue_tx)) < mtu
  IN  IF ~can_append /\ Len(e.queue_tx) >= max_queue_tx
      THEN [s EXCEPT !.error = "TransmitQueueFull"]
      ELSE IF ~CanProtect(e.send, epoch)
      THEN [s EXCEPT !.error = "CryptoError"]
      ELSE [s EXCEPT !.send = CountRecord(@, epoch),
                     !.sealed = @ /\ can_append,
                     !.queue_tx = IF can_append
                                  THEN Append(Front(@), Append(Last(@), record))
                                  ELSE Append(@, <<record>>)]


\* The KeyUpdate leaves under the current keys, then they rotate; the flight
\* before it is forgotten and the flight timer restarts.
create_key_update(e, requested) ==
  LET begun  == [e EXCEPT !.left = flight_retries, !.saved = <<>>,
                          !.flight = "Unarmed", !.next_seq = @ + 1]
      Rotate(sent) == {[sent EXCEPT !.send = update_send_keys(@, threshold)] :
                         threshold \in JitteredThresholds}
  IN  Then({create_ciphertext_record(begun, KeyUpdate(e.next_seq, requested),
                                     e.send.app_send_epoch, TRUE)}, Rotate)

send_ack(e) ==
  IF e.numbers = {} THEN e
  ELSE create_ciphertext_record([e EXCEPT !.numbers = {}], Ack(e.numbers),
                                e.send.app_send_epoch, FALSE)

\* Every saved record that is not acknowledged leaves again, in fresh datagrams
\* and under a new number; an error loses the entries.
flight_resend(e) ==
  LET Resend(s, entry) ==
        IF Failed(s) \/ entry.acked
        THEN [s EXCEPT !.saved = Append(@, entry)]
        ELSE LET sent == create_ciphertext_record(s, entry.payload, entry.epoch, FALSE)
             IN  [sent EXCEPT !.saved = Append(@, [entry EXCEPT !.seq = SendSeq(s.send, entry.epoch)])]
      resent == FoldLeft(Resend, [e EXCEPT !.saved = <<>>, !.sealed = TRUE], e.saved)
  IN  IF Failed(resent) THEN [resent EXCEPT !.saved = <<>>] ELSE resent

\* Fault: the flight timer and its records survive.
cancel_flights_ConnectOnly(e) == [e EXCEPT !.connect = "Disabled"]

cancel_flights(e) ==
  [e EXCEPT !.saved = <<>>, !.flight = "Disabled", !.connect = "Disabled"]

-----------------------------------------------------------------------------
(* Receiving.                                                              *)

\* Fault: any ACK ends the flight.
process_ack_Any(e, acks) ==
  IF e.send.prev_app_send_keys
  THEN [e EXCEPT !.send = DropPrevKeys(@), !.saved = <<>>, !.flight = "Disabled"]
  ELSE e


\* Mark what the ACK lists; once a KeyUpdate's flight is acknowledged the
\* previous keys go and the timer stops.
process_ack(e, acks) ==
  LET mark(entry) == [entry EXCEPT !.acked = @ \/ [epoch |-> entry.epoch, seq |-> entry.seq] \in acks]
      marked == [i \in DOMAIN e.saved |-> mark(e.saved[i])]
  IN  IF /\ e.send.prev_app_send_keys
         /\ marked # <<>>
         /\ \A i \in DOMAIN marked : marked[i].acked
      THEN [e EXCEPT !.send = DropPrevKeys(@), !.saved = <<>>, !.flight = "Disabled"]
      ELSE [e EXCEPT !.saved = marked]

\* Fault: the replay windows are not told of what was accepted.
ParseRecords_Forgets(e, datagram) ==
  [recv |-> e.recv, parsed |-> SelectSeq(datagram, LAMBDA r : Accepts(e.recv, r.epoch, r.seq))]

\* Record::parse for every record of the datagram, all of them before any of
\* them takes effect; one record too many ends the parsing.
ParseRecords(e, datagram) ==
  FoldLeft(LAMBDA acc, r :
             IF Len(acc.parsed) <= MaxRecords /\ Accepts(acc.recv, r.epoch, r.seq)
             THEN [recv |-> replay_update(acc.recv, r.epoch, r.seq), parsed |-> Append(acc.parsed, r)]
             ELSE acc,
           [recv |-> e.recv, parsed |-> <<>>], datagram)

\* Sequence's order: by epoch, then by sequence number.
Precedes(r, s) == r.epoch < s.epoch \/ (r.epoch = s.epoch /\ r.seq < s.seq)

\* classify_record for each parsed record in turn; acc.kept gets what is left
\* for the queue.
classify_record(acc, r) ==
  IF acc.e.close_seq # <<>> /\ Precedes(acc.e.close_seq[1], r) THEN acc
  ELSE CASE r.payload.type = "Ack" ->
              [acc EXCEPT !.e = process_ack(@, r.payload.acks)]
         [] r.payload.type = "Alert" ->
              [acc EXCEPT !.e.close_seq = IF @ = <<>> THEN <<[epoch |-> r.epoch, seq |-> r.seq]>> ELSE @]
         [] OTHER -> [acc EXCEPT !.kept = Append(@, r)]

\* Where a binary search may put a new element: between one that is before it
\* and one that is not.  The queue is sorted by one key when a handshake message
\* enters it and by another when anything else does, so there may be several.
InsertionPoints(q, Before(_)) ==
  {i \in 1 .. Len(q) + 1 : (i > 1 => Before(q[i - 1])) /\ (i <= Len(q) => ~Before(q[i]))}

KeyUpdateFirst(incoming) == IsKeyUpdate(incoming[1].payload)

\* Fault: old messages are queued as well.
insert_incoming_handshake_Old(e, incoming) ==
  LET seq       == incoming[1].payload.message_seq
      Before(q) == KeyUpdateFirst(q) /\ q[1].payload.message_seq < seq
      noted     == [e EXCEPT !.numbers = @ \cup {[epoch |-> r.epoch, seq |-> r.seq] : r \in Range(incoming)}]
  IN  {[noted EXCEPT !.queue_rx = InsertAt(@, i, incoming)] : i \in InsertionPoints(e.queue_rx, Before)}


\* An old message is dropped with all that follows it in its datagram; else
\* the numbers of the datagram's records are noted for an ACK, unless the same
\* message waits already.
insert_incoming_handshake(e, incoming) ==
  LET seq       == incoming[1].payload.message_seq
      Before(q) == KeyUpdateFirst(q) /\ q[1].payload.message_seq < seq
      same      == {i \in DOMAIN e.queue_rx :
                      KeyUpdateFirst(e.queue_rx[i]) /\ e.queue_rx[i][1].payload.message_seq = seq}
      noted     == [e EXCEPT !.numbers = @ \cup {[epoch |-> r.epoch, seq |-> r.seq] : r \in Range(incoming)}]
  IN  IF seq < e.peer_seq THEN {e}
      ELSE {[noted EXCEPT !.queue_rx = InsertAt(@, i, incoming)] : i \in InsertionPoints(e.queue_rx, Before)}
           \cup {IF e.queue_rx[i][1].handled THEN [noted EXCEPT !.queue_rx[i] = incoming] ELSE e : i \in same}

insert_incoming_non_handshake(e, incoming) ==
  LET Before(q) == Precedes(q[1], incoming[1])
  IN  {[e EXCEPT !.queue_rx = InsertAt(@, i, incoming)] : i \in InsertionPoints(e.queue_rx, Before)}

\* The kept records of one datagram enter the queue together.
insert_incoming(e, kept) ==
  LET incoming == [i \in DOMAIN kept |->
                     [epoch |-> kept[i].epoch, seq |-> kept[i].seq,
                      payload |-> kept[i].payload, handled |-> FALSE]]
  IN  IF Len(e.queue_rx) >= max_queue_rx
      THEN {[e EXCEPT !.error = "ReceiveQueueFull"]}
      ELSE IF KeyUpdateFirst(incoming)
      THEN insert_incoming_handshake(e, incoming)
      ELSE insert_incoming_non_handshake(e, incoming)

-----------------------------------------------------------------------------
(* The states after the handshake.                                         *)

\* The KeyUpdates in the queue that are not handled, in its order.
WaitingKeyUpdates(e) ==
  SelectSeq(FlattenSeq(e.queue_rx), LAMBDA r : IsKeyUpdate(r.payload) /\ ~r.handled)

has_complete_handshake(e) ==
  WaitingKeyUpdates(e) # <<>> /\ Head(WaitingKeyUpdates(e)).payload.message_seq = e.peer_seq

\* Mark the records of the receive queue that satisfy Test as handled.
SetHandled(queue_rx, Test(_)) ==
  [i \in DOMAIN queue_rx |->
     [j \in DOMAIN queue_rx[i] |->
        [queue_rx[i][j] EXCEPT !.handled = @ \/ Test(queue_rx[i][j].payload)]]]

\* next_handshake_no_transcript marks the message and all that follow it with
\* the same type as handled; the next receive keys are installed.
TakeKeyUpdate(e) ==
  [e EXCEPT !.queue_rx = SetHandled(@, IsKeyUpdate), !.recv = update_recv_keys(@)]

\* Fault: the same message is expected again.
advance_peer_handshake_seq_Never(e) == e

advance_peer_handshake_seq(e) == [e EXCEPT !.peer_seq = @ + 1]

\* needs_key_update() clears the flag whether or not a KeyUpdate follows.
await_application_data(e) ==
  LET Initiate(s) == IF e.send.needs_key_update /\ ~s.send.prev_app_send_keys
                     THEN create_key_update(s, TRUE) ELSE {s}
      Respond(s)  == IF s.pending
                     THEN Then(create_key_update(s, FALSE), LAMBDA r : {[r EXCEPT !.pending = FALSE]})
                     ELSE {s}
      Finish(s, requested) == advance_peer_handshake_seq([s EXCEPT !.pending = @ \/ requested])
      Receive(s)  == IF has_complete_handshake(s)
                     THEN Then({send_ack(TakeKeyUpdate(s))},
                               LAMBDA r : {Finish(r, Head(WaitingKeyUpdates(s)).payload.requested)})
                     ELSE {s}
  IN  Then(Then(Then({[e EXCEPT !.send.needs_key_update = FALSE]}, Initiate), Respond), Receive)

\* The receive keys follow the peer, but nothing is sent any more.
half_closed_local(e) ==
  LET k == IF has_complete_handshake(e)
           THEN advance_peer_handshake_seq(TakeKeyUpdate(e)) ELSE e
  IN  [k EXCEPT !.state = IF k.close_seq # <<>> THEN "Closed" ELSE @]

make_progress(e) ==
  CASE e.state = "AwaitApplicationData" -> await_application_data(e)
    [] e.state = "HalfClosedLocal"      -> {half_closed_local(e)}
    [] e.state = "Closed"               -> {e}

-----------------------------------------------------------------------------
(* The public calls.                                                       *)

\* A datagram with too many records is discarded, but the replay windows
\* remember them.
handle_packet(e, datagram) ==
  LET classified(p) == FoldLeft(classify_record, [e |-> [e EXCEPT !.recv = p.recv], kept |-> <<>>], p.parsed)
      queued(p) == UNION {IF c.kept = <<>> THEN {c.e} ELSE insert_incoming(c.e, c.kept) : c \in {classified(p)}}
  IN  UNION {IF Len(p.parsed) > MaxRecords THEN {[e EXCEPT !.recv = p.recv]}
             ELSE Then(queued(p), make_progress) : p \in {ParseRecords(e, datagram)}}

\* `connect_due' and `flight_due' say whether `now' has reached the deadline of
\* a timer that is armed; one armed by this very call is not due.
handle_timeout(e, connect_due, flight_due) ==
  LET armed == [e EXCEPT !.flight = IF @ = "Unarmed" THEN "Armed" ELSE @,
                         !.connect = IF @ = "Unarmed" THEN "Armed" ELSE @]
      due   == e.flight = "Armed" /\ flight_due
  IN  IF e.connect = "Armed" /\ connect_due
      THEN {[armed EXCEPT !.error = "Timeout(Connect)"]}
      ELSE IF due /\ e.left = 0
      THEN {[armed EXCEPT !.error = "Timeout(Handshake)"]}
      ELSE Then({IF due THEN flight_resend([armed EXCEPT !.left = @ - 1]) ELSE armed}, make_progress)

\* The two calls of the application return early in every other state.
CanSend(e) == e.state = "AwaitApplicationData"

send_application_data(e, n) ==
  create_ciphertext_record(e, AppData(n), e.send.app_send_epoch, FALSE)

close(e) ==
  LET sent == create_ciphertext_record(e, CloseNotify, e.send.app_send_epoch, FALSE)
  IN  IF Failed(sent) THEN sent
      ELSE [cancel_flights(sent) EXCEPT !.state = "HalfClosedLocal"]

\* The application data poll_output hands out, and the engine once it has been
\* polled until it answers with a Timeout.
ReceivedData(e) ==
  SelectSeq(FlattenSeq(e.queue_rx), LAMBDA r : r.payload.type = "ApplicationData" /\ ~r.handled)

purge_handled_queue_rx(queue_rx) ==
  LET first == SelectInSeq(queue_rx, LAMBDA incoming : \E j \in DOMAIN incoming : ~incoming[j].handled)
  IN  IF first = 0 THEN <<>> ELSE SubSeq(queue_rx, first, Len(queue_rx))

poll_output(e) ==
  [e EXCEPT !.queue_tx = <<>>,
            !.queue_rx = purge_handled_queue_rx(SetHandled(@, LAMBDA p : ~IsKeyUpdate(p))),
            !.reported = e.close_seq # <<>>]

\* Which deadline the Timeout carries.
poll_timeout(e) ==
  CASE e.connect = "Armed" /\ e.flight = "Armed" -> {"Connect", "Flight"}
    [] e.connect = "Armed" /\ e.flight # "Armed" -> {"Connect"}
    [] e.connect # "Armed" /\ e.flight = "Armed" -> {"Flight"}
    [] OTHER                                     -> {"DistantFuture"}
=============================================================================
