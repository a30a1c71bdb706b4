--------------------------- MODULE ReassemblySpec ---------------------------
(***************************************************************************)
(* One flight on its way through the receive queue: a fragmented flight    *)
(* arrives in datagrams in any order and as often as the network likes,    *)
(* and each message is taken as soon as it is complete.  The peer resends  *)
(* its datagrams as they were; one that sends each record in a datagram of *)
(* its own may have sent a DTLS 1.3 receiver longer fragments before.      *)
(***************************************************************************)
EXTENDS Reassembly

CONSTANTS Flight,        \* the messages: their types and lengths
          Sizes,         \* how long a fragment can be at most
          MaxTogether    \* how many records share a datagram at most

VARIABLES version, size, together,   \* the peer: 12 or 13, how it fragments, how it packs
          receiver

vars == <<version, size, together, receiver>>

\* Every unit of the flight is different from the others.
Bytes(k) == [i \in 1 .. Flight[k].length |-> <<k, i>>]

Pieces(k, n) ==
  LET length == Flight[k].length
      Piece(offset) == Fragment(Flight[k].msg_type, k - 1, Bytes(k), offset,
                                IF length - offset < n THEN length - offset ELSE n)
  IN  IF length = 0 THEN <<Piece(0)>>
      ELSE [i \in 1 .. (length + n - 1) \div n |-> Piece((i - 1) * n)]

Records(n) ==
  LET frags == FlattenSeq([k \in DOMAIN Flight |-> Pieces(k, n)])
  IN  [i \in DOMAIN frags |-> [type |-> "Handshake", handled |-> FALSE, frag |-> frags[i]]]

\* The datagrams of a peer that puts `n' records in each.
Packed(records, n) ==
  [i \in 1 .. (Len(records) + n - 1) \div n |->
     SubSeq(records, 1 + (i - 1) * n, IF i * n < Len(records) THEN i * n ELSE Len(records))]

Resend == Packed(Records(size), together)

Datagrams ==
  Range(Resend) \cup
    (IF version = 12 \/ together > 1 THEN {}
     ELSE {<<r>> : r \in UNION {Range(Records(n)) : n \in {m \in Sizes : m > size}}})

-----------------------------------------------------------------------------
IsComplete(s, wanted) ==
  IF version = 12 THEN has_complete_handshake12(s.queue_rx, wanted, s.peer_seq)
  ELSE has_complete_handshake13(s.queue_rx, wanted, s.peer_seq)

\* The next message of the flight, if there is one and it is complete.
Take(s) ==
  IF s.peer_seq < Len(Flight) /\ s.ok /\ IsComplete(s, Flight[s.peer_seq + 1].msg_type)
  THEN LET d == IF version = 12 THEN next_handshake12(s.queue_rx) ELSE next_handshake13(s.queue_rx)
       IN  [queue_rx |-> d.queue_rx, peer_seq |-> s.peer_seq + 1,
            taken |-> Append(s.taken, d.message), ok |-> d.ok]
  ELSE s

\* A datagram whose first message is old is dropped; after the others come the
\* states of the handshake, and the queue is purged.
Receive(s, item) ==
  LET queued == [s EXCEPT !.queue_rx = IF version = 12 THEN Insert12(@, item) ELSE Insert13(@, item)]
      after  == FoldLeft(LAMBDA t, message : Take(t), queued, Flight)
  IN  IF item[1].frag.message_seq < s.peer_seq THEN s
      ELSE [after EXCEPT !.queue_rx = purge_handled_queue_rx(@)]

Init ==
  /\ version \in {12, 13} /\ size \in Sizes
  /\ together \in 1 .. MaxTogether
  /\ receiver = [queue_rx |-> <<>>, peer_seq |-> 0, taken |-> <<>>, ok |-> TRUE]

Arrive(item) ==
  /\ receiver' = Receive(receiver, item)
  /\ UNCHANGED <<version, size, together>>

Next == \E item \in Datagrams : Arrive(item)

Spec == Init /\ [][Next]_vars

-----------------------------------------------------------------------------
\* A message is taken as it was sent, whatever the order, the overlaps and the
\* repetitions of its fragments.
Intact ==
  /\ receiver.ok
  /\ \A k \in DOMAIN receiver.taken :
       receiver.taken[k] = [msg_type |-> Flight[k].msg_type, body |-> Bytes(k)]

\* However the queue was filled, the whole flight is taken when the peer sends
\* its datagrams once more.
Recoverable == FoldLeft(Receive, receiver, Resend).peer_seq = Len(Flight)

\* Fragments never wait without the peer being told that something is missing.
HelpIsAskedFor ==
  version = 13 =>
    (Waiting(receiver.queue_rx) # <<>> <=> handshake_ack_help_needed(receiver.queue_rx, receiver.peer_seq))

\* When the flight is taken the queue holds nothing of it.
Drained == receiver.peer_seq = Len(Flight) => receiver.queue_rx = <<>>
=============================================================================
