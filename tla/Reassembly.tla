----------------------------- MODULE Reassembly -----------------------------
(***************************************************************************)
(* The receive queue of handshake fragments, as both engines keep it       *)
(* (queue_rx).  The queue is a sequence of datagrams, a datagram the       *)
(* sequence of the records it left there, and a record has at least the    *)
(* fields type, handled and, when it is a handshake record, frag: the one  *)
(* fragment it carries.  The two protocol versions share the queue and     *)
(* differ in what they take for a duplicate, for a complete message, and   *)
(* in how they put the fragments together.                                 *)
(***************************************************************************)
EXTENDS Integers, SequencesExt

CONSTANT MAX_DEFRAGMENT_PACKETS   \* how many records has_complete_handshake looks at

ASSUME LookAheadAssumption == MAX_DEFRAGMENT_PACKETS \in Nat \ {0}

\* The fragment [offset, offset + length) of a message.
Fragment(msg_type, seq, body, offset, length) ==
  [msg_type |-> msg_type, message_seq |-> seq, length |-> Len(body),
   fragment_offset |-> offset, data |-> SubSeq(body, offset + 1, offset + length)]

FragmentEnd(h) == h.fragment_offset + Len(h.data)

IsHandshake(r) == r.type = "Handshake"

-----------------------------------------------------------------------------
(* Entering the queue.                                                     *)

\* The queue is sorted by the (message_seq, fragment_offset) of each
\* datagram's first record; what is not a handshake comes last.
IsBefore(item, h) ==
  /\ IsHandshake(item[1])
  /\ \/ item[1].frag.message_seq < h.message_seq
     \/ /\ item[1].frag.message_seq = h.message_seq
        /\ item[1].frag.fragment_offset < h.fragment_offset

InsertInOrder(queue_rx, item) ==
  InsertAt(queue_rx, 1 + Cardinality({i \in DOMAIN queue_rx : IsBefore(queue_rx[i], item[1].frag)}), item)

\* The entries with the new one's key: at most one.
SameKey(queue_rx, item) ==
  {i \in DOMAIN queue_rx :
     /\ IsHandshake(queue_rx[i][1])
     /\ queue_rx[i][1].frag.message_seq = item[1].frag.message_seq
     /\ queue_rx[i][1].frag.fragment_offset = item[1].frag.fragment_offset}

IsWhole(h) == h.length = Len(h.data)

\* DTLS 1.3: an entry with the same key is replaced when it has been handled,
\* or when it is a part of a message and the new one is a whole.
Insert13(queue_rx, item) ==
  LET same == SameKey(queue_rx, item)
      Replaced(old) == old.handled \/ (~IsWhole(old.frag) /\ IsWhole(item[1].frag))
  IN  IF same = {} THEN InsertInOrder(queue_rx, item)
      ELSE [i \in DOMAIN queue_rx |->
              IF i \in same /\ Replaced(queue_rx[i][1]) THEN item ELSE queue_rx[i]]

\* DTLS 1.2: a datagram with the same key is a duplicate, whatever follows in it.
Insert12(queue_rx, item) ==
  IF SameKey(queue_rx, item) = {} THEN InsertInOrder(queue_rx, item) ELSE queue_rx

\* Fault: only one of them.
purge_handled_queue_rx_One(queue_rx) ==
  IF queue_rx # <<>> /\ \A j \in DOMAIN queue_rx[1] : queue_rx[1][j].handled THEN Tail(queue_rx) ELSE queue_rx

\* The rest of a sequence from an index on, nothing from index 0 on.
From(seq, first) == IF first = 0 THEN <<>> ELSE SubSeq(seq, first, Len(seq))

\* poll_output drops the datagrams at the head that are handled throughout.
purge_handled_queue_rx(queue_rx) ==
  From(queue_rx, SelectInSeq(queue_rx, LAMBDA item : \E j \in DOMAIN item : ~item[j].handled))

-----------------------------------------------------------------------------
(* Finding the next message.                                               *)

SkipHandled(records) == From(records, SelectInSeq(records, LAMBDA r : ~r.handled))

AtMost(n, seq) == SubSeq(seq, 1, IF Len(seq) < n THEN Len(seq) ELSE n)

\* The fragments next_handshake reads, and the ones has_complete_handshake
\* looks at: those in the first MAX_DEFRAGMENT_PACKETS records of any type.
Waiting(queue_rx) == SkipHandled(SelectSeq(SkipHandled(FlattenSeq(queue_rx)), IsHandshake))

InReach(queue_rx) ==
  SkipHandled(SelectSeq(AtMost(MAX_DEFRAGMENT_PACKETS, SkipHandled(FlattenSeq(queue_rx))), IsHandshake))

\* Fault: an overlap is taken for a hole.
Extend13_Exact(c, h) ==
  IF c.hole \/ c.reached = h.length THEN c
  ELSE IF h.fragment_offset # c.reached THEN [c EXCEPT !.hole = TRUE]
  ELSE [c EXCEPT !.reached = FragmentEnd(h)]

\* How far the fragments of the first message reach without a hole.  In DTLS
\* 1.3 they may overlap, in DTLS 1.2 each must begin where the last one ended.
\* Nothing is looked at once the message is complete or a hole was found.
Extend13(c, h) ==
  IF c.hole \/ c.reached = h.length THEN c
  ELSE IF h.fragment_offset > c.reached THEN [c EXCEPT !.hole = TRUE]
  ELSE [c EXCEPT !.reached = IF FragmentEnd(h) > @ THEN FragmentEnd(h) ELSE @]

Extend12(c, h) ==
  IF c.hole \/ c.reached = h.length THEN c
  ELSE IF h.fragment_offset # c.reached THEN [c EXCEPT !.hole = TRUE]
  ELSE [c EXCEPT !.reached = FragmentEnd(h)]

Fragments(records) == [i \in DOMAIN records |-> records[i].frag]

FirstMessage(records) ==
  Fragments(SelectSeq(records, LAMBDA r : r.frag.message_seq = records[1].frag.message_seq))

Coverage13(records) == FoldLeft(Extend13, [reached |-> 0, hole |-> FALSE], FirstMessage(records))

Coverage12(records) == FoldLeft(Extend12, [reached |-> 0, hole |-> FALSE], FirstMessage(records))

IsNext(records, wanted, expected_seq) ==
  records # <<>> /\ records[1].frag.message_seq = expected_seq /\ records[1].frag.msg_type = wanted

Covers(c, length) == ~c.hole /\ c.reached = length

IsComplete13(records, wanted, expected_seq) ==
  IsNext(records, wanted, expected_seq) /\ Covers(Coverage13(records), records[1].frag.length)

IsComplete12(records, wanted, expected_seq) ==
  IsNext(records, wanted, expected_seq) /\ Covers(Coverage12(records), records[1].frag.length)

has_complete_handshake13(queue_rx, wanted, expected_seq) == IsComplete13(InReach(queue_rx), wanted, expected_seq)

has_complete_handshake12(queue_rx, wanted, expected_seq) == IsComplete12(InReach(queue_rx), wanted, expected_seq)

HasGap(records, expected_seq) ==
  records # <<>> /\ (records[1].frag.message_seq # expected_seq \/ Coverage13(records).hole)

\* A message that waits is not the expected one, or has a hole or an open end.
NeedsHelp(records, expected_seq) ==
  /\ records # <<>>
  /\ \/ records[1].frag.message_seq # expected_seq
     \/ ~Covers(Coverage13(records), records[1].frag.length)

\* Fault: an open end is not counted.
handshake_ack_help_needed_GapOnly(queue_rx, expected_seq) == HasGap(InReach(queue_rx), expected_seq)

handshake_ack_help_needed(queue_rx, expected_seq) == NeedsHelp(InReach(queue_rx), expected_seq)

has_gap_in_incoming_handshake(queue_rx, expected_seq) == HasGap(InReach(queue_rx), expected_seq)

-----------------------------------------------------------------------------
(* Putting it together.  All waiting fragments up to the first of another  *)
(* type are taken, whatever message they belong to.                        *)

Until(seq, other) == IF other = 0 THEN seq ELSE SubSeq(seq, 1, other - 1)

FirstType(records) ==
  Until(records, SelectInSeq(records, LAMBDA r : r.frag.msg_type # records[1].frag.msg_type))

Taken(queue_rx) == FirstType(Waiting(queue_rx))

\* Fault: overlapping bytes are appended twice.
Append13_Overlap(a, h) == [end |-> FragmentEnd(h), body |-> a.body \o h.data]

\* Bytes that were assembled already are skipped.
Append13(a, h) ==
  LET skip == IF a.end > h.fragment_offset THEN a.end - h.fragment_offset ELSE 0
  IN  [end  |-> IF FragmentEnd(h) > a.end THEN FragmentEnd(h) ELSE a.end,
       body |-> a.body \o SubSeq(h.data, skip + 1, Len(h.data))]

\* What defragment leaves in the buffer.
Assemble13(records) ==
  FoldLeft(LAMBDA a, r : Append13(a, r.frag),
           [end |-> FragmentEnd(records[1].frag), body |-> records[1].frag.data], Tail(records)).body

Assemble12(records) == FoldLeft(LAMBDA body, r : body \o r.frag.data, <<>>, records)

\* The records taken are marked; a buffer of the wrong length is an error.
MarkHandled(queue_rx, records) ==
  [i \in DOMAIN queue_rx |->
     [j \in DOMAIN queue_rx[i] |->
        [queue_rx[i][j] EXCEPT !.handled = @ \/ queue_rx[i][j] \in Range(records)]]]

Defragment(queue_rx, records, body) ==
  [queue_rx |-> MarkHandled(queue_rx, records),
   ok       |-> Len(body) = records[1].frag.length,
   message  |-> [msg_type |-> records[1].frag.msg_type, body |-> body]]

defragment13(queue_rx, records) == Defragment(queue_rx, records, Assemble13(records))

defragment12(queue_rx, records) == Defragment(queue_rx, records, Assemble12(records))

next_handshake13(queue_rx) == defragment13(queue_rx, Taken(queue_rx))

next_handshake12(queue_rx) == defragment12(queue_rx, Taken(queue_rx))
=============================================================================
