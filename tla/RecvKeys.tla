------------------------------ MODULE RecvKeys ------------------------------
(***************************************************************************)
(* The receiving half of the DTLS 1.3 record protection in                 *)
(* dtls13/engine.rs: the receive keys of the last application epochs, how  *)
(* the two epoch bits of a record header select among them, how the low    *)
(* bits of a sequence number are completed, and one replay window per      *)
(* epoch.  Operators on a record k with the engine's hs_recv_*, hs_expected *)
(* and app_recv_keys fields; an entry of app_recv_keys is named by its     *)
(* epoch and holds its replay window.                                      *)
(***************************************************************************)
EXTENDS Integers, Sequences, ReplayWindow

CONSTANTS MaxRecvEpochs,   \* capacity of app_recv_keys (4 in the code)
          SeqWindow        \* how many sequence numbers a header tells apart (2^16, or 2^8)

ASSUME RecvKeysAssumption == MaxRecvEpochs \in 1 .. 4

\* The replay window is narrower than half of it.
ASSUME SeqWindowAssumption ==
  SeqWindow \in Nat \ {0} /\ SeqWindow % 2 = 0 /\ Width < SeqWindow \div 2

RecvEpochEntry(epoch) == [epoch |-> epoch, replay |-> new, expected_recv_seq |-> 0]

RecvEpochType == [epoch : Nat, replay : ReplayWindowType, expected_recv_seq : Nat]

RecvKeysType ==
  [hs_recv_keys : BOOLEAN, hs_replay : ReplayWindowType, hs_expected_recv_seq : Nat,
   app_recv_keys : Seq(RecvEpochType)]

NoRecvKeys ==
  [hs_recv_keys |-> FALSE, hs_replay |-> new, hs_expected_recv_seq |-> 0, app_recv_keys |-> <<>>]

\* The installation of keys, and release_application_data's removal of the
\* handshake keys.
InstallHandshakeRecv(k) == [k EXCEPT !.hs_recv_keys = TRUE]

InstallApplicationRecv(k) ==
  [k EXCEPT !.app_recv_keys = Append(k.app_recv_keys, RecvEpochEntry(3))]

\* Fault: the handshake keys survive the handshake.
ReleaseRecv_KeepsKeys(k) == k

ReleaseRecv(k) == [k EXCEPT !.hs_recv_keys = FALSE]

\* The oldest entry goes when the array is full.
update_recv_keys(k) ==
  LET ks    == k.app_recv_keys
      kept  == IF Len(ks) = MaxRecvEpochs THEN Tail(ks) ELSE ks
      epoch == ks[Len(ks)].epoch + 1
  IN  [k EXCEPT !.app_recv_keys = Append(kept, RecvEpochEntry(epoch))]

Slots(k, epoch) == {i \in 1 .. Len(k.app_recv_keys) : k.app_recv_keys[i].epoch = epoch}

HasRecvKeys(k, epoch) == IF epoch = 2 THEN k.hs_recv_keys ELSE Slots(k, epoch) # {}

\* The full epoch of a record from its two header bits: the handshake keys
\* first, then the newest matching application epoch, else the bits as such.
resolve_epoch(k, bits) ==
  LET ks      == k.app_recv_keys
      matches == {i \in 1 .. Len(ks) : ks[i].epoch % 4 = bits}
      newest  == CHOOSE i \in matches : \A j \in matches : j <= i
  IN  IF k.hs_recv_keys /\ bits = 2 THEN 2
      ELSE IF matches # {} THEN ks[newest].epoch ELSE bits

\* Fault: the number at or above what is expected, not the nearest.
reconstruct_sequence_Ahead(partial, expected) ==
  expected + ((SeqWindow + partial - (expected % SeqWindow)) % SeqWindow)

\* The number nearest to the expected one that has the given low bits.
reconstruct_sequence(partial, expected) ==
  LET half  == SeqWindow \div 2
      apart == partial - (expected % SeqWindow)
      diff  == IF apart > half THEN apart - SeqWindow
               ELSE IF apart < -half THEN apart + SeqWindow ELSE apart
  IN  IF expected + diff < 0 THEN 0 ELSE expected + diff

ExpectedSeq(k, epoch) ==
  IF epoch = 2 THEN k.hs_expected_recv_seq
  ELSE IF Slots(k, epoch) = {} THEN 0
  ELSE k.app_recv_keys[CHOOSE i \in Slots(k, epoch) : TRUE].expected_recv_seq

resolve_sequence(k, epoch, partial) == reconstruct_sequence(partial, ExpectedSeq(k, epoch))

replay_check(k, epoch, seq) ==
  IF epoch = 2 THEN check(k.hs_replay, seq)
  ELSE \E i \in Slots(k, epoch) : check(k.app_recv_keys[i].replay, seq)

\* Fault: the window of the newest epoch is updated, whatever the record's.
replay_update_Newest(k, epoch, seq) ==
  LET newest == Len(k.app_recv_keys)
  IN  IF epoch = 2 THEN [k EXCEPT !.hs_replay = update(k.hs_replay, seq)]
      ELSE [k EXCEPT !.app_recv_keys[newest].replay = update(@, seq)]

\* What is expected next only grows.
Advanced(expected, seq) == IF seq + 1 > expected THEN seq + 1 ELSE expected

replay_update(k, epoch, seq) ==
  IF epoch = 2
  THEN [k EXCEPT !.hs_replay = update(k.hs_replay, seq),
                 !.hs_expected_recv_seq = Advanced(k.hs_expected_recv_seq, seq)]
  ELSE [k EXCEPT !.app_recv_keys =
          [i \in 1 .. Len(k.app_recv_keys) |->
             IF k.app_recv_keys[i].epoch = epoch
             THEN [epoch |-> epoch, replay |-> update(k.app_recv_keys[i].replay, seq),
                   expected_recv_seq |-> Advanced(k.app_recv_keys[i].expected_recv_seq, seq)]
             ELSE k.app_recv_keys[i]]]

\* Record::parse lets a record the peer protected as (epoch, seq) through: it
\* is resolved to an epoch whose replay window has not seen its number and whose
\* keys decrypt it, which takes the keys and the number it was protected with.
Accepts(k, epoch, seq) ==
  /\ resolve_epoch(k, epoch % 4) = epoch
  /\ resolve_sequence(k, epoch, seq % SeqWindow) = seq
  /\ replay_check(k, epoch, seq)
  /\ HasRecvKeys(k, epoch)
=============================================================================
