--------------------------- MODULE RecvFreshProofs --------------------------
(***************************************************************************)
(* No record is refused without need, for any number of KeyUpdates, any    *)
(* width of the replay window and any number of header bits.               *)
(***************************************************************************)
EXTENDS RecvKeysProofs

Numbers(records, epoch) == {n \in Nat : <<epoch, n>> \in records}

\* What a window and the expected number say of the numbers accepted: the
\* newest is the one before the expected, and no bit is set without need.
Tracks(w, expected, numbers) ==
  /\ \A n \in numbers : n < expected
  /\ expected # 0 => expected - 1 \in numbers
  /\ w.max_seq = (IF expected = 0 THEN 0 ELSE expected - 1)
  /\ \A o \in w.window : w.max_seq - o \in numbers

FreshInv ==
  /\ Tracks(keys.hs_replay, keys.hs_expected_recv_seq, Numbers(accepted, 2))
  /\ \A i \in 1 .. Len(Entries) :
       Tracks(Entries[i].replay, Entries[i].expected_recv_seq, Numbers(accepted, Entries[i].epoch))

-----------------------------------------------------------------------------
\* The window of ReplayWindow::new has seen nothing.
LEMMA TracksNew == Tracks(new, 0, {})
BY DEF Tracks, new

\* replay_update keeps window and expected number in agreement.
LEMMA TracksUpdate ==
  ASSUME NEW w \in ReplayWindowType, NEW x \in Nat, NEW A \in SUBSET Nat, NEW n \in Nat, Tracks(w, x, A)
  PROVE  Tracks(update(w, n), Advanced(x, n), A \cup {n})
<1>0. w.max_seq \in Nat /\ w.window \subseteq 0 .. Width - 1 /\ Width \in Nat /\ Width > 0
  BY WidthAssumption DEF ReplayWindowType
<1>a. Advanced(x, n) \in Nat
  BY DEF Advanced
<1>1. ASSUME NEW m \in A \cup {n} PROVE m < Advanced(x, n)
  <2>1. m \in Nat /\ (m < x \/ m = n)
    BY DEF Tracks
  <2> QED BY <2>1 DEF Advanced
<1>2. Advanced(x, n) - 1 \in A \cup {n}
  BY DEF Tracks, Advanced
<1>3. CASE n > w.max_seq
  <2>1. /\ update(w, n).max_seq = n
        /\ update(w, n).window \subseteq shifted(w.window, n - w.max_seq) \cup {0}
    BY <1>3 DEF update
  <2>2. ASSUME NEW o \in update(w, n).window PROVE n - o \in A \cup {n}
    <3>1. CASE o = 0
      BY <3>1
    <3>2. CASE o # 0
      <4>1. o \in 0 .. Width - 1 /\ o - (n - w.max_seq) \in w.window
        BY <2>1, <3>2 DEF shifted
      <4>2. w.max_seq - (o - (n - w.max_seq)) \in A
        BY <4>1 DEF Tracks
      <4>3. w.max_seq - (o - (n - w.max_seq)) = n - o
        BY <1>0, <4>1
      <4> QED BY <4>2, <4>3
    <3> QED BY <3>1, <3>2
  <2>3. n = Advanced(x, n) - 1
    BY <1>0, <1>3 DEF Tracks, Advanced
  <2> QED BY <1>a, <1>1, <1>2, <2>1, <2>2, <2>3 DEF Tracks
<1>4. CASE ~(n > w.max_seq)
  <2>1. /\ update(w, n).max_seq = w.max_seq
        /\ update(w, n).window \subseteq w.window \cup {w.max_seq - n}
    BY <1>4 DEF update, ReplayWindowType
  <2>2. ASSUME NEW o \in update(w, n).window PROVE w.max_seq - o \in A \cup {n}
    <3>1. CASE o \in w.window
      BY <3>1 DEF Tracks
    <3>2. CASE o = w.max_seq - n
      BY <1>0, <3>2
    <3> QED BY <2>1, <3>1, <3>2
  <2>3. w.max_seq = Advanced(x, n) - 1
    BY <1>0, <1>4 DEF Tracks, Advanced
  <2> QED BY <1>a, <1>1, <1>2, <2>1, <2>2, <2>3 DEF Tracks
<1> QED BY <1>3, <1>4

\* A number that is new and not below the window passes check.
LEMMA TracksFresh ==
  ASSUME NEW w \in ReplayWindowType, NEW x \in Nat, NEW A \in SUBSET Nat, NEW n \in Nat, Tracks(w, x, A),
         n \notin A, \A m \in A : m < n + Width
  PROVE  check(w, n) /\ x - n <= Width
<1>0. w.max_seq \in Nat /\ w.window \subseteq 0 .. Width - 1 /\ Width \in Nat /\ Width > 0
  BY WidthAssumption DEF ReplayWindowType
<1>1. w.max_seq < n + Width /\ x - n <= Width
  BY <1>0 DEF Tracks
<1>2. w.max_seq - n \notin w.window
  <2> SUFFICES ASSUME w.max_seq - n \in w.window PROVE FALSE
    OBVIOUS
  <2>1. w.max_seq - (w.max_seq - n) \in A
    BY DEF Tracks
  <2> QED BY <1>0, <2>1
<1> QED BY <1>0, <1>1, <1>2 DEF check

\* A product that is less than twice the factor.
LEMMA SmallMultiple ==
  ASSUME NEW W \in Nat \ {0}, NEW q \in Int, q * W < 2 * W, -(2 * W) < q * W
  PROVE  q \in {-1, 0, 1}
<1>1. ASSUME q >= 2 PROVE FALSE
  <2>1. q * W >= 2 * W
    BY <1>1
  <2> QED BY <2>1
<1>2. ASSUME q <= -2 PROVE FALSE
  <2>1. q * W <= -(2 * W)
    BY <1>2
  <2> QED BY <2>1
<1> QED BY <1>1, <1>2

\* reconstruct_sequence finds every number less than half of SeqWindow away
\* from the expected one.
LEMMA Reconstructed ==
  ASSUME NEW x \in Nat, NEW n \in Nat, n - x < SeqWindow \div 2, x - n < SeqWindow \div 2
  PROVE  reconstruct_sequence(n % SeqWindow, x) = n
<1> DEFINE W == SeqWindow
           half == W \div 2
           apart == (n % W) - (x % W)
           q == (x \div W) - (n \div W)
<1>1. W \in Nat \ {0} /\ half \in Nat /\ W = 2 * half
  BY SeqWindowAssumption
<1>2. /\ n % W \in 0 .. W - 1 /\ x % W \in 0 .. W - 1 /\ n \div W \in Int /\ x \div W \in Int
      /\ n = W * (n \div W) + (n % W) /\ x = W * (x \div W) + (x % W)
  BY <1>1
<1>3. apart = (n - x) + q * W /\ apart \in Int /\ q \in Int
  BY <1>1, <1>2
<1>4. q * W < 2 * W /\ -(2 * W) < q * W
  BY <1>1, <1>2, <1>3
<1>5. q \in {-1, 0, 1}
  BY <1>1, <1>3, <1>4, SmallMultiple
<1> HIDE DEF q
<1>6. n = x + (IF apart > half THEN apart - W ELSE IF apart < -half THEN apart + W ELSE apart)
  <2>1. CASE q = 0
    BY <1>1, <1>3, <2>1
  <2>2. CASE q = 1
    BY <1>1, <1>3, <2>2
  <2>3. CASE q = -1
    BY <1>1, <1>3, <2>3
  <2> QED BY <1>5, <2>1, <2>2, <2>3
<1> QED BY <1>6 DEF reconstruct_sequence
-----------------------------------------------------------------------------
\* Before the handshake no window has seen anything.
LEMMA FreshInit == Init => FreshInv
<1> SUFFICES ASSUME Init PROVE FreshInv
  OBVIOUS
<1>1. Numbers(accepted, 2) = {} /\ keys.hs_replay = new /\ keys.hs_expected_recv_seq = 0 /\ Len(Entries) = 0
  BY DEF Init, Numbers, NoRecvKeys, Entries
<1>2. 1 .. Len(Entries) = {}
  BY <1>1
<1> QED BY <1>1, <1>2, TracksNew DEF FreshInv

\* Every step that concerns the receive keys preserves FreshInv.
LEMMA FreshStep == RecvInv /\ FreshInv /\ [Next]_vars => FreshInv'
<1> SUFFICES ASSUME RecvInv, FreshInv, [Next]_vars PROVE FreshInv'
  OBVIOUS
<1>0. /\ keys \in RecvKeysType /\ keys.hs_replay \in ReplayWindowType
      /\ keys.hs_expected_recv_seq \in Nat /\ Entries \in Seq(RecvEpochType)
      /\ Len(Entries) \in Nat /\ accepted \subseteq Nat \X Nat
  BY DEF RecvInv, TypeOK, RecvKeysType, Entries
<1>a. \A i \in 1 .. Len(Entries) :
        /\ Entries[i].epoch \in Nat /\ Entries[i].replay \in ReplayWindowType
        /\ Entries[i].expected_recv_seq \in Nat
  <2>1. \A i \in 1 .. Len(Entries) : Entries[i] \in RecvEpochType
    BY <1>0
  <2> QED BY <2>1 DEF RecvEpochType
<1>1. CASE InstallHandshakeKeys
  <2>1. /\ Entries' = Entries /\ keys'.hs_replay = keys.hs_replay
        /\ keys'.hs_expected_recv_seq = keys.hs_expected_recv_seq /\ accepted' = accepted
    BY <1>0, <1>1 DEF InstallHandshakeKeys, InstallHandshakeRecv, RecvKeysType, Entries
  <2> QED BY <2>1 DEF FreshInv
<1>2. CASE InstallApplicationKeys
  <2> DEFINE entry == RecvEpochEntry(3)
  <2>1. /\ Entries = <<>> /\ Entries' = Append(Entries, entry) /\ keys'.hs_replay = keys.hs_replay
        /\ keys'.hs_expected_recv_seq = keys.hs_expected_recv_seq /\ accepted' = accepted
    BY <1>0, <1>2 DEF InstallApplicationKeys, InstallApplicationRecv, RecvKeysType, Entries
  <2>2. Numbers(accepted, 3) = {}
    BY <2>1 DEF RecvInv, AcceptedSeen, Numbers
  <2>3. entry.epoch = 3 /\ entry.replay = new /\ entry.expected_recv_seq = 0
    BY DEF RecvEpochEntry
  <2> HIDE DEF entry
  <2>4. Len(Entries') = 1 /\ Entries'[1] = entry
    BY <2>1
  <2>5. \A i \in 1 .. Len(Entries') : Entries'[i] = entry
    BY <2>4
  <2>6. Tracks(keys'.hs_replay, keys'.hs_expected_recv_seq, Numbers(accepted', 2))
    BY <2>1 DEF FreshInv
  <2>7. ASSUME NEW i \in 1 .. Len(Entries')
        PROVE  Tracks(Entries'[i].replay, Entries'[i].expected_recv_seq, Numbers(accepted', Entries'[i].epoch))
    <3>1. Entries'[i] = entry
      BY <2>5
    <3>2. Numbers(accepted', Entries'[i].epoch) = {}
      BY <2>1, <2>2, <2>3, <3>1
    <3> QED BY <2>3, <3>1, <3>2, TracksNew
  <2> QED BY <2>6, <2>7 DEF FreshInv
<1>3. CASE ReleaseApplicationData
  <2>1. /\ Entries' = Entries /\ keys'.hs_replay = keys.hs_replay
        /\ keys'.hs_expected_recv_seq = keys.hs_expected_recv_seq /\ accepted' = accepted
    BY <1>0, <1>3 DEF ReleaseApplicationData, ReleaseRecv, RecvKeysType, Entries
  <2> QED BY <2>1 DEF FreshInv
<1>4. CASE UpdateRecvKeys
  <2> DEFINE kept == IF Len(Entries) = MaxRecvEpochs THEN Tail(Entries) ELSE Entries
             entry == RecvEpochEntry(Newest + 1)
  <2>1. Entries # <<>> /\ Len(Entries) >= 1
    BY <1>0, <1>4 DEF UpdateRecvKeys, RecvInv, EpochsConsecutive
  <2>2. /\ Entries' = Append(kept, entry) /\ keys'.hs_replay = keys.hs_replay
        /\ keys'.hs_expected_recv_seq = keys.hs_expected_recv_seq /\ accepted' = accepted
    BY <1>0, <1>4 DEF UpdateRecvKeys, update_recv_keys, RecvKeysType, Entries, Newest
  <2>3. Newest \in Nat
    BY <1>0, <1>a, <2>1 DEF Newest
  <2>4. Numbers(accepted, Newest + 1) = {}
    <3>1. \A r \in accepted : r[1] = 2 \/ r[1] <= Newest
      BY DEF RecvInv, AcceptedSeen
    <3>2. Newest >= 3
      BY <1>0, <2>1, <2>3 DEF RecvInv, EpochsConsecutive
    <3> QED BY <2>3, <3>1, <3>2 DEF Numbers
  <2>5. entry.epoch = Newest + 1 /\ entry.replay = new /\ entry.expected_recv_seq = 0
    BY DEF RecvEpochEntry
  <2>6. /\ kept \in Seq(RecvEpochType) /\ Len(kept) \in Nat
        /\ \A i \in 1 .. Len(kept) : \E j \in 1 .. Len(Entries) : kept[i] = Entries[j]
    <3>1. CASE Len(Entries) = MaxRecvEpochs
      <4>1. kept = Tail(Entries) /\ Len(kept) = Len(Entries) - 1 /\ kept \in Seq(RecvEpochType)
        BY <1>0, <2>1, <3>1
      <4>2. \A i \in 1 .. Len(kept) : kept[i] = Entries[i + 1] /\ i + 1 \in 1 .. Len(Entries)
        BY <1>0, <2>1, <4>1
      <4> QED BY <1>0, <4>1, <4>2
    <3>2. CASE Len(Entries) # MaxRecvEpochs
      BY <1>0, <3>2
    <3> QED BY <3>1, <3>2
  <2> HIDE DEF kept, entry
  <2>7. /\ Len(Entries') = Len(kept) + 1 /\ Entries'[Len(kept) + 1] = entry
        /\ \A i \in 1 .. Len(kept) : Entries'[i] = kept[i]
    BY <2>2, <2>6
  <2>8. ASSUME NEW i \in 1 .. Len(Entries')
        PROVE  Tracks(Entries'[i].replay, Entries'[i].expected_recv_seq, Numbers(accepted', Entries'[i].epoch))
    <3>1. CASE i = Len(kept) + 1
      BY <2>2, <2>4, <2>5, <2>7, <3>1, TracksNew
    <3>2. CASE i # Len(kept) + 1
      <4>1. i \in 1 .. Len(kept)
        BY <2>6, <2>7, <3>2
      <4>2. PICK j \in 1 .. Len(Entries) : Entries'[i] = Entries[j]
        BY <2>6, <2>7, <4>1
      <4> QED BY <2>2, <4>2 DEF FreshInv
    <3> QED BY <3>1, <3>2
  <2> QED BY <2>2, <2>8 DEF FreshInv
<1>5. ASSUME NEW epoch \in PeerEpochs, NEW seq \in Seqnos, Receive(epoch, seq)
      PROVE  FreshInv'
  <2>0. seq \in Nat
    BY RecvSeqnosAssumption
  <2>1. keys' = replay_update(keys, epoch, seq) /\ accepted' = accepted \cup {<<epoch, seq>>}
    BY <1>5 DEF Receive
  <2>2. /\ Numbers(accepted', epoch) = Numbers(accepted, epoch) \cup {seq} /\ Numbers(accepted, epoch) \subseteq Nat
        /\ \A other : other # epoch => Numbers(accepted', other) = Numbers(accepted, other)
    BY <2>0, <2>1 DEF Numbers
  <2>3. CASE epoch = 2
    <3>1. /\ Entries' = Entries /\ keys'.hs_replay = update(keys.hs_replay, seq)
          /\ keys'.hs_expected_recv_seq = Advanced(keys.hs_expected_recv_seq, seq)
      BY <1>0, <2>1, <2>3 DEF replay_update, RecvKeysType, Entries
    <3>2. \A i \in 1 .. Len(Entries) : Entries[i].epoch # 2
      <4> SUFFICES ASSUME NEW i \in 1 .. Len(Entries) PROVE Entries[i].epoch # 2
        OBVIOUS
      <4>1. /\ Newest \in Nat /\ Newest - Len(Entries) >= 2
            /\ Entries[i].epoch = Newest - Len(Entries) + i
        BY <1>0, <1>a DEF RecvInv, EpochsConsecutive, Newest
      <4> QED BY <1>0, <4>1
    <3>3. Tracks(keys'.hs_replay, keys'.hs_expected_recv_seq, Numbers(accepted', 2))
      BY <1>0, <2>0, <2>2, <2>3, <3>1, TracksUpdate DEF FreshInv
    <3> QED BY <2>2, <2>3, <3>1, <3>2, <3>3 DEF FreshInv
  <2>4. CASE epoch # 2
    <3> DEFINE after(i) == IF Entries[i].epoch = epoch
                           THEN [epoch |-> epoch, replay |-> update(Entries[i].replay, seq),
                                 expected_recv_seq |-> Advanced(Entries[i].expected_recv_seq, seq)]
                           ELSE Entries[i]
               entries == [i \in 1 .. Len(Entries) |-> after(i)]
    <3>1. keys' = [keys EXCEPT !.app_recv_keys = entries]
      BY <2>1, <2>4 DEF replay_update, Entries
    <3>2. /\ Entries' = entries /\ keys'.hs_replay = keys.hs_replay
          /\ keys'.hs_expected_recv_seq = keys.hs_expected_recv_seq
      BY <1>0, <3>1 DEF RecvKeysType, Entries
    <3>3. Len(Entries') = Len(Entries) /\ \A i \in 1 .. Len(Entries) : Entries'[i] = after(i)
      BY <1>0, <3>2
    <3> HIDE DEF entries
    <3>4. ASSUME NEW i \in 1 .. Len(Entries)
          PROVE  Tracks(Entries'[i].replay, Entries'[i].expected_recv_seq, Numbers(accepted', Entries'[i].epoch))
      <4>1. CASE Entries[i].epoch = epoch
        <5>1. /\ Entries'[i].replay = update(Entries[i].replay, seq) /\ Entries'[i].epoch = epoch
              /\ Entries'[i].expected_recv_seq = Advanced(Entries[i].expected_recv_seq, seq)
          <6>1. Entries'[i] = [epoch |-> epoch, replay |-> update(Entries[i].replay, seq),
                               expected_recv_seq |-> Advanced(Entries[i].expected_recv_seq, seq)]
            BY <3>3, <4>1
          <6> QED BY <6>1
        <5>2. Tracks(Entries[i].replay, Entries[i].expected_recv_seq, Numbers(accepted, epoch))
          BY <4>1 DEF FreshInv
        <5>3. Numbers(accepted', Entries'[i].epoch) = Numbers(accepted, epoch) \cup {seq}
          BY <2>2, <5>1
        <5> QED BY <1>a, <2>0, <2>2, <5>1, <5>2, <5>3, TracksUpdate
      <4>2. CASE Entries[i].epoch # epoch
        <5>1. Entries'[i] = Entries[i]
          BY <3>3, <4>2
        <5> QED BY <2>2, <4>2, <5>1 DEF FreshInv
      <4> QED BY <4>1, <4>2
    <3>5. Numbers(accepted', 2) = Numbers(accepted, 2)
      BY <2>2, <2>4
    <3> QED BY <3>2, <3>3, <3>4, <3>5 DEF FreshInv
  <2> QED BY <2>3, <2>4
<1>6. CASE UNCHANGED vars
  BY <1>6 DEF vars, FreshInv, Entries
<1> QED BY <1>1, <1>2, <1>3, <1>4, <1>5, <1>6 DEF Next

\* Spec => []FreshAccepted: what is new, in the replay window of an epoch that
\* is held and not too far ahead is never refused.
THEOREM NothingFreshRefused == Spec => []FreshAccepted
<1>1. RecvInv /\ FreshInv => FreshAccepted
  <2> SUFFICES ASSUME RecvInv, FreshInv, NEW epoch \in PeerEpochs, NEW seq \in Seqnos,
                      HasRecvKeys(keys, epoch), <<epoch, seq>> \notin accepted,
                      \A r \in accepted : r[1] = epoch => r[2] < seq + Width,
                      seq - ExpectedSeq(keys, epoch) < SeqWindow \div 2
               PROVE  Accepts(keys, epoch, seq)
    BY DEF FreshAccepted
  <2>0. /\ keys \in RecvKeysType /\ keys.hs_replay \in ReplayWindowType
        /\ keys.hs_expected_recv_seq \in Nat /\ Entries \in Seq(RecvEpochType)
        /\ Len(Entries) \in Nat /\ accepted \subseteq Nat \X Nat /\ seq \in Nat
    BY RecvSeqnosAssumption DEF RecvInv, TypeOK, RecvKeysType, Entries
  <2>a. /\ Numbers(accepted, epoch) \in SUBSET Nat /\ seq \notin Numbers(accepted, epoch)
        /\ \A m \in Numbers(accepted, epoch) : m < seq + Width
    BY DEF Numbers
  <2>1. ASSUME NEW w \in ReplayWindowType, NEW x \in Nat, Tracks(w, x, Numbers(accepted, epoch)),
               seq - x < SeqWindow \div 2
        PROVE  check(w, seq) /\ reconstruct_sequence(seq % SeqWindow, x) = seq
    <3>1. check(w, seq) /\ x - seq <= Width
      BY <2>0, <2>1, <2>a, TracksFresh
    <3>2. x - seq < SeqWindow \div 2
      BY <2>0, <2>1, <3>1, SeqWindowAssumption, WidthAssumption
    <3> QED BY <2>0, <2>1, <3>1, <3>2, Reconstructed
  <2>2. CASE epoch = 2
    <3>1. resolve_epoch(keys, epoch % 4) = epoch
      BY <2>2 DEF HasRecvKeys, resolve_epoch
    <3>2. ExpectedSeq(keys, epoch) = keys.hs_expected_recv_seq
      BY <2>2 DEF ExpectedSeq
    <3>3. /\ check(keys.hs_replay, seq)
          /\ reconstruct_sequence(seq % SeqWindow, keys.hs_expected_recv_seq) = seq
      BY <2>0, <2>1, <2>2, <3>2 DEF FreshInv
    <3> QED BY <2>2, <3>1, <3>2, <3>3 DEF Accepts, resolve_sequence, replay_check
  <2>3. CASE epoch # 2
    <3> DEFINE k == CHOOSE i \in Slots(keys, epoch) : TRUE
    <3>1. k \in 1 .. Len(Entries) /\ Entries[k].epoch = epoch
      BY <2>3 DEF HasRecvKeys, Slots, Entries
    <3>2. ExpectedSeq(keys, epoch) = Entries[k].expected_recv_seq
      BY <2>3 DEF HasRecvKeys, ExpectedSeq, Entries
    <3>3. k \in Slots(keys, epoch)
      BY <3>1 DEF Slots, Entries
    <3> HIDE DEF k
    <3>4. Entries[k].replay \in ReplayWindowType /\ Entries[k].expected_recv_seq \in Nat
      <4>1. Entries[k] \in RecvEpochType
        BY <2>0, <3>1
      <4> QED BY <4>1 DEF RecvEpochType
    <3>5. epoch \in 2 .. (IF Entries = <<>> THEN 2 ELSE Newest)
      <4>1. Entries # <<>> /\ Len(Entries) >= 1
        BY <2>0, <3>1
      <4>2. Entries[Len(Entries)] \in RecvEpochType
        BY <2>0, <4>1
      <4>3. Newest \in Nat
        BY <4>2 DEF Newest, RecvEpochType
      <4>4. epoch = Newest - Len(Entries) + k /\ Newest - Len(Entries) >= 2
        BY <3>1, <4>1 DEF RecvInv, EpochsConsecutive
      <4> QED BY <2>0, <3>1, <4>1, <4>3, <4>4
    <3>6. resolve_epoch(keys, epoch % 4) = epoch
      BY <3>5, BitsSuffice DEF EpochResolved
    <3>7. /\ check(Entries[k].replay, seq)
          /\ reconstruct_sequence(seq % SeqWindow, Entries[k].expected_recv_seq) = seq
      BY <2>1, <3>1, <3>2, <3>4 DEF FreshInv
    <3>8. replay_check(keys, epoch, seq)
      BY <2>3, <3>3, <3>7 DEF replay_check, Entries
    <3> QED BY <3>2, <3>6, <3>7, <3>8 DEF Accepts, resolve_sequence
  <2> QED BY <2>2, <2>3
<1> QED BY RecvInit, RecvStep, FreshInit, FreshStep, <1>1, PTL DEF Spec
=============================================================================
