--------------------------- MODULE RecvKeysProofs ---------------------------
(***************************************************************************)
(* Epoch resolution and at-most-once acceptance across KeyUpdates, for any *)
(* number of KeyUpdates, any window width and any sequence numbers.        *)
(***************************************************************************)
EXTENDS RecvKeysSpec, TLAPS

\* The epochs held are consecutive, and the handshake keys are only held
\* together with epoch 3.
EpochsConsecutive ==
  /\ Len(Entries) <= MaxRecvEpochs
  /\ \A i \in 1 .. Len(Entries) : Entries[i].epoch = Newest - Len(Entries) + i
  /\ Entries # <<>> => Newest - Len(Entries) >= 2
  /\ keys.hs_recv_keys /\ Entries # <<>> => Newest = 3
  /\ released => Entries # <<>> /\ ~keys.hs_recv_keys

\* The window of its epoch, if that is still held, refuses what was accepted;
\* a window made later is for a later epoch.
AcceptedSeen ==
  \A r \in accepted :
    /\ r[1] = 2 => ~check(keys.hs_replay, r[2])
    /\ r[1] # 2 => Entries # <<>> /\ r[1] <= Newest
    /\ \A i \in 1 .. Len(Entries) :
         Entries[i].epoch = r[1] => ~check(Entries[i].replay, r[2])

RecvInv == TypeOK /\ EpochsConsecutive /\ AcceptedSeen

-----------------------------------------------------------------------------
\* ReplayWindow::update keeps the bitmap a bitmap.
LEMMA WindowType ==
  ASSUME NEW w \in ReplayWindowType, NEW n \in Nat
  PROVE  update(w, n) \in ReplayWindowType
BY WidthAssumption DEF update, shifted, ReplayWindowType

\* A number is refused once it has been recorded, provided it was admitted.
LEMMA RecordedSeen ==
  ASSUME NEW w \in ReplayWindowType, NEW n \in Nat, check(w, n)
  PROVE  ~check(update(w, n), n)
<1>0. w.max_seq \in Nat /\ w.window \subseteq 0 .. Width - 1 /\ Width \in Nat /\ Width > 0
  BY WidthAssumption DEF ReplayWindowType
<1>1. CASE n > w.max_seq
  <2>1. update(w, n).max_seq = n /\ 0 \in update(w, n).window
    BY <1>1 DEF update
  <2> QED BY <2>1 DEF check
<1>2. CASE ~(n > w.max_seq)
  <2>1. w.max_seq - n \in 0 .. Width - 1
    BY <1>0, <1>2 DEF check
  <2>2. update(w, n) = [w EXCEPT !.window = @ \cup ({w.max_seq - n} \cap (0 .. Width - 1))]
    BY <1>2 DEF update
  <2>3. /\ update(w, n).max_seq = w.max_seq
        /\ update(w, n).window = w.window \cup {w.max_seq - n}
    BY <2>1, <2>2 DEF ReplayWindowType
  <2> QED BY <1>0, <1>2, <2>3 DEF check
<1> QED BY <1>1, <1>2

\* What a window refuses it still refuses after recording another number.
LEMMA SeenForever ==
  ASSUME NEW w \in ReplayWindowType, NEW n \in Nat, NEW m \in Nat,
         check(w, n), ~check(w, m)
  PROVE  ~check(update(w, n), m)
<1>0. w.max_seq \in Nat /\ w.window \subseteq 0 .. Width - 1 /\ Width \in Nat /\ Width > 0
  BY WidthAssumption DEF ReplayWindowType
<1>1. m <= w.max_seq /\ (w.max_seq - m < Width => w.max_seq - m \in w.window)
  BY <1>0 DEF check
<1>2. CASE n > w.max_seq
  <2> DEFINE delta == n - w.max_seq
  <2>1. /\ update(w, n).max_seq = n
        /\ update(w, n).window = (IF delta > Width - 1 THEN {} ELSE shifted(w.window, delta)) \cup {0}
    BY <1>2 DEF update
  <2>2. ASSUME n - m < Width
        PROVE  n - m \in update(w, n).window
    <3>1. n - m \in 0 .. Width - 1 /\ w.max_seq - m < Width /\ ~(delta > Width - 1)
      BY <1>0, <1>1, <1>2, <2>2
    <3>2. (n - m) - delta = w.max_seq - m
      BY <1>0
    <3>3. n - m \in shifted(w.window, delta)
      BY <1>1, <3>1, <3>2 DEF shifted
    <3> QED BY <2>1, <3>1, <3>3
  <2> QED BY <1>0, <1>1, <1>2, <2>1, <2>2 DEF check
<1>3. CASE ~(n > w.max_seq)
  <2>1. update(w, n) = [w EXCEPT !.window = @ \cup ({w.max_seq - n} \cap (0 .. Width - 1))]
    BY <1>3 DEF update
  <2>2. /\ update(w, n).max_seq = w.max_seq
        /\ w.window \subseteq update(w, n).window
    BY <2>1 DEF ReplayWindowType
  <2> QED BY <1>0, <1>1, <2>2 DEF check
<1> QED BY <1>2, <1>3

-----------------------------------------------------------------------------
\* Before the handshake there are no keys and nothing was accepted.
LEMMA RecvInit == Init => RecvInv
<1> SUFFICES ASSUME Init PROVE RecvInv
  OBVIOUS
<1>1. new \in ReplayWindowType
  BY WidthAssumption DEF new, ReplayWindowType
<1>2. /\ keys.hs_recv_keys = FALSE /\ keys.hs_replay = new
      /\ Entries = <<>> /\ keys \in RecvKeysType
  BY <1>1 DEF Init, NoRecvKeys, RecvKeysType, Entries
<1>3. EpochsConsecutive
  BY <1>2, RecvKeysAssumption DEF EpochsConsecutive, Init
<1> QED BY <1>2, <1>3 DEF Init, RecvInv, TypeOK, AcceptedSeen

\* Every step that concerns the receive keys preserves RecvInv.
LEMMA RecvStep == RecvInv /\ [Next]_vars => RecvInv'
<1> SUFFICES ASSUME RecvInv, [Next]_vars PROVE RecvInv'
  OBVIOUS
<1>0. /\ keys \in RecvKeysType /\ keys.hs_recv_keys \in BOOLEAN
      /\ keys.hs_replay \in ReplayWindowType /\ Entries \in Seq(RecvEpochType)
      /\ accepted \subseteq Nat \X Nat /\ released \in BOOLEAN
      /\ Len(Entries) \in Nat /\ MaxRecvEpochs \in 1 .. 4
  BY RecvKeysAssumption DEF RecvInv, TypeOK, RecvKeysType, Entries
<1>a. \A i \in 1 .. Len(Entries) : Entries[i].epoch \in Nat /\ Entries[i].replay \in ReplayWindowType
  <2>1. \A i \in 1 .. Len(Entries) : Entries[i] \in RecvEpochType
    BY <1>0
  <2> QED BY <2>1 DEF RecvEpochType
<1>b. Entries # <<>> => Len(Entries) >= 1 /\ Len(Entries) \in 1 .. Len(Entries) /\ Newest \in Nat
  <2>1. Entries # <<>> => Len(Entries) >= 1 /\ Len(Entries) \in 1 .. Len(Entries)
    BY <1>0
  <2> QED BY <1>a, <2>1 DEF Newest
<1>1. new \in ReplayWindowType
  BY WidthAssumption DEF new, ReplayWindowType
<1>2. CASE InstallHandshakeKeys
  <2>1. /\ keys' \in RecvKeysType /\ Entries' = Entries /\ Entries = <<>>
        /\ keys'.hs_replay = keys.hs_replay
    BY <1>0, <1>2 DEF InstallHandshakeKeys, InstallHandshakeRecv, RecvKeysType, Entries
  <2> QED BY <1>2, <2>1
          DEF InstallHandshakeKeys, RecvInv, TypeOK, EpochsConsecutive, AcceptedSeen, Newest
<1>3. CASE InstallApplicationKeys
  <2> DEFINE entry == RecvEpochEntry(3)
  <2>1. entry \in RecvEpochType /\ entry.epoch = 3
    BY <1>1 DEF RecvEpochEntry, RecvEpochType
  <2>2. /\ keys' = [keys EXCEPT !.app_recv_keys = Append(Entries, entry)]
        /\ Entries = <<>> /\ released' = released /\ accepted' = accepted
        /\ keys.hs_recv_keys
    BY <1>3 DEF InstallApplicationKeys, InstallApplicationRecv, Entries
  <2> HIDE DEF entry
  <2>3. /\ keys' \in RecvKeysType /\ Entries' = <<entry>>
        /\ keys'.hs_replay = keys.hs_replay /\ keys'.hs_recv_keys = keys.hs_recv_keys
    <3>1. Append(Entries, entry) = <<entry>> /\ Append(Entries, entry) \in Seq(RecvEpochType)
      BY <2>1, <2>2
    <3> QED BY <1>0, <2>2, <3>1 DEF RecvKeysType, Entries
  <2>4. Len(Entries') = 1 /\ Newest' = 3 /\ Entries'[1] = entry
    BY <2>1, <2>3 DEF Newest
  <2>5. \A r \in accepted : r[1] = 2
    BY <2>2 DEF RecvInv, AcceptedSeen
  <2>6. ~released
    BY <2>2 DEF RecvInv, EpochsConsecutive
  <2>7. EpochsConsecutive'
    BY <1>0, <2>1, <2>2, <2>3, <2>4, <2>6 DEF EpochsConsecutive
  <2>8. AcceptedSeen'
    BY <2>1, <2>2, <2>3, <2>4, <2>5 DEF AcceptedSeen, RecvInv
  <2> QED BY <1>0, <2>2, <2>3, <2>7, <2>8 DEF RecvInv, TypeOK
<1>4. CASE ReleaseApplicationData
  <2>1. /\ keys' \in RecvKeysType /\ Entries' = Entries /\ Entries # <<>>
        /\ keys'.hs_replay = keys.hs_replay /\ keys'.hs_recv_keys = FALSE
    BY <1>0, <1>4 DEF ReleaseApplicationData, ReleaseRecv, RecvKeysType, Entries
  <2> QED BY <1>4, <2>1
          DEF ReleaseApplicationData, RecvInv, TypeOK, EpochsConsecutive, AcceptedSeen, Newest
<1>5. CASE UpdateRecvKeys
  <2> DEFINE kept  == IF Len(Entries) = MaxRecvEpochs THEN Tail(Entries) ELSE Entries
             entry == RecvEpochEntry(Newest + 1)
  <2>1. Entries # <<>> /\ Len(Entries) >= 1 /\ Newest \in Nat
    BY <1>b, <1>5 DEF UpdateRecvKeys, RecvInv, EpochsConsecutive
  <2>2. /\ kept \in Seq(RecvEpochType) /\ Len(kept) \in Nat
        /\ Len(kept) < MaxRecvEpochs /\ Len(kept) <= Len(Entries)
        /\ \A i \in 1 .. Len(kept) : kept[i].epoch = Newest - Len(kept) + i
        /\ \A i \in 1 .. Len(kept) : \E j \in 1 .. Len(Entries) : kept[i] = Entries[j]
    <3>1. CASE Len(Entries) = MaxRecvEpochs
      <4>1. /\ kept = Tail(Entries) /\ kept \in Seq(RecvEpochType)
            /\ Len(kept) = Len(Entries) - 1
            /\ \A i \in 1 .. Len(kept) : kept[i] = Entries[i + 1] /\ i + 1 \in 1 .. Len(Entries)
        BY <1>0, <2>1, <3>1
      <4> HIDE DEF kept
      <4>2. \A i \in 1 .. Len(kept) : kept[i].epoch = Newest - Len(kept) + i
        BY <1>0, <2>1, <4>1 DEF RecvInv, EpochsConsecutive
      <4> QED BY <1>0, <2>1, <3>1, <4>1, <4>2
    <3>2. CASE Len(Entries) # MaxRecvEpochs
      <4>1. kept = Entries
        BY <3>2
      <4> HIDE DEF kept
      <4>2. Len(Entries) <= MaxRecvEpochs
        BY DEF RecvInv, EpochsConsecutive
      <4>3. \A i \in 1 .. Len(kept) : kept[i].epoch = Newest - Len(kept) + i
        BY <4>1 DEF RecvInv, EpochsConsecutive
      <4> QED BY <1>0, <3>2, <4>1, <4>2, <4>3
    <3> QED BY <3>1, <3>2
  <2>3. entry \in RecvEpochType /\ entry.epoch = Newest + 1
    BY <1>1, <2>1 DEF RecvEpochEntry, RecvEpochType
  <2>4. /\ keys' = [keys EXCEPT !.app_recv_keys = Append(kept, entry)]
        /\ released' = released /\ accepted' = accepted
    BY <1>5 DEF UpdateRecvKeys, update_recv_keys, Entries, Newest
  <2> HIDE DEF kept, entry
  <2>5. /\ keys' \in RecvKeysType /\ Entries' = Append(kept, entry)
        /\ keys'.hs_replay = keys.hs_replay /\ keys'.hs_recv_keys = keys.hs_recv_keys
    <3>1. Append(kept, entry) \in Seq(RecvEpochType)
      BY <2>2, <2>3
    <3> QED BY <1>0, <2>4, <3>1 DEF RecvKeysType, Entries
  <2>6. /\ Len(Entries') = Len(kept) + 1
        /\ \A i \in 1 .. Len(kept) : Entries'[i] = kept[i]
        /\ Entries'[Len(kept) + 1] = entry
        /\ Newest' = Newest + 1
    BY <2>2, <2>3, <2>5 DEF Newest
  <2>7. released /\ ~keys.hs_recv_keys
    BY <1>5 DEF UpdateRecvKeys, RecvInv, EpochsConsecutive
  <2>8. EpochsConsecutive'
    <3>1. \A i \in 1 .. Len(Entries') : Entries'[i].epoch = Newest' - Len(Entries') + i
      <4> SUFFICES ASSUME NEW i \in 1 .. Len(Entries')
                   PROVE  Entries'[i].epoch = Newest' - Len(Entries') + i
        OBVIOUS
      <4>1. CASE i \in 1 .. Len(kept)
        <5>1. Entries'[i].epoch = Newest - Len(kept) + i
          BY <2>2, <2>6, <4>1
        <5> QED BY <2>1, <2>2, <2>6, <5>1
      <4>2. CASE i = Len(kept) + 1
        BY <2>1, <2>2, <2>3, <2>6, <4>2
      <4> QED BY <2>2, <2>6, <4>1, <4>2
    <3>2. Newest - Len(Entries) >= 2
      BY <2>1 DEF RecvInv, EpochsConsecutive
    <3>3. Newest' - Len(Entries') >= 2 /\ Entries' # <<>> /\ Len(Entries') <= MaxRecvEpochs
      <4>1. Entries' # <<>>
        BY <2>2, <2>5
      <4>2. Len(kept) \in Nat /\ Len(Entries) \in Nat /\ Len(kept) <= Len(Entries)
            /\ Len(kept) < MaxRecvEpochs /\ MaxRecvEpochs \in Nat /\ Newest \in Nat
        BY <1>0, <2>1, <2>2
      <4> QED BY <2>6, <3>2, <4>1, <4>2
    <3> QED BY <2>4, <2>5, <2>7, <3>1, <3>3 DEF EpochsConsecutive
  <2>9. AcceptedSeen'
    <3> SUFFICES ASSUME NEW r \in accepted
                 PROVE  /\ r[1] = 2 => ~check(keys'.hs_replay, r[2])
                        /\ r[1] # 2 => Entries' # <<>> /\ r[1] <= Newest'
                        /\ \A i \in 1 .. Len(Entries') :
                             Entries'[i].epoch = r[1] => ~check(Entries'[i].replay, r[2])
      BY <2>4 DEF AcceptedSeen
    <3>0. r[1] \in Nat /\ r[2] \in Nat
      BY <1>0
    <3>1. r[1] = 2 => ~check(keys'.hs_replay, r[2])
      BY <2>5 DEF RecvInv, AcceptedSeen
    <3>2. r[1] <= Newest /\ Entries' # <<>>
      <4>1. Newest >= 3
        BY <1>0, <2>1 DEF RecvInv, EpochsConsecutive
      <4>2. r[1] # 2 => r[1] <= Newest
        BY DEF RecvInv, AcceptedSeen
      <4>3. Entries' # <<>>
        BY <2>2, <2>5
      <4> QED BY <2>1, <3>0, <4>1, <4>2, <4>3
    <3>3. ASSUME NEW i \in 1 .. Len(Entries'), Entries'[i].epoch = r[1]
          PROVE  ~check(Entries'[i].replay, r[2])
      <4>1. i \in 1 .. Len(kept)
        BY <2>1, <2>2, <2>3, <2>6, <3>0, <3>2, <3>3
      <4>2. PICK j \in 1 .. Len(Entries) : Entries'[i] = Entries[j]
        BY <2>2, <2>6, <4>1
      <4> QED BY <3>3, <4>2 DEF RecvInv, AcceptedSeen
    <3> QED BY <2>1, <2>6, <3>0, <3>1, <3>2, <3>3
  <2> QED BY <1>0, <2>4, <2>5, <2>8, <2>9 DEF RecvInv, TypeOK
<1>6. ASSUME NEW epoch \in PeerEpochs, NEW seq \in Seqnos, Receive(epoch, seq)
      PROVE  RecvInv'
  <2>0. seq \in Nat
    BY RecvSeqnosAssumption
  <2>1. /\ keys' = replay_update(keys, epoch, seq) /\ released' = released
        /\ accepted' = accepted \cup {<<epoch, seq>>}
        /\ replay_check(keys, epoch, seq) /\ HasRecvKeys(keys, epoch)
    BY <1>6 DEF Receive, Accepts
  <2>2. CASE epoch = 2
    <3>1. /\ keys' = [keys EXCEPT !.hs_replay = update(keys.hs_replay, seq),
                                   !.hs_expected_recv_seq = Advanced(keys.hs_expected_recv_seq, seq)]
          /\ check(keys.hs_replay, seq)
      BY <2>1, <2>2 DEF replay_update, replay_check
    <3>2. /\ update(keys.hs_replay, seq) \in ReplayWindowType
          /\ Advanced(keys.hs_expected_recv_seq, seq) \in Nat
      BY <1>0, <2>0, WindowType DEF Advanced, RecvKeysType
    <3>3. /\ keys' \in RecvKeysType /\ Entries' = Entries
          /\ keys'.hs_recv_keys = keys.hs_recv_keys
          /\ keys'.hs_replay = update(keys.hs_replay, seq)
      BY <1>0, <3>1, <3>2 DEF RecvKeysType, Entries
    <3>4. Newest' = Newest
      BY <3>3 DEF Newest
    <3>5. EpochsConsecutive'
      BY <2>1, <3>3, <3>4 DEF RecvInv, EpochsConsecutive
    <3>6. AcceptedSeen'
      <4>1. ~check(keys'.hs_replay, seq)
        BY <1>0, <2>0, <3>1, <3>3, RecordedSeen
      <4>2. ASSUME NEW r \in accepted, r[1] = 2
            PROVE  ~check(keys'.hs_replay, r[2])
        <5>1. ~check(keys.hs_replay, r[2]) /\ r[2] \in Nat
          BY <1>0, <4>2 DEF RecvInv, AcceptedSeen
        <5> QED BY <1>0, <2>0, <3>1, <3>3, <5>1, SeenForever
      <4>3. \A i \in 1 .. Len(Entries) : Entries[i].epoch # 2
        <5> SUFFICES ASSUME NEW i \in 1 .. Len(Entries) PROVE Entries[i].epoch # 2
          OBVIOUS
        <5>1. Entries # <<>> /\ Newest - Len(Entries) >= 2
              /\ Entries[i].epoch = Newest - Len(Entries) + i
          BY <1>0 DEF RecvInv, EpochsConsecutive
        <5> QED BY <1>0, <1>b, <5>1
      <4> QED BY <2>1, <2>2, <3>3, <3>4, <4>1, <4>2, <4>3 DEF RecvInv, AcceptedSeen
    <3>7. TypeOK'
      BY <1>0, <2>0, <2>1, <2>2, <3>3 DEF TypeOK
    <3> QED BY <3>5, <3>6, <3>7 DEF RecvInv
  <2>3. CASE epoch # 2
    <3> DEFINE after(i) == IF Entries[i].epoch = epoch
                           THEN [epoch |-> epoch, replay |-> update(Entries[i].replay, seq),
                                 expected_recv_seq |-> Advanced(Entries[i].expected_recv_seq, seq)]
                           ELSE Entries[i]
               entries == [i \in 1 .. Len(Entries) |-> after(i)]
    <3>1. /\ keys' = [keys EXCEPT !.app_recv_keys = entries]
          /\ \E i \in 1 .. Len(Entries) : Entries[i].epoch = epoch /\ check(Entries[i].replay, seq)
      BY <2>1, <2>3 DEF replay_update, replay_check, Slots, Entries
    <3>2. \A i \in 1 .. Len(Entries) :
             Entries[i] \in RecvEpochType /\ Entries[i].epoch \in Nat
             /\ Entries[i].replay \in ReplayWindowType
      BY <1>0, <1>a
    <3>3. \A i, j \in 1 .. Len(Entries) : Entries[i].epoch = Entries[j].epoch => i = j
      BY <1>0, <3>2 DEF RecvInv, EpochsConsecutive, Newest
    <3>4. PICK k \in 1 .. Len(Entries) : Entries[k].epoch = epoch /\ check(Entries[k].replay, seq)
      BY <3>1
    <3>5. epoch \in Nat
      BY <3>2, <3>4
    <3>6. \A i \in 1 .. Len(Entries) : after(i) \in RecvEpochType /\ after(i).epoch = Entries[i].epoch
      <4> SUFFICES ASSUME NEW i \in 1 .. Len(Entries)
                   PROVE  after(i) \in RecvEpochType /\ after(i).epoch = Entries[i].epoch
        OBVIOUS
      <4>1. CASE Entries[i].epoch # epoch
        BY <3>2, <4>1
      <4>2. CASE Entries[i].epoch = epoch
        <5>1. update(Entries[i].replay, seq) \in ReplayWindowType
          BY <2>0, <3>2, WindowType
        <5>2. Entries[i].expected_recv_seq \in Nat
          BY <3>2 DEF RecvEpochType
        <5>3. Advanced(Entries[i].expected_recv_seq, seq) \in Nat
          BY <2>0, <5>2 DEF Advanced
        <5> QED BY <3>5, <4>2, <5>1, <5>3 DEF RecvEpochType
      <4> QED BY <4>1, <4>2
    <3>7. \A i \in 1 .. Len(Entries) :
             /\ Entries[i].epoch = epoch => after(i).replay = update(Entries[i].replay, seq)
             /\ Entries[i].epoch # epoch => after(i).replay = Entries[i].replay
      OBVIOUS
    <3> HIDE DEF after
    <3>8. entries \in Seq(RecvEpochType) /\ Len(entries) = Len(Entries)
      BY <1>0, <3>6
    <3>9. /\ keys' \in RecvKeysType /\ Entries' = entries
          /\ keys'.hs_recv_keys = keys.hs_recv_keys /\ keys'.hs_replay = keys.hs_replay
      BY <1>0, <3>1, <3>8 DEF RecvKeysType, Entries
    <3>10. /\ Len(Entries') = Len(Entries) /\ Newest' = Newest
           /\ \A i \in 1 .. Len(Entries) : Entries'[i] = after(i)
      BY <1>0, <3>4, <3>6, <3>8, <3>9 DEF Newest
    <3>11. Entries # <<>> /\ Entries' # <<>>
      BY <1>0, <3>4, <3>8, <3>9
    <3>12. EpochsConsecutive'
      BY <2>1, <3>6, <3>9, <3>10, <3>11 DEF RecvInv, EpochsConsecutive
    <3>13. \A r \in accepted' : r[1] = 2 => ~check(keys'.hs_replay, r[2])
      BY <2>1, <2>3, <3>9 DEF RecvInv, AcceptedSeen
    <3>14. \A r \in accepted' : r[1] # 2 => Entries' # <<>> /\ r[1] <= Newest'
      <4>1. epoch <= Newest
        BY <1>0, <3>2, <3>4 DEF RecvInv, EpochsConsecutive, Newest
      <4> QED BY <2>1, <3>10, <3>11, <4>1 DEF RecvInv, AcceptedSeen
    <3>15. ASSUME NEW r \in accepted', NEW i \in 1 .. Len(Entries), Entries'[i].epoch = r[1]
           PROVE  ~check(Entries'[i].replay, r[2])
      <4>1. Entries[i].epoch = r[1]
        BY <3>6, <3>10, <3>15
      <4>2. CASE r = <<epoch, seq>>
        <5>1. i = k
          BY <3>3, <3>4, <4>1, <4>2
        <5> QED BY <2>0, <3>2, <3>4, <3>7, <3>10, <4>2, <5>1, RecordedSeen
      <4>3. CASE r \in accepted
        <5>1. ~check(Entries[i].replay, r[2]) /\ r[2] \in Nat
          BY <1>0, <4>1, <4>3 DEF RecvInv, AcceptedSeen
        <5>2. CASE i = k
          BY <2>0, <3>2, <3>4, <3>7, <3>10, <5>1, <5>2, SeenForever
        <5>3. CASE i # k
          BY <3>3, <3>4, <3>7, <3>10, <5>1, <5>3
        <5> QED BY <5>2, <5>3
      <4> QED BY <2>1, <4>2, <4>3
    <3>16. AcceptedSeen'
      BY <3>10, <3>13, <3>14, <3>15 DEF AcceptedSeen
    <3>17. TypeOK'
      BY <1>0, <2>0, <2>1, <3>5, <3>9 DEF TypeOK
    <3> QED BY <3>12, <3>16, <3>17 DEF RecvInv
  <2> QED BY <2>2, <2>3
<1>7. CASE UNCHANGED vars
  BY <1>7 DEF vars, RecvInv, TypeOK, EpochsConsecutive, AcceptedSeen, Entries, Newest
<1> QED BY <1>2, <1>3, <1>4, <1>5, <1>6, <1>7 DEF Next

\* Two epochs less than four apart with the same header bits are the same.
LEMMA SameBits ==
  ASSUME NEW a \in Nat, NEW b \in Nat, a - b \in -3 .. 3, a % 4 = b % 4
  PROVE  a = b
OBVIOUS

\* The epochs held have different bits: there are at most four, one after the
\* other.
LEMMA BitsSuffice == RecvInv => EpochResolved
<1> SUFFICES ASSUME RecvInv,
                    NEW epoch \in 2 .. (IF Entries = <<>> THEN 2 ELSE Newest),
                    HasRecvKeys(keys, epoch)
             PROVE  resolve_epoch(keys, epoch % 4) = epoch
  BY DEF EpochResolved
<1>0. /\ Entries \in Seq(RecvEpochType)
      /\ keys.hs_recv_keys \in BOOLEAN /\ Len(Entries) \in Nat
      /\ MaxRecvEpochs \in 1 .. 4 /\ Len(Entries) <= 4
  BY RecvKeysAssumption DEF RecvInv, TypeOK, RecvKeysType, Entries, EpochsConsecutive
<1>1. CASE epoch = 2
  BY <1>1 DEF HasRecvKeys, resolve_epoch
<1>2. CASE epoch # 2
  <2>1. PICK k \in 1 .. Len(Entries) : Entries[k].epoch = epoch
    BY <1>2 DEF HasRecvKeys, Slots, Entries
  <2>2. epoch \in Nat /\ epoch >= 3 /\ Newest \in Nat /\ Entries # <<>>
    <3>1. Entries # <<>> /\ Len(Entries) \in 1 .. Len(Entries)
      BY <1>0, <2>1
    <3>2. Entries[Len(Entries)] \in RecvEpochType
      BY <1>0, <3>1
    <3>3. Newest \in Nat
      BY <3>2 DEF Newest, RecvEpochType
    <3> QED BY <1>2, <3>1, <3>3
  <2>3. ~(keys.hs_recv_keys /\ epoch % 4 = 2)
    BY <2>2 DEF RecvInv, EpochsConsecutive
  <2>4. ASSUME NEW i \in 1 .. Len(Entries), Entries[i].epoch % 4 = epoch % 4
        PROVE  i = k
    <3>1. Entries[i].epoch = Newest - Len(Entries) + i /\ epoch = Newest - Len(Entries) + k
      BY <2>1 DEF RecvInv, EpochsConsecutive
    <3>2. Entries[i].epoch \in Nat
      <4>1. Entries[i] \in RecvEpochType
        BY <1>0
      <4> QED BY <4>1 DEF RecvEpochType
    <3>3. Entries[i].epoch - epoch \in -3 .. 3
      BY <1>0, <2>2, <3>1
    <3>4. Entries[i].epoch = epoch
      BY <2>2, <2>4, <3>2, <3>3, SameBits
    <3> QED BY <1>0, <2>2, <3>1, <3>4
  <2>5. {i \in 1 .. Len(Entries) : Entries[i].epoch % 4 = epoch % 4} = {k}
    BY <2>1, <2>4
  <2> DEFINE matches == {i \in 1 .. Len(Entries) : Entries[i].epoch % 4 = epoch % 4}
  <2>6. (CHOOSE i \in matches : \A j \in matches : j <= i) = k
    BY <1>0, <2>1, <2>5
  <2> QED BY <2>1, <2>3, <2>5, <2>6 DEF resolve_epoch, Entries
<1> QED BY <1>1, <1>2

\* Spec => []EpochResolved: two header bits always find the keys of an epoch
\* that is held, after any number of KeyUpdates.
THEOREM EpochsUnambiguous == Spec => []EpochResolved
BY RecvInit, RecvStep, BitsSuffice, PTL DEF Spec

\* Spec => []AcceptedOnce: no record is accepted twice, across evictions of
\* epochs and reuse of their header bits.
THEOREM NoReplayAcrossEpochs == Spec => []AcceptedOnce
<1>1. RecvInv => AcceptedOnce
  BY DEF RecvInv, AcceptedSeen, AcceptedOnce, Accepts, replay_check, Slots, Entries
<1> QED BY RecvInit, RecvStep, <1>1, PTL DEF Spec

\* Spec => []TypeOK: the receive keys and their windows keep their types.
THEOREM RecvTypeCorrect == Spec => []TypeOK
<1>1. RecvInv => TypeOK
  BY DEF RecvInv
<1> QED BY RecvInit, RecvStep, <1>1, PTL DEF Spec
=============================================================================
