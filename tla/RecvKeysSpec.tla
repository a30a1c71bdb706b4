---------------------------- MODULE RecvKeysSpec ----------------------------
(***************************************************************************)
(* The receive keys of one DTLS 1.3 endpoint from the handshake through any *)
(* number of KeyUpdates, while protected records of any epoch the peer has *)
(* reached arrive in any order, any number of times.                       *)
(***************************************************************************)
EXTENDS RecvKeys

CONSTANT Seqnos   \* sequence numbers the peer uses in each epoch

ASSUME RecvSeqnosAssumption == Seqnos \subseteq Nat

VARIABLES keys,        \* the engine's receive keys
          released,    \* release_app_data
          accepted     \* the (epoch, seq) that got past Record::parse

vars == <<keys, released, accepted>>

Init == keys = NoRecvKeys /\ released = FALSE /\ accepted = {}

Entries == keys.app_recv_keys

Newest == Entries[Len(Entries)].epoch

InstallHandshakeKeys ==
  /\ ~keys.hs_recv_keys /\ Entries = <<>>
  /\ keys' = InstallHandshakeRecv(keys)
  /\ UNCHANGED <<released, accepted>>

InstallApplicationKeys ==
  /\ keys.hs_recv_keys /\ Entries = <<>>
  /\ keys' = InstallApplicationRecv(keys)
  /\ UNCHANGED <<released, accepted>>

ReleaseApplicationData ==
  /\ Entries # <<>> /\ ~released
  /\ released' = TRUE
  /\ keys' = ReleaseRecv(keys)
  /\ UNCHANGED accepted

\* A KeyUpdate is only taken from the queue once the handshake is over.
UpdateRecvKeys ==
  /\ released
  /\ keys' = update_recv_keys(keys)
  /\ UNCHANGED <<released, accepted>>

\* A record the peer protected as (epoch, seq) arrives; the peer is at most one
\* epoch ahead of the newest receive keys, or far behind.
Receive(epoch, seq) ==
  /\ Accepts(keys, epoch, seq)
  /\ keys' = replay_update(keys, epoch, seq)
  /\ accepted' = accepted \cup {<<epoch, seq>>}
  /\ UNCHANGED released

PeerEpochs == 2 .. (IF Entries = <<>> THEN 3 ELSE Newest + 1)

Next ==
  \/ InstallHandshakeKeys
  \/ InstallApplicationKeys
  \/ ReleaseApplicationData
  \/ UpdateRecvKeys
  \/ \E epoch \in PeerEpochs, seq \in Seqnos : Receive(epoch, seq)

Spec == Init /\ [][Next]_vars

-----------------------------------------------------------------------------
\* The keys and the history have their types.
TypeOK == /\ keys \in RecvKeysType
          /\ released \in BOOLEAN
          /\ accepted \subseteq Nat \X Nat

\* Every epoch whose keys are held is found again from its two header bits:
\* resolve_epoch never routes a record to other keys while its own are there,
\* however many KeyUpdates were received.  The handshake epoch 2 shares its bits
\* with epoch 6, epoch 3 with epoch 7, which is why release_application_data
\* drops the handshake keys and why app_recv_keys holds no more than four.
EpochResolved ==
  \A epoch \in 2 .. (IF Entries = <<>> THEN 2 ELSE Newest) :
     HasRecvKeys(keys, epoch) => resolve_epoch(keys, epoch % 4) = epoch

\* A record that was accepted is never accepted again: not while its epoch is
\* held, not once the epoch was evicted and a later one took over its bits, and
\* not by a replay window that was created anew.
AcceptedOnce == \A r \in accepted : ~Accepts(keys, r[1], r[2])

\* No record is refused without need: what was not accepted before, falls into
\* the replay window of its epoch and is less than half of SeqWindow ahead of
\* the newest record is accepted, as long as the keys are held.
FreshAccepted ==
  \A epoch \in PeerEpochs, seq \in Seqnos :
    /\ HasRecvKeys(keys, epoch)
    /\ <<epoch, seq>> \notin accepted
    /\ \A r \in accepted : r[1] = epoch => r[2] < seq + Width
    /\ seq - ExpectedSeq(keys, epoch) < SeqWindow \div 2
    => Accepts(keys, epoch, seq)
=============================================================================
