-------------------------- MODULE ReplayWindowSpec --------------------------
(***************************************************************************)
(* One epoch's replay window fed by the record parser: replay_check runs   *)
(* before decryption, replay_update only after it succeeded.  Records      *)
(* arrive in any order, any number of times, genuine or not.               *)
(***************************************************************************)
EXTENDS ReplayWindow

CONSTANT Seqnos   \* sequence numbers the network may present

ASSUME SeqnosAssumption == Seqnos \subseteq Nat

VARIABLES replay,    \* the ReplayWindow
          accepted   \* how often a genuine record number got past the window

vars == <<replay, accepted>>

Init == /\ replay = new
        /\ accepted = [n \in Seqnos |-> 0]

\* Record::parse for one protected record; `genuine' is decryption's verdict.
Receive(n, genuine) ==
  IF check(replay, n) /\ genuine
  THEN /\ replay' = update(replay, n)
       /\ accepted' = [accepted EXCEPT ![n] = @ + 1]
  ELSE UNCHANGED vars

Next == \E n \in Seqnos, genuine \in BOOLEAN : Receive(n, genuine)

Spec == Init /\ [][Next]_vars

-----------------------------------------------------------------------------
\* The window and the counters have their types.
TypeOK == /\ replay \in ReplayWindowType
          /\ accepted \in [Seqnos -> Nat]

\* ReplayWindow::check lets a genuine record through at most once per epoch,
\* whatever the order, the repetitions and the jumps of the window.
AtMostOnce == \A n \in Seqnos : accepted[n] <= 1

\* ReplayWindow::check is exact: it refuses a number only because that number
\* was accepted before or lies Width or more behind the newest one.  A shift
\* that dropped or kept one bit too many would refuse a fresh record or admit
\* an old one, which the bitmap arithmetic of update must never do.
CheckExact ==
  \A n \in Seqnos : check(replay, n) <=> (accepted[n] = 0 /\ replay.max_seq - n < Width)
=============================================================================
