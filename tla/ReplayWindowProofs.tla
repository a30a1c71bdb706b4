------------------------- MODULE ReplayWindowProofs -------------------------
(***************************************************************************)
(* At-most-once acceptance, for every window width and every set of        *)
(* sequence numbers.                                                       *)
(***************************************************************************)
EXTENDS ReplayWindowSpec, TLAPS

\* What makes AtMostOnce inductive: the bitmap is exactly the set of accepted
\* numbers within Width of max_seq, and nothing beyond max_seq was accepted.
BitmapExact ==
  /\ \A n \in Seqnos : accepted[n] > 0 => n <= replay.max_seq
  /\ \A n \in Seqnos : n <= replay.max_seq /\ replay.max_seq - n < Width =>
        (replay.max_seq - n \in replay.window <=> accepted[n] > 0)

WindowInv == TypeOK /\ AtMostOnce /\ BitmapExact

\* A fresh window admits each number once, number 0 included.
LEMMA WindowInit == Init => WindowInv
BY WidthAssumption, SeqnosAssumption
   DEF Init, WindowInv, TypeOK, AtMostOnce, BitmapExact, new, ReplayWindowType

\* ReplayWindow::update keeps the bitmap a bitmap.
LEMMA UpdateType ==
  ASSUME NEW w \in ReplayWindowType, NEW n \in Nat
  PROVE  update(w, n) \in ReplayWindowType
BY WidthAssumption DEF update, shifted, ReplayWindowType

\* Every received record, accepted or not, preserves WindowInv.
LEMMA WindowStep == WindowInv /\ [Next]_vars => WindowInv'
<1> SUFFICES ASSUME WindowInv, [Next]_vars PROVE WindowInv'
  OBVIOUS
<1>1. CASE UNCHANGED vars
  BY <1>1 DEF vars, WindowInv, TypeOK, AtMostOnce, BitmapExact, check
<1>2. ASSUME NEW n \in Seqnos, check(replay, n),
             replay' = update(replay, n),
             accepted' = [accepted EXCEPT ![n] = @ + 1]
      PROVE  WindowInv'
  <2>0. n \in Nat /\ replay \in ReplayWindowType /\ accepted \in [Seqnos -> Nat]
    BY SeqnosAssumption DEF WindowInv, TypeOK
  <2>1. accepted[n] = 0
    BY <1>2, <2>0 DEF check, WindowInv, AtMostOnce, BitmapExact, ReplayWindowType
  <2>2. TypeOK'
    BY <1>2, <2>0, UpdateType DEF TypeOK
  <2>3. AtMostOnce'
    BY <1>2, <2>0, <2>1 DEF AtMostOnce, WindowInv
  <2>4. CASE n > replay.max_seq
    <3>1. replay'.max_seq = n
      BY <1>2, <2>4 DEF update
    <3>2. replay'.window = (IF n - replay.max_seq > Width - 1 THEN {}
                            ELSE shifted(replay.window, n - replay.max_seq)) \cup {0}
      BY <1>2, <2>4 DEF update
    <3>3. ASSUME NEW m \in Seqnos, m <= n, n - m < Width
          PROVE  n - m \in replay'.window <=> accepted'[m] > 0
      <4>0. /\ n \in Nat /\ m \in Nat /\ Width \in Nat /\ Width > 0
            /\ replay.max_seq \in Nat /\ replay.window \subseteq 0 .. Width - 1
        BY <2>0, WidthAssumption, SeqnosAssumption DEF ReplayWindowType
      <4>1. CASE m = n
        BY <1>2, <2>0, <2>1, <3>2, <4>0, <4>1
      <4>2. CASE m # n
        <5>1. accepted'[m] = accepted[m]
          BY <1>2, <2>0, <4>2
        <5>2. n - m # 0
          BY <4>0, <4>2
        <5>3. CASE n - replay.max_seq > Width - 1
          <6>1. n - m \notin replay'.window
            BY <3>2, <5>2, <5>3
          <6>2. m > replay.max_seq
            BY <3>3, <4>0, <5>3
          <6>3. ~(accepted[m] > 0)
            BY <4>0, <6>2 DEF WindowInv, BitmapExact
          <6> QED BY <5>1, <6>1, <6>3
        <5>4. CASE ~(n - replay.max_seq > Width - 1)
          <6>1. n - m \in replay'.window <=> replay.max_seq - m \in replay.window
            <7>1. (n - m) - (n - replay.max_seq) = replay.max_seq - m
              BY <4>0
            <7>2. n - m \in 0 .. Width - 1
              BY <3>3, <4>0
            <7> QED BY <3>2, <5>2, <5>4, <7>1, <7>2 DEF shifted
          <6>2. CASE m <= replay.max_seq
            <7>1. replay.max_seq - m < Width
              BY <2>4, <3>3, <4>0
            <7> QED BY <5>1, <6>1, <6>2, <7>1 DEF WindowInv, BitmapExact
          <6>3. CASE ~(m <= replay.max_seq)
            <7>1. replay.max_seq - m \notin replay.window
              BY <4>0, <6>3
            <7>2. ~(accepted[m] > 0)
              BY <6>3 DEF WindowInv, BitmapExact
            <7> QED BY <5>1, <6>1, <7>1, <7>2
          <6> QED BY <6>2, <6>3
        <5> QED BY <5>3, <5>4
      <4> QED BY <4>1, <4>2
    <3>4. ASSUME NEW m \in Seqnos, accepted'[m] > 0
          PROVE  m <= n
      BY <1>2, <2>0, <2>4, <3>4, SeqnosAssumption
         DEF WindowInv, BitmapExact, ReplayWindowType
    <3>5. BitmapExact'
      BY <3>1, <3>3, <3>4 DEF BitmapExact
    <3> QED BY <2>2, <2>3, <3>5 DEF WindowInv
  <2>5. CASE ~(n > replay.max_seq)
    <3>1. /\ replay'.max_seq = replay.max_seq
          /\ replay'.window = replay.window \cup {replay.max_seq - n}
      <4>1. replay.max_seq - n \in 0 .. Width - 1
        BY <1>2, <2>0, <2>5, WidthAssumption DEF check, ReplayWindowType
      <4>2. replay' = [replay EXCEPT !.window = @ \cup ({replay.max_seq - n} \cap (0 .. Width - 1))]
        BY <1>2, <2>5 DEF update
      <4> QED BY <2>0, <4>1, <4>2 DEF ReplayWindowType
    <3>2. BitmapExact'
      BY <1>2, <2>0, <2>5, <3>1, SeqnosAssumption
         DEF WindowInv, BitmapExact, ReplayWindowType
    <3> QED BY <2>2, <2>3, <3>2 DEF WindowInv
  <2> QED BY <2>4, <2>5
<1> QED BY <1>1, <1>2 DEF Next, Receive

\* Spec => []AtMostOnce: no genuine record number passes ReplayWindow::check
\* and update twice in an epoch, for any Width and any sequence numbers.
THEOREM NoReplay == Spec => []AtMostOnce
<1>1. WindowInv => AtMostOnce
  BY DEF WindowInv
<1> QED BY WindowInit, WindowStep, <1>1, PTL DEF Spec

\* Spec => []CheckExact: check refuses exactly the numbers already accepted
\* and the ones Width or more behind max_seq, so reordering within the window
\* never loses a record.
THEOREM WindowExact == Spec => []CheckExact
<1>1. WindowInv => CheckExact
  BY WidthAssumption, SeqnosAssumption
     DEF WindowInv, TypeOK, AtMostOnce, BitmapExact, CheckExact, check, ReplayWindowType
<1> QED BY WindowInit, WindowStep, <1>1, PTL DEF Spec
=============================================================================
