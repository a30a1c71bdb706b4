---------------------------- MODULE ReplayWindow ----------------------------
(***************************************************************************)
(* The sliding anti-replay window of window.rs, as operators on a record   *)
(* [max_seq, window].  The 64-bit bitmap is the set of the offsets whose   *)
(* bit is set: offset o stands for sequence number max_seq - o.            *)
(***************************************************************************)
EXTENDS Integers

CONSTANT Width   \* number of bits of the bitmap (64 in the code)

ASSUME WidthAssumption == Width \in Nat \ {0}

ReplayWindowType == [max_seq : Nat, window : SUBSET (0 .. Width - 1)]

\* Fault: the empty window marked by a number before the first one.
new_Sentinel == [max_seq |-> -1, window |-> {}]

new == [max_seq |-> 0, window |-> {}]

\* Fault: no lower edge, so that a number the bitmap has forgotten looks fresh.
check_NoLowerEdge(w, seqno) ==
  \/ seqno > w.max_seq
  \/ w.max_seq - seqno \notin w.window

check(w, seqno) ==
  \/ seqno > w.max_seq
  \/ /\ w.max_seq - seqno < Width
     /\ w.max_seq - seqno \notin w.window

\* Fault: a bitmap that grows instead of losing its oldest bits.
shifted_Unbounded(window, delta) == {o + delta : o \in window}

\* window << delta: bits shifted beyond the bitmap are lost.
shifted(window, delta) == {o \in 0 .. Width - 1 : o - delta \in window}

\* Fault: the bitmap is cleared one position too early.
update_ClearsEarly(w, seqno) ==
  IF seqno > w.max_seq
  THEN LET delta == seqno - w.max_seq
       IN  [max_seq |-> seqno,
            window  |-> (IF delta >= Width - 1 THEN {} ELSE shifted(w.window, delta)) \cup {0}]
  ELSE [w EXCEPT !.window = @ \cup ({w.max_seq - seqno} \cap (0 .. Width - 1))]

update(w, seqno) ==
  IF seqno > w.max_seq
  THEN LET delta == seqno - w.max_seq
       IN  [max_seq |-> seqno,
            window  |-> (IF delta > Width - 1 THEN {} ELSE shifted(w.window, delta)) \cup {0}]
  ELSE [w EXCEPT !.window = @ \cup ({w.max_seq - seqno} \cap (0 .. Width - 1))]
=============================================================================
