--------------------------- MODULE MCReplayWindow ---------------------------
EXTENDS ReplayWindowSpec

\* Numbers on both sides of a Width-sized jump, for Width = 4.
MCSeqnos == 0 .. 10
=============================================================================
