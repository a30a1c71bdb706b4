----------------------------- MODULE MCRecvKeys -----------------------------
EXTENDS RecvKeysSpec, FiniteSets

CONSTANTS MaxEpoch,      \* bound on the epochs reached by KeyUpdates
          MaxAccepted    \* bound on the records accepted

\* The last shares its low bits with the first.
MCSeqnos == {0, 1, 3, 5, 6, 8}

\* Stop exploring beyond the bounds.
Bounded == Cardinality(accepted) <= MaxAccepted /\ (Entries # <<>> => Newest <= MaxEpoch)
=============================================================================
