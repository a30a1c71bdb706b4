CONSTANTS
  Width = 3
  MaxRecvEpochs = 4
  SeqWindow = 8
  MaxEpoch = 8
  MaxAccepted = 3
  Seqnos <- MCSeqnos
SPECIFICATION Spec
CONSTRAINT Bounded
INVARIANTS TypeOK EpochResolved AcceptedOnce FreshAccepted
