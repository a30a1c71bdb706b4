CONSTANTS
  Width = 4
  Seqnos <- MCSeqnos
SPECIFICATION Spec
INVARIANTS TypeOK AtMostOnce CheckExact
