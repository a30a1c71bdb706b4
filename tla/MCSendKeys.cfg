CONSTANTS
  MAX_SEQUENCE_NUMBER = 3
  aead_encryption_limit = 4
  MaxSends = 6
  MaxEpoch = 6
SPECIFICATION Spec
CONSTRAINT Bounded
INVARIANTS TypeOK NonceUnique LabelMatchesKey SequenceNeverWraps
