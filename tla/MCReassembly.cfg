SPECIFICATION Spec
CONSTANTS
  Flight <- MCFlight
  Sizes = {1, 2, 3, 4}
  MaxTogether = 3
  MAX_DEFRAGMENT_PACKETS = 4
INVARIANTS Intact Recoverable HelpIsAskedFor Drained
