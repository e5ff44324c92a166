SPECIFICATION Spec
CONSTANTS
  Alphabet = {"a", "r", "n"}
  MaxBytes = 6
INVARIANTS
  FramingIgnoresChunks
CHECK_DEADLOCK FALSE
