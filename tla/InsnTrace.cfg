\* Three records, and instructions that repeat with garbage past their bytes:
\* the ring wraps on the fourth record, folded or not.
SPECIFICATION Spec
CONSTANTS
  Cap = 3
  HcMax = 5
  InsnBytes = 2
  Insns <- LoopingInsns
INVARIANTS RingTellsWhatRan FindsTheLatest RowsAreTheRing
