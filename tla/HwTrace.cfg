\* Four slots, so that the binary search halves twice across the wrap and the
\* fifth change evicts, reusing a slot with stale values; and a section
\* narrower than the ring, so that its rows need a seed.
SPECIFICATION Spec
CONSTANTS
  Capacity = 4
  HcMax = 6
  MaxCells = 3
  Samples <- FloatingSamples
INVARIANTS SnapshotsHold RingTellsTheBus RowsShowTheBus
PROPERTY ImplementsChangeLog
