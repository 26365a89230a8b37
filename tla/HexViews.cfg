\* Every encoding, seen by the preview; and sessions of five verbs on the
\* grid of memory and on those of both planes of ports.
SPECIFICATION ViewSpec
CONSTANTS
  Size = 16
  Ports = 4
  PageSizes = {4, 8}
  RowSizes = {1, 2}
  ViewportRows = 1
  Overscan = 1
  PreviewCount = 3
  Files <- TwoFiles
  Typed = {221, 256}
  Images <- AllImages
  Watches = {3, 15}
  Pcs = {0, 14}
INVARIANTS ViewsShowMemory PreviewStartsInstructions WindowsAreDecoded
PROPERTIES  RapidEntryIsSequential
CHECK_DEADLOCK FALSE
