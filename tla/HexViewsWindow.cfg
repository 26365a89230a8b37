\* The rows to mount, when the rows get wider or the page smaller.
SPECIFICATION ViewSpec
CONSTANTS
  Size = 16
  Ports = 4
  PageSizes = {4, 8}
  RowSizes = {1, 2}
  ViewportRows = 1
  Overscan = 1
  PreviewCount = 3
  Files <- TwoFiles
  Typed = {221, 256}
  Images <- AllImages
  Watches = {3, 15}
  Pcs = {0, 14}
INVARIANT WindowIsARange
CHECK_DEADLOCK FALSE
