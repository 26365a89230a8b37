\* Four lines, typed at any pace; a step may time out; a skip is shorter or longer than the prefetch.
SPECIFICATION FairSpec
CONSTANTS
  Addr = {0, 1}
  BlockLen = {4}
  M1T31 = 3
  NoCallback = "null"
  Ranges <- MCRanges
  Skips = {2, 7}
  EnterLimit = 12
  Prefetch = 3
  MaxLines = 4
  HcMax = 28
INVARIANTS LinesInOrder QuietUntilPrefetch
PROPERTIES BreakStopsBeforeFetch StepPrintsTheBreak LoopsEnd
CHECK_DEADLOCK FALSE
