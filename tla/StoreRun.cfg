\* The buttons only: what the UI offers.  A flush every frame or every
\* second one, against frames of any length.
SPECIFICATION StoreFairSpec
CONSTANTS
  BpId = {b1}
  HcMax = 2
  Addr = {0}
  BlockLen = {4}
  M1T31 = 3
  Callers = {"button"}
  StepCounts = {1, 2}
  BpChoices <- OneRange
  BudgetCheckEvery = 1
  Cadences = {1, 2}
INVARIANTS MirrorsAgreeWhenPaused ClockMeasuresTheRun BoundaryFlagIsEarned
PROPERTIES StepEnds RunningMakesProgress MirrorsCatchUp
