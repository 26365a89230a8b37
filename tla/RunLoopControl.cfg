\* Run, pause and step against queued frames, with two breakpoints of either
\* kind added, edited, toggled and removed, a clock that is zeroed, and a
\* budget checked every two edges.
SPECIFICATION Spec
CONSTANTS
  BpId = {b1, b2}
  HcMax = 3
  Addr = {0, 1}
  BlockLen = {4}
  M1T31 = 3
  Callers = {"script"}
  StepCounts = {1, 2}
  BpChoices <- BothKinds
  BudgetCheckEvery = 2
INVARIANTS OneFrame StepIsExact
PROPERTIES PausedCpuIsStill RunStopsAtBreakpoints ImplementsOneShot
