\* The step hotkey while instructions are not traced.
SPECIFICATION FairSpec
CONSTANTS
  BpId = {}
  HcMax = 3
  Addr = {0}
  BlockLen = {4}
  M1T31 = 3
  Callers = {"button", "hotkey"}
  StepCounts = {1, 2}
  BpChoices = {}
  BudgetCheckEvery = 1
PROPERTIES StepEnds
