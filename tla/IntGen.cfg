\* The generator and both kinds of pin, every property that holds.
CONSTANTS
  HcMax = 10
  Widths <- FewWidths
  UserPins = {"nINT", "nNMI", "nWAIT"}
SPECIFICATION Spec
INVARIANTS
  GeneratorOwnsNINT
  MirrorIsTrueWhenPaused
PROPERTIES
  PulseIsExact
  NmiOnlyWhenAsked
  ImplementsPulseTrain
