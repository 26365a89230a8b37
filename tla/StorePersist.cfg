\* Three verbs, one failed write and one reload between them: a save against
\* the writes of a fold, a drag, the theme, files and breakpoints, from every
\* record an earlier version may have left.
SPECIFICATION Spec
CONSTANTS
  Registry <- Order
  FileIds <- Keys
  Byte = {0, 1}
  Themes = {"system", "dark"}
  DefaultTheme = "system"
  DefaultFlush = 2
  DefaultFolded = {"io"}
  BpId = {"b"}
  DefaultBus <- Ones
  Staged = {"memInit", "splitIo"}
  UiRecords <- Records
  FileTables <- OneFile
  BpLists <- Lists
  MaxVerbs = 3
  MaxFaults = 1
  MaxBoots = 1
INVARIANTS EverySectionOnce ReloadIsIdentity TornSaveKeepsFiles
PROPERTIES SavedSettingsAreBooted FailedSaveIsUndone
CHECK_DEADLOCK FALSE
