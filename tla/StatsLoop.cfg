\* Two settings requests, a clock of two hours a day, one block and one restart.
SPECIFICATION Spec
CONSTANTS
  c1 = c1
  c2 = c2
  Clients = {c1, c2}
  Patches <- MCPatches
  DefaultPatch <- Free
  NoFile = NoFile
  Torn = Torn
  Hours = 2
  MaxDate = 2
  MaxEvents = 3
SYMMETRY Symmetric
INVARIANTS
  TypeOK
  HeldAsScheduled
  LimitsFollowSettings
  SettingsSurvive
  BlocksCountedOnce
  ChartMatchesToday
PROPERTIES
  SavedDaysStay
