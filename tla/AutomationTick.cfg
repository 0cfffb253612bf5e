\* Ticks for ever against two torrents and one more API call, with fair scheduling.
SPECIFICATION LiveSpec
CONSTANTS
  ida = ida
  idb = idb
  root = root
  Ids = {ida, idb}
  NoId = NoId
  FileIds = {ida}
  MagnetIds = {idb}
  MaxObjects = 2
  Roots = {root}
  RootOf <- OneRoot
  Callers = {c1}
  SettingsSet <- MCSettings
  Requests <- MCRequests
  MaxOps = 1
INVARIANTS
  TypeOK
  QueueLimitAfterTick
  AutoPausedCarriesFlag
  GuardHoldsUnlessQueued
PROPERTIES
  AutoPausedRestarts
