CONSTANTS
  big = big
  small = small
  Tasks = {big, small}
  Callers = {big, small, Clearer}
  JobsOf <- MCJobsOf
  MaxStreams = 2
  CrawlWorkers = 2
  QueueCap = 1
  MaxDirs = 2
  MaxFound = 2
  MaxCycles = 2
  MaxStops = 1
  MaxEvents = 1
  NoJob = NoJob
  Clearer = Clearer
  NoFile = NoFile
  Empty = Empty
  Broken = Broken
SPECIFICATION LiveSpec
CHECK_DEADLOCK FALSE
INVARIANTS FilesLimited DoneIsComplete HistorySurvives
PROPERTIES TaskEnds
