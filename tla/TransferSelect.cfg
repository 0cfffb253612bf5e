\* One session, a SetSkippedFiles call, pause, resume, night pause and a streaming window.
SPECIFICATION Spec
CONSTANTS
  NPieces = 2
  NBlocks = 1
  Sessions = {s1}
  NoSession = NoSession
  RarestFrom = 2
  RequestWindow = 1
  MaxFaults = 1
  Lengths = {0, 1, 2}
  Callers = {c1}
  Bitfields = {{1}, {0, 1}}
  Windows <- StreamWindow
  UserOps = {"pause", "resume", "block"}
SYMMETRY Symmetry
INVARIANTS
  NoMissedCompletion
