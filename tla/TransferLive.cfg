\* Two sessions of helpful peers, two pieces of two blocks, one window of requests.
SPECIFICATION LiveSpec
CONSTANTS
  NPieces = 2
  NBlocks = 2
  Sessions = {s1, s2}
  NoSession = NoSession
  RarestFrom = 3
  RequestWindow = 2
  MaxFaults = 0
  Lengths = {0, 1}
  Callers = {}
  Bitfields = {}
  Windows = {}
  UserOps = {}
INVARIANTS
  VerifiesWholeSmallPiece
PROPERTIES
  EventuallySeeding
