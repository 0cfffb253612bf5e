\* A piece of more blocks than the request window.
SPECIFICATION Spec
CONSTANTS
  NPieces = 1
  NBlocks = 3
  Sessions = {s1}
  NoSession = NoSession
  RarestFrom = 3
  RequestWindow = 2
  MaxFaults = 0
  Lengths = {1}
  Callers = {}
  Bitfields = {{0}}
  Windows = {}
  UserOps = {}
SYMMETRY Symmetry
INVARIANTS
  VerifiesWholePiece
