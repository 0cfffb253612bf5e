\* Two sessions over two one-block pieces, rarest-first picking.
SPECIFICATION Spec
CONSTANTS
  NPieces = 2
  NBlocks = 1
  Sessions = {s1, s2}
  NoSession = NoSession
  RarestFrom = 2
  RequestWindow = 1
  MaxFaults = 0
  Lengths = {1, 2}
  Callers = {}
  Bitfields = {{1}, {0, 1}}
  Windows = {}
  UserOps = {}
SYMMETRY Symmetry
INVARIANTS
  TypeOK
  NoLeakedReservation
  HaveCountExact
  ExclusiveUnlessStolen
  PresentIsVerified
PROPERTIES
  ImplementsBoard
