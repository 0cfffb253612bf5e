\* Two announces and discovered peers compete for two places among five peers.
SPECIFICATION ConnectionsSpec
CONSTANTS
  p1 = p1
  p2 = p2
  p3 = p3
  p4 = p4
  p5 = p5
  i1 = i1
  a1 = a1
  a2 = a2
  Peers = {p1, p2, p3, p4, p5}
  Dials = {1, 2, 3, 4, 5}
  Incoming = {i1}
  Announces = {a1, a2}
  MaxConnections = 2
  NoPeer = NoPeer
SYMMETRY Symmetry
INVARIANTS
  KeysMatchDials
  DialsBounded
