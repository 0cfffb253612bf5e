\* A search and an announcer among two nodes, with three numbers.
SPECIFICATION LiveSpec
CONSTANTS
  s = s
  a = a
  n1 = n1
  n2 = n2
  None = None
  Searches = {s}
  Announcers = {a}
  Nodes = {n1, n2}
  Bootstrap = {n1}
  TxSize = 3
  K = 2
  MaxRounds = 2
  Answers <- MCAnswers
INVARIANTS
  TokensAreOwn
  PendingAreWaiting
PROPERTIES
  LookupsEnd
