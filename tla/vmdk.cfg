SPECIFICATION FairSpec
CONSTANTS
  Clients = {c1, c2}
  NoClient = NoClient
  LockDir = lck
  Inside = {m1, m2, h1}
  Outside = {sibling, other, h2}
  Siblings = {sibling}
  Hidden = {h1, h2}
  Root = root
  NoPath = NoPath
  DescSize = 1
  IntMax = 3
  Huge = 20
  Pieces <- MCPieces
CONSTRAINT Bound
INVARIANTS
  TypeOK
  LockExclusive
  CopiesInBounds
  SizeIsAllocated
PROPERTIES
  RequestsAnswered
