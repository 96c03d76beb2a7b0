CONSTANTS
  k1 = k1
  t1 = t1
  t2 = t2
  r1 = r1
  r2 = r2
  a1 = a1
  Order <- MCOrder
  Users = {r1, r2, a1}
  Refreshes = {r1, r2}
  Connects = {x1, x2}
  Clients = {c1, c2}
  Tools = {t1}
  Home <- MCHome
  ProviderName <- MCProviderName
  Shapes = {"read", "write"}
  Unbuildable = {}
  Tries = 2
  MaxCommits = 2
  None = None
SPECIFICATION Spec
INVARIANTS OneLiveClient NobodyStranded GrantsRespected
CHECK_DEADLOCK FALSE
SYMMETRY Symmetric
