\* A socket's bytes; or who may hold authority, with leases, replaces, undo and stale sweeps;
\* or an agent's turns, two at once, with budgets that do not hold everything.
CONSTANTS
  b0 = b0  b1 = b1  big = big  w1 = w1  n1 = n1  t1 = t1  t2 = t2  a1 = a1
  Bodies = {b0}
  DefaultBody = b0
  TooLarge = {}
  WidgetNames = {w1}
  Connectors = {n1}
  Tools = {t1, t2}
  Agents = {}
  Expiries = {1}
  Callers = {c1, c2}
  Ops <- AuthorityOps
  Seeded = FALSE
  UndoRingSize = 2
  Base = 10
  PadLimit = 100
  StopVersion = 4
  MaxClock = 1
  NoDoc = NoDoc
  NoOp = NoOp
  Medium = 2
  Large = 5
  MaxMessage = 6
  Scripts <- MCScripts
  ToolDefs <- MCToolDefs
  External = {"large", "small"}
  FullSize <- MCFullSize
  StubSize <- MCStubSize
  DefBudget = 10
  HistoryBudget = 8
  TokenCeiling = 1
  MaxToolIterations = 2
  ResultSize <- MCResultSize
  ElidedSize = 2
  Actions = {act1, act2}
  Slots = {slot1, slot2}
  MaxSends = 1
SPECIFICATION MCSpec
INVARIANTS OperatorAuthority FramesWhole AgentBounded
CHECK_DEADLOCK FALSE
SYMMETRY Symmetry
