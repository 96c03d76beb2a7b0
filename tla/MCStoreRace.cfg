\* An external read sweeps while a mutation commits.
CONSTANTS
  b0 = b0  b1 = b1  big = big  w1 = w1  n1 = n1  t1 = t1  t2 = t2  a1 = a1
  Bodies = {b0, b1}
  DefaultBody = b0
  TooLarge = {}
  WidgetNames = {}
  Connectors = {}
  Tools = {}
  Agents = {}
  Expiries = {1}
  Callers = {c1, c2}
  Ops <- RaceOps
  Seeded = TRUE
  UndoRingSize = 2
  Base = 10
  PadLimit = 100
  StopVersion = 4
  MaxClock = 1
  NoDoc = NoDoc
  NoOp = NoOp
SPECIFICATION Spec
PROPERTY ReadsKeepCommits
\* At StopVersion no caller of this instance has anything left to ask for.
CHECK_DEADLOCK FALSE
