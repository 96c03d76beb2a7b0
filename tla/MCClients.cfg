\* A client's document under every kind of change, with answers in order and fair;
\* and pages that tell each other where they look.
CONSTANTS
  c1 = c1  c2 = c2  s1 = s1  s2 = s2
  Clients = {c1}
  Slots = {s1}
  Kinds <- EditUndo
  SlowReads = FALSE
  Depth = 2
  MaxCommits = 2
  MaxDrops = 1
  MaxLayers = 2
  NoView = NoView
  Nobody = Nobody
  p1 = p1  p2 = p2  ann = ann  bob = bob  main = main  ops = ops
  Pages = {p1, p2}
  Operators = {ann, bob}
  OperatorOf <- MCOperatorOf
  Slugs = {main, ops}
  Boards <- MCBoards
  NoOperator = NoOperator
  NoTab = NoTab
  TTL = 2
  PollInterval = 3
  MaxClock = 6
  MaxMoves = 2
SPECIFICATION MCSpec
INVARIANTS NeverBehind PresenceTrue
PROPERTY Converges
CHECK_DEADLOCK FALSE
