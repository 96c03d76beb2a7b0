\* Two operators open their boards on the same tab.
CONSTANTS
    p1 = p1  p2 = p2  ann = ann  bob = bob  main = main  ops = ops
    Pages = {p1, p2}
    Operators = {ann, bob}
    OperatorOf <- MCOperatorOf
    Slugs = {main, ops}
    Boards <- MCBoards
    NoOperator = NoOperator
    NoTab = NoTab
    TTL = 2
    PollInterval = 3
    MaxClock = 6
    MaxMoves = 2
SPECIFICATION PresenceSpec
INVARIANT NeverViewsSelf
CHECK_DEADLOCK FALSE
