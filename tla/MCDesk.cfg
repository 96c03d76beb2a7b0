\* The wire, an installation, a connector, an action button and the undo ring, each on its own.
CONSTANTS
    c1 = c1
    c2 = c2
    write1 = write1
    write2 = write2
    approve = approve
    Clients <- MCClients
    Invocations <- MCInvocations
    Owner <- MCOwner
    Writes = {write1, write2}
    Blocked = {approve}
    Bundles = {b1, b2, b3}
    Scaffolds = {b3}
    Files = {f1, f2}
    Readers = {r1}
    MaxFaults = 2
    MaxEntries = 3
    NoBundle = NoBundle
    Shapes = {s1, s2}
    MaxInstalls = 2
    MaxChanges = 3
    NoShape = NoShape
    MaxControllers = 2
    MaxActions = 2
    MaxCalls = 3
    MaxSwaps = 1
    NoController = NoController
    b0 = b0  b1 = edit1  big = big  w1 = w1  n1 = n1  t1 = t1  t2 = t2  a1 = a1
    Bodies = {b0, edit1, big}
    DefaultBody = b0
    TooLarge = {big}
    WidgetNames = {}
    Connectors = {}
    Tools = {}
    Agents = {}
    Expiries = {}
    Callers = {v1, v2}
    Ops <- RingOps
    Seeded = TRUE
    UndoRingSize = 2
    Base = 10
    PadLimit = 100
    StopVersion = 5
    MaxClock = 0
    NoDoc = NoDoc
    NoOp = NoOp
SPECIFICATION MCSpec
INVARIANTS EventsMirrored InstallsWhole ShapeApproved ButtonTellsTruth
PROPERTIES ImplementsCalls ButtonSettles ImplementsUndoStack EveryCallSettles
CHECK_DEADLOCK FALSE
