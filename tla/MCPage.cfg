\* The four conversations of a page with the host, each on its own.
CONSTANTS
    Frames = {f1, f2}
    Forms = {form}
    Name <- MCName
    Manifests <- MCManifests
    Tabs = {t1, t2}
    Channels = {c1}
    Requests = {r1, r2}
    PromptMax = 1
    PublishMax = 2
    Window = 1
    MaxTime = 1
    MaxMounts = 2
    NoTab = NoTab
    NoOne = NoOne
    Notes = {n1, n2}
    Texts = {x, y}
    Seed = seed
    MaxPads = 2
    MaxEdits = 2
    MaxFails = 1
    MaxOthers = 1
    NoText = NoText
    NoPad = NoPad
    b1 = b1
    b2 = b2
    t1 = t1
    t2 = t2
    Bound = {b1, b2}
    BoardTabs = {t1, t2}
    TabOf <- MCTabOf
    MaxVersion = 1
    MaxPolls = 1
    MaxPushes = 2
    NoValue = NoValue
SPECIFICATION MCSpec
INVARIANTS BridgeHonest EditsKept CacheHonest
PROPERTIES DataAnswered EditsLand
CHECK_DEADLOCK FALSE
