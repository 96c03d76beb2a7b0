\* Answers overtake each other on a page: its document, its history panel, its gallery, its chat.
CONSTANTS
    c1 = c1  c2 = c2  s1 = s1  s2 = s2
    Clients = {c1}
    Slots = {s1}
    Kinds <- CommitKinds
    SlowReads = TRUE
    Depth = 2
    MaxCommits = 2
    MaxDrops = 1
    MaxLayers = 2
    NoView = NoView
    Nobody = Nobody
    t1 = t1  t2 = t2  w1 = w1  w2 = w2
    Layouts <- MCLayouts
    StartLayouts <- MCStart
    RingLimit = 2
    MaxVersions = 3
    MaxSaves = 2
    MaxOpens = 2
    HistoryCalls = {1, 2}
    NoLayout = NoLayout
    u1 = u1  u2 = u2  b1 = b1  b2 = b2  r1 = r1  r2 = r2  nm = nm  k1 = k1  k2 = k2
    Urls = {u1, u2}
    Bundles = {b1, b2}
    Recipes = {r1, r2}
    Unsound = {}
    WidgetName <- MCWidgetName
    Index <- MCIndex
    Needs <- MCNeeds
    Carries <- MCCarries
    RecipeTab <- MCRecipeTab
    RecipeNames <- MCRecipeNames
    PageTabs = {t1, t2}
    FirstTab = t1
    MaxDialogs = 2
    MaxTries = 5
    MaxOutside = 2
    Nothing = Nothing
    Tool <- MCTool
    Fragments <- MCFragments
    GivenIds = {g1}
    NoId = NoId
    mail = mail  feed = feed  read = read  send = send  purge = purge  chart = chart
    ConnOrder <- MCConns
    ToolOrder <- MCTools
    CustomOrder <- MCCustoms
    FirstAsk <- MCFirstAsk
    Limit = 8
    All = All
    MaxTouches = 3
    MaxAsks = 1
    Requests = {n1}
    MaxControllers = 2
    MaxTurns = 2
    MaxMounts = 3
    MaxSends = 2
SPECIFICATION MCSpec
INVARIANTS NoLeftovers HistoryTruthful GalleryHonest ModelStreamTrue GrantsOnlyTicked OneConversation
CHECK_DEADLOCK FALSE
