\* Undo takes the version back; other clients ignore its broadcast.
CONSTANTS
  c1 = c1  c2 = c2  s1 = s1  s2 = s2
  Clients = {c1}
  Slots = {s1}
  Kinds <- AllKinds
  SlowReads = FALSE
  Depth = 2
  MaxCommits = 2
  MaxDrops = 0
  MaxLayers = 2
  NoView = NoView
  Nobody = Nobody
SPECIFICATION Spec
INVARIANT ReconciledOnUndo
