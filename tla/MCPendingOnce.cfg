CONSTANTS
  k1 = k1
  k2 = k2
  a1 = a1
  a2 = a2
  w1 = w1
  look = look
  send = send
  post = post
  agent = agent
  anon = anon
  Calls = {k1, k2}
  Actions = {a1}
  Waiters = {w1}
  Tools <- MCTools
  ReadOnly = {look}
  Actors <- MCActors
  Anonymous = anon
  Approvals <- OneApproval
  MaxDrift = 1
  NoAction = NoAction
  NoTool = NoTool
  NoManifest = NoManifest
SPECIFICATION FairSpec
INVARIANTS ExecutionGated SettlesOnce ToldTruly
PROPERTY WaitersHear
