SPECIFICATION FairSpec
CONSTANTS
  t1 = t1
  t2 = t2
  t3 = t3
  NoThread = NoThread
  Threads = {t1, t2}
  Host <- NoHost
  base = base
  user = user
  badCel = badCel
  badPool = badPool
  Files = {base, user}
  Imports <- TwoImports
  PoolRejects = {}
  CelRejects = {}
  Preregistered = {base}
  HasRegistry = TRUE
  FreeThreaded = TRUE
INVARIANTS NoWaitCycle
PROPERTIES CallsReturn
