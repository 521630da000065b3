SPECIFICATION WarmSpec
CONSTANTS
  t1 = t1
  t2 = t2
  t3 = t3
  NoThread = NoThread
  Threads = {t1, t2, t3}
  Host <- T3OnT1
  base = base
  user = user
  badCel = badCel
  badPool = badPool
  Files = {base, user, badCel}
  Imports <- ThreeImports
  PoolRejects = {}
  CelRejects = {}
  Preregistered = {base}
  HasRegistry = TRUE
  FreeThreaded = FALSE
INVARIANTS NoWaitCycle
