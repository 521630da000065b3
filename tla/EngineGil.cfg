SPECIFICATION Spec
CONSTANTS
  t1 = t1
  t2 = t2
  t3 = t3
  NoThread = NoThread
  Threads = {t1, t2, t3}
  Host <- NoHost
  base = base
  user = user
  badCel = badCel
  badPool = badPool
  Files = {base, user, badCel, badPool}
  Imports <- FourImports
  PoolRejects = {badPool}
  CelRejects = {badCel}
  Preregistered = {user}
  HasRegistry = TRUE
  FreeThreaded = FALSE
SYMMETRY ThreadSymmetry
INVARIANTS TypeOK RegistrationLinked EvaluatesRegistered NoWaitCycle PlainLocksUncontended
PROPERTIES StableUnderValidation
