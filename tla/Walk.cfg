SPECIFICATION FairSpec
CONSTANTS
  root = root
  b1 = b1
  b2 = b2
  c = c
  s1 = s1
  s2 = s2
  z = z
  nz = nz
  k1 = k1
  k2 = k2
  e1 = e1
  h = h
  Nodes = {root, b1, b2, c, e1}
  Root = root
  Types = {"A", "B", "C"}
  Keys = {k1, k2, z}
  TypeOf <- MCTypeOf
  Compiled <- MCCompiled
  Messages <- MCMessages
  NoValue = NoValue
  Presence = {"one", "last", "left", "right"}
  Unset = {z}
  Empty = {z, nz, e1}
  NoItem = NoItem
  NoSub = NoSub
  NoFrame = NoFrame
  Checks <- MCChecks
  MaxFails = 2
INVARIANTS TypeOK StopsAtFirst InOrder ReportsAll
PROPERTIES AbortIsFinal Ends
CHECK_DEADLOCK FALSE
