SPECIFICATION ValuesSpec
CONSTANTS
  root = root
  b1 = b1
  b2 = b2
  e1 = e1
  s1 = s1
  s2 = s2
  z = z
  k1 = k1
  k2 = k2
  r1 = r1
  r2 = r2
  Nodes = {root, b1, b2, e1}
  Root = root
  Types = {"A", "B"}
  Keys = {k1, k2}
  TypeOf <- MCTypeOf
  Compiled <- MCCompiled
  Messages <- MCMessages
  NoValue = NoValue
  Presence = {"one"}
  Unset = {z}
  Empty = {z, e1}
  NoItem = NoItem
  NoSub = NoSub
  NoFrame = NoFrame
  Checks <- MCChecks
  MaxFails = 1
  Readers = {r1, r2}
  NoReader = NoReader
  Runtimes = {"protobuf-py", "google"}
  Default <- MCDefault
  FieldType <- MCFieldType
  RulePath <- MCRulePath
  Extensions = {"name.ext"}
  FieldOptions <- MCFieldOptions
  MessageOptions <- MCMessageOptions
  Changes <- MCChanges
  MaxChanges = 1
INVARIANTS UnresolvedIsNone
CHECK_DEADLOCK FALSE
