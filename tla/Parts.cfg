SPECIFICATION PartsSpec
CONSTANTS
  nan = nan
  unset = unset
  minus0 = minus0
  zero0 = zero0
  message = message
  one = one
  two = two
  badPattern = badPattern
  none = none
  gt = gt
  uniqueRule = uniqueRule
  extension = extension
  brokenExtension = brokenExtension
  example = example
  brokenRule = brokenRule
  cel = cel
  brokenCel = brokenCel
  m0 = m0
  m1 = m1
  m2 = m2
  l1 = l1
  noHost = noHost
  \* StandardChecks
  RuleSets <- SomeRuleSets
  FieldValues <- SomeFieldValues
  NaN = nan
  Unset = unset
  Infinite <- Infinities
  PerSecond = 4
  MaxSecond = 7
  MaxNano = 7
  Wide = 64
  MinTime <- Earliest
  MaxTime = 15
  ClockReadings = {0, 2, 8}
  \* TextChecks
  TextRuleSets <- SomeTextRules
  TextValues <- SomeTextValues
  Width <- Widths
  NoText = "x"
  BadPattern = badPattern
  Language <- Languages
  DefinedValues <- Enumerated
  \* Duplicates
  Items <- SomeItems
  ItemLists <- SomeItemLists
  NotANumber = nan
  MinusZero = minus0
  PlusZero = zero0
  NoScalar = message
  NoKey = noKey
  Pairwise = 2
  \* Formats
  Texts <- SomeFormatTexts
  Alphanumeric = {"a", "0", "1"}
  Digits = {"0", "1"}
  HexDigits = {"a", "0", "1", "2", "5"}
  Unreserved = {"a", "0", "1", "2", "5", "~"}
  DigitValue <- DigitValues
  Ipv4Texts <- AnIpv4
  Ipv6Texts <- SomeIpv6
  NotUtf8 <- UndecodedTexts
  Nul = "nul"
  UriHosts <- SomeUris
  NoHost = noHost
  MaxName = 4
  MaxLabel = 2
  MaxPort = 10
  Bits = 10
  \* Views
  Messages = {m0, m1, m2}
  FieldCount <- FieldCounts
  PyLists = {l1}
  MaxItems = 1
  Nothing = nothing
  ViewIds = {v1, v2}
  NoView = noView
  NoBuffer = noBuffer
  Buffers = {1, 2, 3, 4}
  Empty = empty
  \* FieldReads
  Shapes <- SomeShapes
  Zero = zero
  NegativeZero = negativeZero
  Other = other
  Keys = {k1, k2}
  Hole = hole
  MaxLength = 2
  MaxChanges = 2
  Unread = unread
  Nil = nil
  Ref = ref
  Unparsed = unparsed
  \* Closure
  MessageTypes = {1, 2, 3}
  Pools <- SomePools
  \* FieldCompiler
  CompiledMessages <- SomeMessages
  NativeRules = {gt, uniqueRule, brokenRule}
  CelRules = {gt, uniqueRule, brokenRule, extension, brokenExtension}
  UniqueRule = uniqueRule
  Broken = {brokenRule, brokenExtension, brokenCel}
  NoRules = none
  \* CelLifetime
  CelThreads = {t1, t2}
  Programs = {p1, p2}
  Frames = {f1, f2}
  TheEngine = engine
  NoFrame = noFrame
INVARIANTS
  AgreesWithCel TextAgreesWithCel FindsDuplicates FormatsAgree
  NeverShared OwnValues PoolBounded
  QuietIsSequential RulesSeeOneValue ItemsOnce SetIfRead OneChangeNoticed
  NeedsMet RulesKept EngineOutlives
PROPERTIES ClosureEnds
CHECK_DEADLOCK FALSE
