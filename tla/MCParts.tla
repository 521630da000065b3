------------------------------ MODULE MCParts ------------------------------
(***************************************************************************)
(* Instances of the parts that the walk, the rule cache and the engine     *)
(* rest on, for TLC: `part' says which of them a behaviour is one of; the  *)
(* variables of the others stay as they are.                               *)
(***************************************************************************)
EXTENDS MCStandardChecks, TextChecks, Duplicates, Formats, Views, FieldReads,
        Closure, FieldCompiler, CelLifetime

CONSTANTS minus0, zero0, message, one, two, \* list items
          badPattern, none, gt, uniqueRule, extension, brokenExtension, example, brokenRule,
          cel, brokenCel, m0, m1, m2, l1, noHost
VARIABLE part

SeqsTo(S, n) == UNION {[1..k -> S] : k \in 0..n}

----------------------------------------------------------------------------
ChecksOff ==
  /\ ruleset = unset /\ fieldValue = unset /\ checkPhase = "off" /\ pending = <<>>
  /\ reported = <<>> /\ clock = 0 /\ began = 0

----------------------------------------------------------------------------
(* TextChecks: one or two rules of each kind. *)

SomeTexts == SeqsTo({"a", "e"}, 3)
Widths == ("a" :> 1) @@ ("e" :> 2) @@ ("x" :> 1)
Languages ==
  [email |-> {<<"a", "e">>, <<"a">>}, uuid |-> {<<"e">>},
   uri_ref |-> {<<>>, <<"a">>}, header_value |-> {<<"e">>}]
SomeTextValues ==
  [string |-> SomeTexts,
   bytes |-> SomeTexts \cup {<<"x">>, <<"a", "x">>} \cup {[i \in 1..n |-> "a"] : n \in {4, 16}},
   enum |-> -1..2, repeated |-> 0..3, map |-> 0..3,
   any |-> {<<>>, <<"a">>, <<"e">>},
   field_mask |-> {<<>>, <<<<"a">>>>, <<<<"a", "e">>>>, <<<<"a">>, <<"e">>>>,
                   <<<<"e">>, <<"a", "a">>>>, <<<<"a", "e">>, <<"a", "e", "a">>>>}]
Formatted(formats) == {"well_known"} \X [format : formats, enabled : BOOLEAN]
Patterns == {"pattern"} \X {{<<"a">>, <<"e", "e">>}, badPattern}
RulesToSet ==
  [string |-> ({"const"} \X {<<"a">>})
     \cup ({"len", "min_len", "max_len", "len_bytes", "min_bytes", "max_bytes"} \X {0, 2})
     \cup ({"prefix", "suffix", "contains", "not_contains"} \X {<<>>, <<"a">>, <<"a", "e">>})
     \cup ({"in", "not_in"} \X {{}, {<<"a">>, <<"e", "a">>}})
     \cup Patterns \cup Formatted({"email", "uri_ref", "uuid", "header_value"}),
   bytes |-> ({"const"} \X {<<"a">>}) \cup ({"len", "min_len", "max_len"} \X {0, 2})
     \cup ({"prefix", "suffix", "contains"} \X {<<>>, <<"a", "e">>})
     \cup ({"in", "not_in"} \X {{}, {<<"a">>, <<"x">>}})
     \cup Patterns \cup Formatted({"bytes_ip", "bytes_ipv4", "bytes_uuid"}),
   enum |-> ({"const"} \X {1}) \cup ({"defined_only"} \X BOOLEAN)
     \cup ({"in", "not_in"} \X {{}, {1, 2}}),
   repeated |-> {"min_items", "max_items"} \X (0..2),
   map |-> {"min_pairs", "max_pairs"} \X (0..2),
   any |-> {"in", "not_in"} \X {{}, {<<"a">>}},
   field_mask |-> ({"const"} \X {<<<<"a">>, <<"e">>>>})
     \cup ({"in", "not_in"} \X {{}, {<<"a">>}, {<<"a", "e">>, <<"e">>}})]
SomeTextRules ==
  [k \in DOMAIN RulesToSet |->
     {[kind |-> k, set |-> (p[1] :> p[2]) @@ (q[1] :> q[2])] :
        p \in RulesToSet[k], q \in RulesToSet[k]}]
Enumerated == {0, 1}

TextsOff ==
  /\ rules = unset /\ textValue = unset /\ textPhase = "off"
  /\ checksLeft = <<>> /\ reportedIds = <<>>

----------------------------------------------------------------------------
(* Duplicates: a window of two, lists of up to four items. *)

SomeItems == {nan, minus0, zero0, message, one, two}
SomeItemLists == SeqsTo(SomeItems, 4)
DupOff == items = <<>> /\ position = 0 /\ window = <<>> /\ seen = {} /\ search = "off"

----------------------------------------------------------------------------
(* Formats: texts over the characters each format tells apart. *)

Escape == <<"%", "2", "5">>
UriTokens == {<<"[">>, <<"]">>, <<"1">>, <<"~">>, Escape, <<"%", "a", "1">>}
IpLiteral == <<"[", "1", "]">>
SomeUris ==
  (<<"1">> :> noHost) @@ (IpLiteral :> IpLiteral) @@ (<<"1">> \o IpLiteral :> IpLiteral)
  @@ (IpLiteral \o <<"~">> :> IpLiteral) @@ (<<"~">> :> <<"~">>) @@ (Escape :> Escape)
  @@ (<<"~", "%", "a", "1">> :> <<"~", "%", "a", "1">>)
SomeFormatTexts ==
  SeqsTo({"a", "-", ".", "0"}, 6) \cup SeqsTo({"a", "0", "1", ":", "[", "]"}, 5)
  \cup SeqsTo({"a", "1", "%", "~", "/"}, 5)
  \cup {<<"[", "1", "%">> \o t : t \in SeqsTo({"]", ":", "1", "nul"}, 4)}
  \cup {<<"1", ".", "0">> \o t : t \in SeqsTo({":", "1", "0"}, 3)}
  \cup {FlattenSeq(t) : t \in SeqsTo(UriTokens, 5)}
UndecodedTexts == {t \in SomeFormatTexts : \E i \in 1..(Len(t) - 1) : t[i] = "%" /\ t[i + 1] = "a"}
AnIpv4 == {<<"1", ".", "0">>}
SomeIpv6 == {<<":", ":">>, <<"1">>, <<":">>}
DigitValues == ("0" :> 0) @@ ("1" :> 1)
FormatsOff == text = <<>> /\ address = 0 /\ answers = {}

----------------------------------------------------------------------------
(* Views: messages of no, one and two fields, and a list that grows and     *)
(* shrinks.                                                                *)

FieldCounts == (m0 :> 0) @@ (m1 :> 1) @@ (m2 :> 2)
ViewsOff ==
  /\ lengths = [l \in PyLists |-> 0] /\ view = [v \in ViewIds |-> Closed]
  /\ cells = [b \in Buffers |-> <<>>] /\ grown = {}
  /\ freeValues = <<>> /\ freeItems = <<>> /\ peak = 0

----------------------------------------------------------------------------
(* FieldReads: every kind of field, on both runtimes; lists, which are read  *)
(* alike on both, on one.  What a list or map itself is asked goes with      *)
(* items that are not.                                                      *)

SomeShapes ==
  {s \in [runtime : {"protobuf-py", "google"},
          kind : {"oneof", "message", "tracked", "implicit", "list", "map"},
          required : BOOLEAN, member : BOOLEAN,
          ignore : {"none", "unspecified", "if_zero", "always"},
          items : {"none", "unspecified", "if_zero"}] :
     /\ IF s.kind \in {"list", "map"} THEN s.ignore \in {"none", "if_zero"} /\ ~s.member
        ELSE s.items = "none"
     /\ s.items \in {"none", "if_zero"} /\ s.kind \in {"list", "map"} =>
          s.ignore = "none" /\ ~s.required
     /\ s.kind = "list" => s.runtime = "protobuf-py"}
ReadsOff ==
  /\ shape = [runtime |-> "google", kind |-> "list", items |-> "none"]
  /\ python = [set |-> FALSE, value |-> <<>>] /\ cell = Unread /\ frame = Unparsed
  /\ copy = Unread /\ step = "off" /\ at = 0 /\ size = 0 /\ log = <<>> /\ changes = 0

----------------------------------------------------------------------------
(* Closure: all ways three types can refer to themselves and each other. *)

SomePools == [1..3 -> {<<>>, <<1>>, <<2, 3>>, <<3, 2>>, <<2, 2>>}]
ClosureOff ==
  /\ pool = <<>> /\ root = 0 /\ compiledOk = {} /\ compiledErr = {} /\ toVisit = <<>>
  /\ found = {} /\ resolvedSet = {} /\ closing = "off"

----------------------------------------------------------------------------
(* FieldCompiler: a singular field, a list or a map with rules on the field *)
(* and its items; two fields, with message rules.                          *)

RulesNamed(names, sets, knowns, itemRules, keyRules, valueRules) ==
  [name : names, set : sets, known : knowns,
   items : itemRules, keys : keyRules, values : valueRules]
ValueRules(names, sets, knowns) == RulesNamed(names, sets, knowns, {none}, {none}, {none})
FieldRules(ignores, cels, standards) ==
  {none} \cup [ignore : ignores, cel : cels, standard : standards]
SomeItemRules ==
  FieldRules({"none", "always"}, {<<>>, <<cel>>, <<brokenCel>>},
             {none} \cup ValueRules({"int32"}, {{gt, extension}, {brokenRule}, {example}}, {TRUE})
                    \cup ValueRules({"timestamp"}, {{gt}}, BOOLEAN))
SomeKeyRules ==
  FieldRules({"none", "always"}, {<<cel>>},
             {none} \cup ValueRules({"string", "int32"}, {{gt}}, {TRUE}))
FieldOf(name, kind, key, types, fieldRules) ==
  [name : {name}, kind : {kind}, key : {key}, value : types, rules : fieldRules]
SingularFields ==
  FieldOf("a", "singular", "none", {"int32", "wrapper", "timestamp", "plain"},
    FieldRules({"none", "always"}, {<<>>, <<cel>>, <<brokenCel>>},
      {none} \cup ValueRules({"int32", "timestamp", "repeated"},
        {{gt}, {gt, extension, example}, {extension, brokenExtension}}, {TRUE})))
ListFields ==
  FieldOf("b", "list", "none", {"int32", "wrapper", "plain"},
    FieldRules({"none"}, {<<>>},
      {none} \cup RulesNamed({"repeated"}, {{}, {uniqueRule, extension}}, {TRUE},
                             SomeItemRules, {none}, {none})))
MapFields ==
  FieldOf("c", "map", "string", {"int32", "plain"},
    FieldRules({"none"}, {<<>>, <<brokenCel>>},
      {none} \cup RulesNamed({"map"}, {{extension}}, {TRUE},
                             {none}, SomeKeyRules, SomeItemRules)))
OneField(fields) == [oneofs : {<<>>}, cel : {<<>>}, fields : {<<f>> : f \in fields}]
PlainField == [name |-> "a", kind |-> "singular", key |-> "none", value |-> "plain", rules |-> none]
TwoFields ==
  [oneofs : {<<>>, <<<<>>>>, <<<<"a", "b">>>>, <<<<"a">>, <<"b", "b">>>>, <<<<"c">>>>},
   cel : {<<cel>>, <<cel, brokenCel>>},
   fields : {<<PlainField, f>> : f \in {g \in ListFields : g.rules = none}}]
SomeMessages ==
  OneField(SingularFields) \cup OneField(ListFields) \cup OneField(MapFields) \cup TwoFields
CompilerOff ==
  /\ compiling = none /\ nextField = 0 /\ places = <<>> /\ place = NoValue /\ stage = "off"
  /\ values = <<>> /\ fieldResults = <<>> /\ messageError = "none"

----------------------------------------------------------------------------
CelOff ==
  /\ rawEngine = "none" /\ shares = 0 /\ owner = [o \in Owners |-> "absent"]
  /\ rawObjects = {} /\ evaluation = [t \in CelThreads |-> Idle]

PartsInit ==
  /\ part \in {"checks", "texts", "duplicates", "formats", "views", "reads", "closure",
               "compiler", "cel"}
  /\ IF part = "checks" THEN ChecksInit ELSE ChecksOff
  /\ IF part = "texts" THEN TextInit ELSE TextsOff
  /\ IF part = "duplicates" THEN DupInit ELSE DupOff
  /\ IF part = "formats" THEN FormatsInit ELSE FormatsOff
  /\ IF part = "views" THEN ViewsInit ELSE ViewsOff
  /\ IF part = "reads" THEN ReadsInit ELSE ReadsOff
  /\ IF part = "closure" THEN ClosureInit ELSE ClosureOff
  /\ IF part = "compiler" THEN CompileInit ELSE CompilerOff
  /\ IF part = "cel" THEN CelInit ELSE CelOff

PartsNext ==
  \/ /\ part = "checks" /\ ChecksNext
     /\ UNCHANGED <<part, textVars, dupVars, formatVars, viewVars, readVars, closureVars,
                    compileVars, celVars>>
  \/ /\ part = "texts" /\ TextNext
     /\ UNCHANGED <<part, checkVars, dupVars, formatVars, viewVars, readVars, closureVars,
                    compileVars, celVars>>
  \/ /\ part = "duplicates" /\ DupNext
     /\ UNCHANGED <<part, checkVars, textVars, formatVars, viewVars, readVars, closureVars,
                    compileVars, celVars>>
  \/ /\ part = "formats" /\ JudgeText
     /\ UNCHANGED <<part, checkVars, textVars, dupVars, viewVars, readVars, closureVars,
                    compileVars, celVars>>
  \/ /\ part = "views" /\ ViewsNext
     /\ UNCHANGED <<part, checkVars, textVars, dupVars, formatVars, readVars, closureVars,
                    compileVars, celVars>>
  \/ /\ part = "reads" /\ ReadsNext
     /\ UNCHANGED <<part, checkVars, textVars, dupVars, formatVars, viewVars, closureVars,
                    compileVars, celVars>>
  \/ /\ part = "closure" /\ ClosureNext
     /\ UNCHANGED <<part, checkVars, textVars, dupVars, formatVars, viewVars, readVars,
                    compileVars, celVars>>
  \/ /\ part = "compiler" /\ CompileNext
     /\ UNCHANGED <<part, checkVars, textVars, dupVars, formatVars, viewVars, readVars,
                    closureVars, celVars>>
  \/ /\ part = "cel" /\ CelNext
     /\ UNCHANGED <<part, checkVars, textVars, dupVars, formatVars, viewVars, readVars,
                    closureVars, compileVars>>

partsVars ==
  <<part, checkVars, textVars, dupVars, formatVars, viewVars, readVars, closureVars,
    compileVars, celVars>>
PartsSpec == PartsInit /\ [][PartsNext]_partsVars /\ WF_closureVars(ClosureNext)
============================================================================
