--------------------------- MODULE FieldCompiler ---------------------------
(***************************************************************************)
(* One message type's rules compiled (Builder of rules/build.rs): message  *)
(* oneofs, message CEL, then the fields one by one.  A field is compiled   *)
(* place by place: the field, then the items of a list, or the keys and    *)
(* the values of a map.  At a place come the custom CEL, the check that    *)
(* the standard rules are the ones for the type, the native checks, which  *)
(* take their rule fields from the rules message, and the predefined CEL   *)
(* of the rule fields still set.                                           *)
(*                                                                         *)
(* An error of a field stays with the field.  CEL and rule fields are      *)
(* names; Broken are those that do not compile.                            *)
(***************************************************************************)
EXTENDS Naturals, FiniteSets, Sequences, SequencesExt

CONSTANTS
  CompiledMessages, \* the messages considered, see the operators below
  NativeRules,      \* rule fields with a native check
  CelRules,         \* rule fields with predefined CEL: native, and extensions
  UniqueRule,       \* `repeated.unique', one of the native ones
  Broken,           \* rule fields and CEL names that do not compile
  NoRules           \* no FieldRules, or no standard rules in one

ASSUME RulesAssumption == UniqueRule \in NativeRules /\ UniqueRule \notin Broken

\* A field: [name, kind, key, value, rules]; kind is "singular", "list" or
\* "map"; key and value are types, and rules [ignore, cel, standard], standard
\* being [name, set, known, items, keys, values], `known' false if some set
\* rule field is in no file.
IsRules(rules) ==
  rules # NoRules =>
    /\ DOMAIN rules = {"ignore", "cel", "standard"}
    /\ rules.standard # NoRules =>
         /\ DOMAIN rules.standard = {"name", "set", "known", "items", "keys", "values"}
         /\ \A left \in SUBSET rules.standard.set :
              [rules.standard EXCEPT !.set = left] # NoRules
IsField(field) ==
  /\ field.kind \in {"singular", "list", "map"} /\ IsRules(field.rules)
  /\ field.rules # NoRules /\ field.rules.standard # NoRules =>
       \A part \in {"items", "keys", "values"} : IsRules(field.rules.standard[part])
ASSUME MessagesAssumption ==
  \A m \in CompiledMessages :
    m.fields \in Seq(ToSet(m.fields)) /\ \A i \in DOMAIN m.fields : IsField(m.fields[i])

VARIABLES
  compiling, \* the message: [oneofs, cel, fields]
  nextField, \* how many fields are behind
  places,    \* the places of the field under way, the one compiled first
  place,     \* what is built of that one so far
  stage,
  values,    \* the validators of the field's places so far
  fieldResults, \* the fields that are compiled: their validators, or an error
  messageError
compileVars ==
  <<compiling, nextField, places, place, stage, values, fieldResults, messageError>>

----------------------------------------------------------------------------
(* Types.  A wrapper holds an int32. *)

IsMessageType(type) == type \in {"wrapper", "timestamp", "plain"}
ScalarRules == {"int32", "string", "enum"}

\* expected_rules: "none" for a message type that takes no standard rules.
ExpectedRules(target) ==
  IF target.kind # "singular" THEN IF target.kind = "list" THEN "repeated" ELSE "map"
  ELSE CASE target.type = "wrapper" -> "int32"
         [] target.type = "plain" -> "none"
         [] OTHER -> target.type

\* `unique' compares scalars, and wrappers as what they hold.
UniqueUnsupported(target, standard) ==
  /\ target.kind = "list" /\ standard.name = "repeated" /\ UniqueRule \in standard.set
  /\ IsMessageType(target.type) /\ target.type # "wrapper"

\* Where a value's scalar is in its wrapper's field.
ReadsWrapper(target, standard) ==
  /\ target.type = "wrapper"
  /\ \/ standard.name \in ScalarRules
     \/ target.kind = "list" /\ UniqueRule \in standard.set

----------------------------------------------------------------------------
(* Places. *)

NoValue == [at |-> "none", custom |-> <<>>, native |-> {}, predefined |-> {},
            wrapper |-> FALSE, nested |-> FALSE]
Item(at, type, rules) == [at |-> at, kind |-> "singular", type |-> type, rules |-> rules]
Unruled == [ignore |-> "none", cel |-> <<>>, standard |-> NoRules]

\* build_item: an item without rules is only validated as a message; one whose
\* rules are always ignored is not validated.
Validated(item) ==
  IF item.rules = NoRules THEN IsMessageType(item.type) ELSE item.rules.ignore # "always"
ItemPlace(item) ==
  IF Validated(item) THEN <<[item EXCEPT !.rules = IF @ = NoRules THEN Unruled ELSE @]>>
  ELSE <<>>

\* build_kind, on what remains of the field's standard rules.
ItemRules(standard, name, part) ==
  IF standard # NoRules /\ standard.name = name THEN standard[part] ELSE NoRules
PlacesIn(field, standard) ==
  CASE field.kind = "singular" -> <<>>
    [] field.kind = "list" ->
         ItemPlace(Item("items", field.value, ItemRules(standard, "repeated", "items")))
    [] field.kind = "map" ->
         ItemPlace(Item("keys", field.key, ItemRules(standard, "map", "keys")))
         \o ItemPlace(Item("values", field.value, ItemRules(standard, "map", "values")))

----------------------------------------------------------------------------
CompileInit ==
  /\ compiling \in CompiledMessages
  /\ nextField = 0 /\ places = <<>> /\ place = NoValue /\ stage = "oneofs"
  /\ values = <<>> /\ fieldResults = <<>> /\ messageError = "none"

FieldNames == {compiling.fields[i].name : i \in DOMAIN compiling.fields}

\* message_oneofs: a rule must name fields of the message, each once.
OneofFault(names) ==
  names = <<>> \/ ~IsInjective(names) \/ ~(ToSet(names) \subseteq FieldNames)

CompileOneofs ==
  /\ stage = "oneofs"
  /\ IF \E i \in DOMAIN compiling.oneofs : OneofFault(compiling.oneofs[i])
     THEN messageError' = "oneof" /\ stage' = "failed"
     ELSE stage' = "cel" /\ UNCHANGED messageError
  /\ UNCHANGED <<compiling, nextField, places, place, values, fieldResults>>

Compiles(names) == names \cap Broken = {}

CompileMessageCel ==
  /\ stage = "cel"
  /\ IF Compiles(ToSet(compiling.cel))
     THEN stage' = "field" /\ UNCHANGED messageError
     ELSE stage' = "failed" /\ messageError' = "cel"
  /\ UNCHANGED <<compiling, nextField, places, place, values, fieldResults>>

\* A field has a validator for its rules or its message type, unless it is
\* always ignored.
CurrentField == compiling.fields[nextField]
Skips(field) ==
  IF field.rules = NoRules THEN ~IsMessageType(field.value) ELSE field.rules.ignore = "always"

SkipField ==
  /\ stage = "field" /\ nextField < Len(compiling.fields)
  /\ Skips(compiling.fields[nextField + 1])
  /\ nextField' = nextField + 1
  /\ UNCHANGED <<compiling, places, place, stage, values, fieldResults, messageError>>

BeginField ==
  /\ stage = "field" /\ nextField < Len(compiling.fields)
  /\ LET field == compiling.fields[nextField + 1]
     IN /\ ~Skips(field)
        /\ places' = <<[at |-> "field", kind |-> field.kind, type |-> field.value,
                        rules |-> IF field.rules = NoRules THEN Unruled ELSE field.rules]>>
  /\ nextField' = nextField + 1 /\ values' = <<>> /\ stage' = "custom"
  /\ UNCHANGED <<compiling, place, fieldResults, messageError>>

Target == Head(places)
Standard == Target.rules.standard

FieldFails(why) ==
  /\ fieldResults' =
       Append(fieldResults, [field |-> CurrentField.name, error |-> <<Target.at, why>>, values |-> <<>>])
  /\ stage' = "field" /\ places' = <<>>
  /\ UNCHANGED <<compiling, nextField, place, values, messageError>>

CompileCustom ==
  /\ stage = "custom"
  /\ \/ ~Compiles(ToSet(Target.rules.cel)) /\ FieldFails("custom")
     \/ /\ Compiles(ToSet(Target.rules.cel))
        /\ place' = [NoValue EXCEPT !.at = Target.at, !.custom = Target.rules.cel,
                       !.nested = Target.kind = "singular" /\ IsMessageType(Target.type)]
        /\ stage' = IF Standard = NoRules THEN "placed" ELSE "standard"
        /\ UNCHANGED <<compiling, nextField, places, values, fieldResults, messageError>>

\* standard_rules and the checks of rules that no file declares.
Misplaced ==
  \/ Standard.name # ExpectedRules(Target)
  \/ UniqueUnsupported(Target, Standard) \/ ~Standard.known
CheckStandard ==
  /\ stage = "standard"
  /\ \/ Misplaced /\ FieldFails("standard")
     \/ /\ ~Misplaced /\ stage' = "native"
        /\ place' = [place EXCEPT !.wrapper = ReadsWrapper(Target, Standard)]
        /\ UNCHANGED <<compiling, nextField, places, values, fieldResults, messageError>>

\* The native checks take the rule fields they stand for from the message.
TakenBy == Standard.set \cap NativeRules
\* Mutant: the rule fields that have native checks stay set.
RemainingAll == Standard
Remaining == [Standard EXCEPT !.set = @ \ TakenBy]
BuildNative ==
  /\ stage = "native"
  /\ \/ ~Compiles(TakenBy) /\ FieldFails("native")
     \/ /\ Compiles(TakenBy) /\ stage' = "predefined"
        /\ place' = [place EXCEPT !.native = TakenBy]
        /\ places' = [places EXCEPT ![1].rules.standard = Remaining]
        /\ UNCHANGED <<compiling, nextField, values, fieldResults, messageError>>

\* What is still set: `example', a container's items, and rule fields without
\* CEL are left alone.
CompilePredefined ==
  /\ stage = "predefined"
  /\ LET rules == Standard.set \cap CelRules
     IN \/ ~Compiles(rules) /\ FieldFails("predefined")
        \/ /\ Compiles(rules) /\ stage' = "placed"
           /\ place' = [place EXCEPT !.predefined = rules]
           /\ UNCHANGED <<compiling, nextField, places, values, fieldResults, messageError>>

\* A place is done; after the field itself come its items.
EndPlace ==
  /\ stage = "placed"
  /\ LET rest == Tail(places)
                 \o IF Target.at = "field" THEN PlacesIn(CurrentField, Standard) ELSE <<>>
         all == Append(values, place)
     IN /\ values' = all /\ places' = rest
        /\ IF rest # <<>> THEN stage' = "custom" /\ UNCHANGED fieldResults
           ELSE /\ stage' = "field"
                /\ fieldResults' = Append(fieldResults,
                     [field |-> CurrentField.name, error |-> <<>>, values |-> all])
  /\ UNCHANGED <<compiling, nextField, place, messageError>>

EndMessage ==
  /\ stage = "field" /\ nextField = Len(compiling.fields) /\ stage' = "compiled"
  /\ UNCHANGED <<compiling, nextField, places, place, values, fieldResults, messageError>>

CompileNext ==
  \/ CompileOneofs \/ CompileMessageCel \/ SkipField \/ BeginField
  \/ CompileCustom \/ CheckStandard \/ BuildNative \/ CompilePredefined
  \/ EndPlace \/ EndMessage
CompileSpec == CompileInit /\ [][CompileNext]_compileVars

----------------------------------------------------------------------------
(* What a field's options say, wherever in them: each place that has rules, *)
(* and each that holds messages.                                           *)

PartsOf(field) ==
  LET std == IF field.rules = NoRules THEN NoRules ELSE field.rules.standard
      part(p) == IF std # NoRules /\ std.name \in {"repeated", "map"} THEN std[p] ELSE NoRules
  IN {[at |-> "field", kind |-> field.kind, type |-> field.value, rules |-> field.rules]}
     \cup (IF field.kind = "list" THEN {Item("items", field.value, part("items"))} ELSE {})
     \cup (IF field.kind = "map"
           THEN {Item("keys", field.key, part("keys")), Item("values", field.value, part("values"))}
           ELSE {})
Ruled(part) == part.rules # NoRules /\ part.rules.ignore # "always"

Faulty(part) ==
  /\ Ruled(part)
  /\ \/ ToSet(part.rules.cel) \cap Broken # {}
     \/ /\ part.rules.standard # NoRules
        /\ LET std == part.rules.standard
           IN \/ std.name # ExpectedRules(part) \/ ~std.known
              \/ UniqueUnsupported(part, std)
              \/ std.set \cap (NativeRules \cup CelRules) \cap Broken # {}

\* Every rule of a part is kept once: as a native check or as a program.
Keeps(value, part) ==
  /\ value.nested <=> part.kind = "singular" /\ IsMessageType(part.type)
  /\ Ruled(part) =>
       /\ value.custom = part.rules.cel
       /\ part.rules.standard # NoRules =>
            /\ value.native \cap value.predefined = {}
            /\ value.native \cup value.predefined
                 = part.rules.standard.set \cap (NativeRules \cup CelRules)

Keeping(result, field) ==
  IF result.error # <<>>
  THEN \E part \in PartsOf(field) : part.at = result.error[1] /\ Faulty(part)
  ELSE \A part \in PartsOf(field) :
         LET at == {i \in DOMAIN result.values : result.values[i].at = part.at}
         IN /\ ~Faulty(part)
            /\ Cardinality(at) <= 1
            /\ Ruled(part) => at # {}
            /\ part.kind = "singular" /\ IsMessageType(part.type) /\ part.rules = NoRules => at # {}
            /\ \A i \in at : Keeps(result.values[i], part)

\* A compiled message validates every rule its options state, wherever they
\* state it, and each one once; a field whose rules have a fault anywhere gets
\* an error that names such a place, and no other field does.
RulesKept ==
  stage = "compiled" =>
    LET kept == {i \in DOMAIN compiling.fields : ~Skips(compiling.fields[i])}
        rank(i) == Cardinality({j \in kept : j <= i})
    IN /\ Len(fieldResults) = Cardinality(kept)
       /\ \A i \in kept :
            /\ fieldResults[rank(i)].field = compiling.fields[i].name
            /\ Keeping(fieldResults[rank(i)], compiling.fields[i])
=============================================================================
