----------------------------- MODULE TextChecks -----------------------------
(***************************************************************************)
(* The native checks of string, bytes, enum, repeated, map, field mask and *)
(* Any rules: built by rules/standard/build/string.rs and misc.rs, run by  *)
(* rules/standard/mod.rs and rules/eval.rs.  (Numbers, durations and       *)
(* timestamps are in StandardChecks, `unique' is in Duplicates.)           *)
(*                                                                         *)
(* A text is a sequence of characters, of one or more bytes each; bytes    *)
(* are such a sequence too, with one that is no text.  A path of a field   *)
(* mask is a sequence of names.  A pattern is the set of texts it matches. *)
(***************************************************************************)
EXTENDS Integers, FiniteSets, Sequences, SequencesExt

CONSTANTS
  TextRuleSets, \* TextRuleSets[kind]: the rules considered, [kind, set], set[rule] the value
  TextValues,   \* TextValues[kind]: the values considered
  Width,        \* Width[c]: how many bytes character c has
  NoText,       \* a byte that is not UTF-8
  BadPattern,   \* a pattern that is not one
  Language,     \* Language[format]: the texts that have the format
  DefinedValues \* the numbers the enum type defines

VARIABLES rules, textValue, checksLeft, reportedIds, textPhase
textVars == <<rules, textValue, checksLeft, reportedIds, textPhase>>

----------------------------------------------------------------------------
(* Building.  The rules of each kind, in the order their checks are placed. *)

Placed ==
  [string |-> <<"const", "len", "min_len", "max_len", "len_bytes", "min_bytes", "max_bytes",
                "pattern", "prefix", "suffix", "contains", "not_contains", "in", "not_in",
                "well_known">>,
   bytes |-> <<"const", "len", "min_len", "max_len", "pattern", "prefix", "suffix", "contains",
               "in", "not_in", "well_known">>,
   enum |-> <<"const", "defined_only", "in", "not_in">>,
   repeated |-> <<"min_items", "max_items">>,
   map |-> <<"min_pairs", "max_pairs">>,
   field_mask |-> <<"const", "in", "not_in">>,
   any |-> <<"in", "not_in">>]

TextCheck(id, rule, arg) == [id |-> id, rule |-> rule, arg |-> arg]

\* A URI reference and a header value are not let through empty, nor need
\* they be.  Every format of bytes lets an empty value through.
AllowsEmpty(format) == format \notin {"uri_ref", "header_value"}

\* A format flag set to false, and a regex naming none, place nothing.
WellKnownChecks(known) ==
  IF ~known.enabled THEN <<>>
  ELSE <<TextCheck(<<known.format>>, "well_known", known.format)>>
       \o IF AllowsEmpty(known.format)
          THEN <<TextCheck(<<known.format, "empty">>, "empty", known.format)>> ELSE <<>>

\* `defined_only: false' and empty lists are the same as nothing set.
Applies(rule, arg) == rule \in {"in", "not_in"} => arg # {}
ChecksFor(r, rule) ==
  IF rule \notin DOMAIN r.set THEN <<>>
  ELSE IF rule = "well_known" THEN WellKnownChecks(r.set[rule])
  ELSE IF rule = "defined_only" /\ ~r.set[rule] THEN <<>>
  ELSE IF ~Applies(rule, r.set[rule]) THEN <<>>
  ELSE <<TextCheck(<<rule>>, rule, r.set[rule])>>
TextChecksOf(r) ==
  FlattenSeq([n \in DOMAIN Placed[r.kind] |-> ChecksFor(r, Placed[r.kind][n])])

----------------------------------------------------------------------------
(* Running. *)

Bytes(s) == FoldLeft(LAMBDA n, c : n + Width[c], 0, s)
IsText(s) == NoText \notin ToSet(s)
Size(kind, v) == IF kind = "bytes" THEN Bytes(v) ELSE Len(v)

\* `contains' of bytes slides a window over them.
HasWindow(s, w) ==
  w = <<>> \/ \E i \in 1..(Len(s) - Len(w) + 1) : SubSeq(s, i, i + Len(w) - 1) = w

\* covered: the path itself is listed, or one it is below.
CoveredBy(paths, path) ==
  \E p \in paths : p = path \/ (Len(p) < Len(path) /\ SubSeq(path, 1, Len(p)) = p)

ByteFormats == {"bytes_ip", "bytes_ipv4", "bytes_uuid"}
LengthsOf(format) ==
  CASE format = "bytes_ip" -> {0, 4, 16}
    [] format = "bytes_ipv4" -> {0, 4}
    [] format = "bytes_uuid" -> {0, 16}
\* Mutant: an empty value lacks the format, and is reported by the companion too.
LacksFormatEmpty(format, v) ==
  IF format \in ByteFormats THEN Bytes(v) \notin LengthsOf(format)
  ELSE v \notin Language[format]
LacksFormat(format, v) ==
  IF format \in ByteFormats THEN Bytes(v) \notin LengthsOf(format)
  ELSE ~(v = <<>> /\ AllowsEmpty(format)) /\ v \notin Language[format]

TextFails(kind, c, v) ==
  CASE c.rule \in {"len"} -> Size(kind, v) # c.arg
    [] c.rule \in {"min_len"} -> Size(kind, v) < c.arg
    [] c.rule \in {"max_len"} -> Size(kind, v) > c.arg
    [] c.rule = "len_bytes" -> Bytes(v) # c.arg
    [] c.rule = "min_bytes" -> Bytes(v) < c.arg
    [] c.rule = "max_bytes" -> Bytes(v) > c.arg
    [] c.rule = "pattern" -> v \notin c.arg
    [] c.rule = "prefix" -> ~IsPrefix(c.arg, v)
    [] c.rule = "suffix" -> ~IsSuffix(c.arg, v)
    [] c.rule = "contains" -> ~HasWindow(v, c.arg)
    [] c.rule = "not_contains" -> HasWindow(v, c.arg)
    [] c.rule = "well_known" -> LacksFormat(c.arg, v)
    [] c.rule = "empty" -> v = <<>>
    [] c.rule = "defined_only" -> v \notin DefinedValues
    [] c.rule \in {"min_items", "min_pairs"} -> v < c.arg
    [] c.rule \in {"max_items", "max_pairs"} -> v > c.arg
    [] c.rule = "const" -> v # c.arg
    [] c.rule = "in" /\ kind = "field_mask" -> \E p \in ToSet(v) : ~CoveredBy(c.arg, p)
    [] c.rule = "not_in" /\ kind = "field_mask" -> \E p \in ToSet(v) : CoveredBy(c.arg, p)
    [] c.rule = "in" /\ kind # "field_mask" -> v \notin c.arg
    [] c.rule = "not_in" /\ kind # "field_mask" -> v \in c.arg

\* A pattern cannot be matched against bytes that are no text.
CannotRun(kind, c, v) == kind = "bytes" /\ c.rule = "pattern" /\ ~IsText(v)

----------------------------------------------------------------------------
(* The rules messages and the values of each kind. *)

Lengths == {"len", "min_len", "max_len", "len_bytes", "min_bytes", "max_bytes",
            "min_items", "max_items", "min_pairs", "max_pairs"}
TextParts == {"prefix", "suffix", "contains", "not_contains"}
RulesOfTexts(kind, r) ==
  /\ r.kind = kind /\ DOMAIN r.set \subseteq ToSet(Placed[kind])
  /\ \A rule \in DOMAIN r.set :
       LET arg == r.set[rule] IN
         /\ rule \in Lengths => arg \in Nat
         /\ rule \in TextParts => arg \in Seq(DOMAIN Width)
         /\ rule = "defined_only" => arg \in BOOLEAN
         /\ rule \in {"in", "not_in"} /\ kind = "field_mask" => \A f \in arg : f \in Seq(STRING)
         /\ rule = "well_known" => /\ arg.enabled \in BOOLEAN
                                   /\ arg.format \notin ToSet(Placed[kind])
                                   /\ (arg.format \in ByteFormats) <=> (kind = "bytes")
ValueOfTexts(kind, v) ==
  /\ kind \in {"string", "bytes"} => v \in Seq(DOMAIN Width)
  /\ kind \in {"repeated", "map"} => v \in Nat
  /\ kind = "field_mask" => v \in Seq(Seq(STRING))

ASSUME CharactersAssumption == \A c \in DOMAIN Width : Width[c] \in Nat \ {0}
ASSUME TextRulesAssumption ==
  \A kind \in DOMAIN TextRuleSets :
    /\ kind \in DOMAIN Placed
    /\ \A r \in TextRuleSets[kind] : RulesOfTexts(kind, r)
    /\ \A v \in TextValues[kind] : ValueOfTexts(kind, v)

----------------------------------------------------------------------------
TextInit ==
  /\ \E kind \in DOMAIN TextRuleSets :
       rules \in TextRuleSets[kind] /\ textValue \in TextValues[kind]
  /\ checksLeft = <<>> /\ reportedIds = <<>> /\ textPhase = "build"

BuildTextChecks ==
  /\ textPhase = "build"
  /\ IF "pattern" \in DOMAIN rules.set /\ rules.set["pattern"] = BadPattern
     THEN textPhase' = "rejected" /\ UNCHANGED checksLeft
     ELSE textPhase' = "run" /\ checksLeft' = TextChecksOf(rules)
  /\ UNCHANGED <<rules, textValue, reportedIds>>

RunTextCheck ==
  /\ textPhase = "run" /\ checksLeft # <<>>
  /\ ~CannotRun(rules.kind, Head(checksLeft), textValue)
  /\ reportedIds' = IF TextFails(rules.kind, Head(checksLeft), textValue)
                    THEN Append(reportedIds, Head(checksLeft).id) ELSE reportedIds
  /\ checksLeft' = Tail(checksLeft)
  /\ UNCHANGED <<rules, textValue, textPhase>>

\* An error ends the validation, with what was reported so far.
TextCheckErrs ==
  /\ textPhase = "run" /\ checksLeft # <<>>
  /\ CannotRun(rules.kind, Head(checksLeft), textValue)
  /\ textPhase' = "error"
  /\ UNCHANGED <<rules, textValue, checksLeft, reportedIds>>

FinishTextChecks ==
  /\ textPhase = "run" /\ checksLeft = <<>> /\ textPhase' = "done"
  /\ UNCHANGED <<rules, textValue, checksLeft, reportedIds>>

TextNext == BuildTextChecks \/ RunTextCheck \/ TextCheckErrs \/ FinishTextChecks
TextSpec == TextInit /\ [][TextNext]_textVars

----------------------------------------------------------------------------
(* The rules as validate.proto states them: `this' is v.                    *)

\* Some text before, the part, and some text after make the whole.
Occurs(s, part, before, after) ==
  \E i, j \in 0..Len(s) :
    /\ SubSeq(s, 1, i) \o SubSeq(s, i + 1, j) \o SubSeq(s, j + 1, Len(s)) = s
    /\ SubSeq(s, i + 1, j) = part
    /\ before \/ SubSeq(s, 1, i) = <<>>
    /\ after \/ SubSeq(s, j + 1, Len(s)) = <<>>

\* The format a rules message asks for, by its name.
Asks(r, name) ==
  "well_known" \in DOMAIN r.set /\ r.set["well_known"].enabled
  /\ r.set["well_known"].format = name
\* What the expression of a format finds wrong.
CelLacksFormat(r, format, v) ==
  LET size == IF r.kind = "bytes" THEN Bytes(v) ELSE Len(v)
  IN CASE format = "bytes_ip" -> size # 0 /\ size # 4 /\ size # 16
       [] format = "bytes_ipv4" -> size # 0 /\ size # 4
       [] format = "bytes_uuid" -> size # 0 /\ size # 16
       [] format \in {"uri_ref", "header_value"} -> v \notin Language[format]
       [] format \notin ByteFormats \cup {"uri_ref", "header_value"} ->
            v # <<>> /\ v \notin Language[format]
\* What the expression of a rule that is set to arg finds wrong.
CelFindsOf(kind, rule, arg, v) ==
  LET size == IF kind = "bytes" THEN Bytes(v) ELSE Len(v)
      below(p, list) == \E f \in list : Len(f) < Len(p) /\ Occurs(p, f, FALSE, TRUE)
      listed(p, list) == p \in list \/ below(p, list)
  IN CASE rule = "well_known" -> FALSE
       [] rule = "const" -> v # arg
       [] rule = "len" -> size # arg
       [] rule = "min_len" -> ~(size >= arg)
       [] rule = "max_len" -> ~(size <= arg)
       [] rule = "len_bytes" -> Bytes(v) # arg
       [] rule = "min_bytes" -> ~(Bytes(v) >= arg)
       [] rule = "max_bytes" -> ~(Bytes(v) <= arg)
       [] rule = "pattern" -> v \notin arg
       [] rule = "prefix" -> ~Occurs(v, arg, FALSE, TRUE)
       [] rule = "suffix" -> ~Occurs(v, arg, TRUE, FALSE)
       [] rule = "contains" -> ~Occurs(v, arg, TRUE, TRUE)
       [] rule = "not_contains" -> Occurs(v, arg, TRUE, TRUE)
       [] rule = "defined_only" -> arg /\ v \notin DefinedValues
       [] rule \in {"min_items", "min_pairs"} -> v < arg
       [] rule \in {"max_items", "max_pairs"} -> v > arg
       [] rule = "in" /\ kind = "field_mask" ->
            arg # {} /\ ~\A p \in ToSet(v) : listed(p, arg)
       [] rule = "not_in" /\ kind = "field_mask" -> \E p \in ToSet(v) : listed(p, arg)
       [] rule = "in" /\ kind # "field_mask" -> arg # {} /\ v \notin arg
       [] rule = "not_in" /\ kind # "field_mask" -> v \in arg
\* What a rule's CEL expression finds wrong, by the rule's id.
CelFinds(r, id, v) ==
  IF Len(id) = 2 THEN Asks(r, id[1]) /\ AllowsEmpty(id[1]) /\ Len(v) = 0
  ELSE IF Asks(r, id[1]) THEN CelLacksFormat(r, id[1], v)
  ELSE id[1] \in DOMAIN r.set /\ CelFindsOf(r.kind, id[1], r.set[id[1]], v)

IdsOf(r) ==
  LET formats == IF "well_known" \in DOMAIN r.set THEN {r.set["well_known"].format} ELSE {}
  IN {<<rule>> : rule \in DOMAIN r.set \cup formats} \cup {<<f, "empty">> : f \in formats}

\* The fields of each rules message, as validate.proto declares them; a format
\* and its `empty' companion are declared as one field.
DeclaredRules ==
  [string |-> <<"const", "len", "min_len", "max_len", "len_bytes", "min_bytes", "max_bytes",
                "pattern", "prefix", "suffix", "contains", "not_contains", "in", "not_in">>,
   bytes |-> <<"const", "len", "min_len", "max_len", "pattern", "prefix", "suffix", "contains",
               "in", "not_in">>,
   enum |-> <<"const", "defined_only", "in", "not_in">>,
   repeated |-> <<"min_items", "max_items">>, map |-> <<"min_pairs", "max_pairs">>,
   field_mask |-> <<"const", "in", "not_in">>, any |-> <<"in", "not_in">>]
Rank(kind, id) ==
  LET declared == DeclaredRules[kind]
  IN IF id[1] \in ToSet(declared) THEN CHOOSE i \in DOMAIN declared : declared[i] = id[1]
     ELSE Len(declared) + Len(id)

\* A value is reported against exactly the rules whose CEL expressions would
\* report it, each once and in the order validate.proto declares them: an empty
\* value by its format or by the companion, never by both; a length by the
\* characters or by the bytes; a mask by what is below a listed path.  Where
\* CEL has no answer, there is none.
TextAgreesWithCel ==
  /\ textPhase = "done" =>
       /\ \A id \in IdsOf(rules) : id \in ToSet(reportedIds) <=> CelFinds(rules, id, textValue)
       /\ \A i, j \in DOMAIN reportedIds :
            i < j => Rank(rules.kind, reportedIds[i]) < Rank(rules.kind, reportedIds[j])
  /\ textPhase \in {"done", "error"} =>
       (textPhase = "error" <=> /\ rules.kind = "bytes" /\ "pattern" \in DOMAIN rules.set
                                /\ ~IsText(textValue))
=============================================================================
