----------------------------- MODULE FieldReads -----------------------------
(***************************************************************************)
(* One field, compiled (build_field in rules/build.rs) and validated once  *)
(* (FieldValidator::validate in rules/eval.rs), read by read through the   *)
(* views of view.rs, while other threads and the Python code that reads    *)
(* run change the message.  The log is what was judged: each rule with the *)
(* value it was judged on, every item or entry with its own.               *)
(*                                                                         *)
(* A message field's value stands for what is in the message it holds.     *)
(* The field has a custom rule, a native check and a predefined rule.      *)
(***************************************************************************)
EXTENDS Integers, FiniteSets, Sequences, SequencesExt

CONSTANTS
  Shapes,       \* the fields considered, see IsShape
  Zero, Other,  \* what a value, item or entry can be: its type's zero, or not
  NegativeZero, \* or the zero of a double that is not its type's zero by its bits
  Keys,         \* the keys of a map
  Hole,         \* a deleted entry of a dict
  MaxLength,    \* a list or map never has more elements
  MaxChanges,   \* how often the message changes meanwhile
  Unread, Nil, Ref, Unparsed

Contents == {Zero, NegativeZero, Other}
EqualsZero(value) == value \in {Zero, NegativeZero}

\* runtime: protobuf-py or google.protobuf.  kind: a member of a oneof, a
\* message, another value that tracks presence, one that does not, a list or a
\* map.  ignore: the rules' `ignore', if they have one; member: whether a
\* message oneof names the field; items: whether the items have rules, and
\* their `ignore'.
IsShape(s) ==
  /\ s.runtime \in {"protobuf-py", "google"}
  /\ s.kind \in {"oneof", "message", "tracked", "implicit", "list", "map"}
  /\ s.required \in BOOLEAN /\ s.member \in BOOLEAN
  /\ s.ignore \in {"none", "unspecified", "if_zero", "always"}
  /\ s.items \in {"none", "unspecified", "if_zero"}
  /\ s.kind \notin {"list", "map"} => s.items = "none"
ASSUME ShapesAssumption == \A s \in Shapes : IsShape(s)

\* What is in a list, and in the table of a dict.
Element == Contents \cup (Keys \X Contents) \cup {Hole}
ASSUME SentinelsAssumption ==
  /\ {Unread, Nil, Ref, Unparsed} \cap Contents = {} /\ Nil # Unread /\ Ref \notin {Unread, Nil}
  /\ Unread \notin Seq(Element) /\ Unparsed \notin Seq(Element)
  /\ Hole \notin Keys \X Contents
ASSUME MaxLengthAssumption == MaxLength \in Nat

VARIABLES
  shape,    \* the field
  python,   \* the message: whether the field is set, and its value
  cell,     \* what the view of the message fetched
  frame,    \* the field in the message as it was serialized for CEL
  copy,     \* the view of a list: the items, copied at the first access
  step, at, \* where the validation is, and at which item
  size,     \* the length it goes by; for a dict, the size when it began
  log, changes
readVars == <<shape, python, cell, frame, copy, step, at, size, log, changes>>

----------------------------------------------------------------------------
(* The field, as its rules were compiled. *)

TracksPresence(s) == s.kind \in {"oneof", "message", "tracked"}
\* Mutant: a member of a message oneof is a field like any other.
IgnoreMember(s) == s.ignore
Ignore(s) == IF s.ignore = "none" /\ s.member THEN "if_zero" ELSE s.ignore
IgnoreEmpty(s) == Ignore(s) = "if_zero" \/ TracksPresence(s)
Validates(s) == Ignore(s) # "always"

\* CEL gets a scalar as it was fetched, anything else from the frame.
FromFrame(s) == s.kind \in {"message", "list", "map"}

----------------------------------------------------------------------------
(* The message.  A dict is its table of entries: one that is deleted leaves *)
(* a hole, a new one goes to the end.                                      *)

Entries(table) == {i \in DOMAIN table : table[i] # Hole}
DictSize(table) == Cardinality(Entries(table))
KeysOf(table) == {table[i][1] : i \in Entries(table)}
Length(s, value) == IF s.kind = "map" THEN DictSize(value) ELSE Len(value)

\* A scalar that is not set reads as zero, and serializes as nothing.
ReadsAs(p) == IF p.set THEN p.value ELSE Zero

\* FieldInfo::fetch: protobuf-py has no object for an unset oneof member or message.
Fetched ==
  IF shape.kind \in {"oneof", "message"} /\ shape.runtime = "protobuf-py" /\ ~python.set THEN Nil
  ELSE IF FromFrame(shape) THEN Ref ELSE ReadsAs(python)
Got == IF cell = Unread THEN Fetched ELSE cell

\* The value the native checks of a singular field read: the message that was
\* fetched is read as it is now.
NativeValue ==
  IF cell = Nil THEN Zero ELSE IF cell = Ref THEN python.value ELSE cell

\* is_set of runtime.rs and of eval.rs: from the value fetched, or anew; a
\* value that serializes is set, although it may equal zero.
\* Mutant: presence is always asked of the message.
IsSetNow ==
  IF TracksPresence(shape) THEN python.set
  ELSE IF shape.kind = "implicit" THEN cell # Zero ELSE Length(shape, python.value) > 0
IsSet ==
  CASE shape.kind \in {"oneof", "message"} /\ shape.runtime = "protobuf-py" -> cell # Nil
    [] TracksPresence(shape) /\ (shape.runtime = "google" \/ shape.kind = "tracked") -> python.set
    [] shape.kind = "implicit" -> cell # Zero
    [] OTHER -> Length(shape, python.value) > 0

Encoded == IF shape.kind \in {"list", "map"} THEN python.value ELSE ReadsAs(python)

----------------------------------------------------------------------------
Judge(what, value) == Append(log, [what |-> what, value |-> value])
Goto(s) == step' = s

Values(s) ==
  CASE s.kind = "list" -> UNION {[1..n -> Contents] : n \in 0..MaxLength}
    [] s.kind = "map" ->
         {t \in UNION {[1..n -> Keys \X Contents] : n \in 0..MaxLength} :
            Cardinality(KeysOf(t)) = Len(t)}
    [] OTHER -> Contents

ReadsInit ==
  /\ shape \in Shapes
  /\ python \in [set : IF TracksPresence(shape) THEN BOOLEAN ELSE {TRUE}, value : Values(shape)]
  /\ cell = Unread /\ frame = Unparsed /\ copy = Unread
  /\ step = "build" /\ at = 0 /\ size = 0 /\ log = <<>> /\ changes = 0

BuildField ==
  /\ step = "build" /\ Goto(IF Validates(shape) THEN "earlier" ELSE "done")
  /\ UNCHANGED <<shape, python, cell, frame, copy, at, size, log, changes>>

\* Oneof rules ask whether the field is set, and another field's rules have the
\* message serialized, before the field's turn.
Earlier ==
  /\ step = "earlier" /\ Goto("get")
  /\ \E asked, parsed \in BOOLEAN :
       /\ cell' = IF asked /\ (shape.runtime = "protobuf-py" \/ ~TracksPresence(shape))
                     /\ shape.kind # "tracked"
                  THEN Fetched ELSE cell
       /\ frame' = IF parsed THEN Encoded ELSE frame
  /\ UNCHANGED <<shape, python, copy, at, size, log, changes>>

GetField ==
  /\ step = "get" /\ Goto("has") /\ cell' = Got
  /\ UNCHANGED <<shape, python, frame, copy, at, size, log, changes>>

HasField ==
  /\ step = "has"
  /\ \/ IsSet /\ Goto("custom") /\ UNCHANGED log
     \/ ~IsSet /\ shape.required /\ Goto("done") /\ log' = Judge("required", Nil)
     \/ ~IsSet /\ ~shape.required /\ IgnoreEmpty(shape) /\ Goto("done") /\ UNCHANGED log
     \/ ~IsSet /\ ~shape.required /\ ~IgnoreEmpty(shape) /\ Goto("custom") /\ UNCHANGED log
  /\ UNCHANGED <<shape, python, cell, frame, copy, at, size, changes>>

\* A program's `this'; the message is serialized when a rule first needs it.
\* Mutant: the message is serialized for each rule.
ParsedAnew == IF FromFrame(shape) THEN Encoded ELSE frame
Parsed == IF FromFrame(shape) /\ frame = Unparsed THEN Encoded ELSE frame
This == IF FromFrame(shape) THEN Parsed ELSE NativeValue
RunPrograms(from, what, to) ==
  /\ step = from /\ Goto(to)
  /\ frame' = Parsed /\ log' = Judge(what, This)
  /\ UNCHANGED <<shape, python, cell, copy, at, size, changes>>
RunCustom == RunPrograms("custom", "custom", "native")
RunPredefined == RunPrograms("predefined", "predefined",
  IF shape.items = "none" THEN "done" ELSE IF shape.kind = "map" THEN "dict" ELSE "list")

\* A list's length is that of the copy, once there is one.
ListLen == IF copy = Unread THEN Len(python.value) ELSE Len(copy)

\* The checks of a container go by its length; `unique' also reads the items
\* up to there, from a copy made with the first of them.
RunNative ==
  /\ step = "native"
  /\ IF shape.kind \notin {"list", "map"}
     THEN log' = Judge("native", NativeValue) /\ Goto("predefined") /\ UNCHANGED size
     ELSE /\ size' = IF shape.kind = "map" THEN DictSize(python.value) ELSE ListLen
          /\ log' = Judge("native", size')
          /\ Goto(IF shape.kind = "list" /\ size' > 0 THEN "unique" ELSE "predefined")
  /\ UNCHANGED <<shape, python, cell, frame, copy, at, changes>>

\* Mutant: the items are read from the list each time.
CopiedAnew == python.value
Copied == IF copy = Unread THEN python.value ELSE copy
Upto(n, items) == SubSeq(items, 1, IF n < Len(items) THEN n ELSE Len(items))
RunUnique ==
  /\ step = "unique" /\ Goto("predefined")
  /\ copy' = Copied /\ log' = Judge("unique", Upto(size, Copied))
  /\ UNCHANGED <<shape, python, cell, frame, at, size, changes>>

\* validate_list: the length, then the items one by one; one that the copy does
\* not have is passed over.
BeginList ==
  /\ step = "list" /\ size' = ListLen /\ at' = 1 /\ Goto("item")
  /\ UNCHANGED <<shape, python, cell, frame, copy, log, changes>>

\* Mutant: compared by its bits, as is_set does.
SkippedByBits(value) == shape.items = "if_zero" /\ value = Zero
Skipped(value) == shape.items = "if_zero" /\ EqualsZero(value)
VisitItem ==
  /\ step = "item"
  /\ IF at > size THEN Goto("done") /\ UNCHANGED <<copy, log, at>>
     ELSE /\ copy' = Copied /\ at' = at + 1 /\ UNCHANGED step
          /\ log' = IF at > Len(Copied) \/ Skipped(Copied[at]) THEN log
                    ELSE Judge("item", <<at, Copied[at]>>)
  /\ UNCHANGED <<shape, python, cell, frame, size, changes>>

\* validate_map, over the live dict: iteration ends with an error (a panic for
\* protobuf-py) at the next step after the size changed.
BeginMap ==
  /\ step = "dict" /\ size' = DictSize(python.value) /\ at' = 1 /\ Goto("entry")
  /\ UNCHANGED <<shape, python, cell, frame, copy, log, changes>>

Left == {i \in Entries(python.value) : i >= at}

\* Mutant: the size is compared before the first entry only.
VisitEntryUnchecked ==
  /\ step = "entry"
  /\ \/ /\ at = 1 /\ DictSize(python.value) # size /\ UNCHANGED <<log, at>>
        /\ Goto(IF shape.runtime = "protobuf-py" THEN "panic" ELSE "error")
     \/ Left = {} /\ Goto("done") /\ UNCHANGED <<log, at>>
     \/ /\ Left # {} /\ UNCHANGED step
        /\ LET next == CHOOSE i \in Left : \A j \in Left : i <= j
           IN /\ at' = next + 1
              /\ log' = IF Skipped(python.value[next][2]) THEN log
                        ELSE Judge("entry", python.value[next])
  /\ UNCHANGED <<shape, python, cell, frame, copy, size, changes>>

VisitEntry ==
  /\ step = "entry"
  /\ \/ /\ DictSize(python.value) # size /\ UNCHANGED <<log, at>>
        /\ Goto(IF shape.runtime = "protobuf-py" THEN "panic" ELSE "error")
     \/ DictSize(python.value) = size /\ Left = {} /\ Goto("done") /\ UNCHANGED <<log, at>>
     \/ /\ DictSize(python.value) = size /\ Left # {} /\ UNCHANGED step
        /\ LET next == CHOOSE i \in Left : \A j \in Left : i <= j
           IN /\ at' = next + 1
              /\ log' = IF Skipped(python.value[next][2]) THEN log
                        ELSE Judge("entry", python.value[next])
  /\ UNCHANGED <<shape, python, cell, frame, copy, size, changes>>

\* Any read of the message may raise.
ReadFails ==
  /\ step \in {"earlier", "get", "has", "custom", "native", "unique", "predefined", "list", "item"}
  /\ Goto("error")
  /\ UNCHANGED <<shape, python, cell, frame, copy, at, size, log, changes>>

----------------------------------------------------------------------------
(* The message changes: the field is set or cleared, a list or dict grows or *)
(* shrinks, or an element of it is replaced.                                *)

Changed(value) ==
  CASE shape.kind = "list" ->
         {Append(value, x) : x \in Contents} \cup {Front(value) : dummy \in {1} \cap DOMAIN value}
         \cup {[value EXCEPT ![i] = x] : i \in DOMAIN value, x \in Contents}
    [] shape.kind = "map" ->
         {Append(value, <<k, x>>) : k \in Keys \ KeysOf(value), x \in Contents}
         \cup {[value EXCEPT ![i] = Hole] : i \in Entries(value)}
         \cup {[value EXCEPT ![i][2] = x] : i \in Entries(value), x \in Contents}
    [] OTHER -> Contents

Change ==
  /\ step \notin {"build", "done", "error", "panic"}
  /\ changes < MaxChanges /\ changes' = changes + 1
  /\ \E value \in Changed(python.value), set \in BOOLEAN :
       /\ shape.kind \in {"list", "map"} => Len(value) <= MaxLength + 1
       /\ set = TRUE \/ TracksPresence(shape)
       /\ python' = [set |-> set, value |-> value] /\ python' # python
  /\ UNCHANGED <<shape, cell, frame, copy, step, at, size, log>>

ReadStep ==
  \/ BuildField \/ Earlier \/ GetField \/ HasField
  \/ RunCustom \/ RunNative \/ RunUnique \/ RunPredefined
  \/ BeginList \/ VisitItem \/ BeginMap \/ VisitEntry
ReadsNext == ReadStep \/ ReadFails \/ Change
ReadsSpec == ReadsInit /\ [][ReadsNext]_readVars

----------------------------------------------------------------------------
Judged(what) == {i \in DOMAIN log : log[i].what = what}
Ordinal(i, indices) == Cardinality({j \in indices : j <= i})

\* validate.proto on `ignore' and `required': rules are ignored if the field
\* tracks presence and is unset; with IGNORE_IF_ZERO_VALUE, which a message
\* oneof gives its members, if it is unset or zero; always with IGNORE_ALWAYS,
\* `required' included.  A field that does not track presence is unset if it is
\* not serialized, and all but Zero is; an element is zero if it equals zero.
UnsetOrZero(s, p) ==
  IF TracksPresence(s) THEN ~p.set
  ELSE IF s.kind = "implicit" THEN p.value = Zero ELSE Length(s, p.value) = 0
Held(s, p) == IF s.kind \in {"list", "map"} THEN p.value ELSE ReadsAs(p)
Counted(s, p) == IF s.kind \in {"list", "map"} THEN Length(s, p.value) ELSE ReadsAs(p)
Rule(what, value) == [what |-> what, value |-> value]
Ignored(s, p) ==
  \/ s.ignore = "always"
  \/ UnsetOrZero(s, p) /\ ~s.required
     /\ (TracksPresence(s) \/ s.ignore = "if_zero" \/ (s.member /\ s.ignore = "none"))
Missing(s, p) == s.ignore # "always" /\ UnsetOrZero(s, p) /\ s.required

\* What is judged of the field itself, and then, one by one and in order, of
\* the items or entries that are due.
OfField(s, p) ==
  IF Ignored(s, p) THEN <<>>
  ELSE IF Missing(s, p) THEN <<Rule("required", Nil)>>
  ELSE IF s.kind = "list" /\ Counted(s, p) > 0
  THEN <<Rule("custom", p.value), Rule("native", Counted(s, p)), Rule("unique", p.value),
         Rule("predefined", p.value)>>
  ELSE <<Rule("custom", Held(s, p)), Rule("native", Counted(s, p)),
         Rule("predefined", Held(s, p))>>
OfElement(s, p, i) ==
  IF s.kind = "list" THEN Rule("item", <<i, p.value[i]>>) ELSE Rule("entry", p.value[i])
IsZero(s, element) ==
  (IF s.kind = "list" THEN element ELSE element[2]) \in {Zero, NegativeZero}
Due(s, p) ==
  IF Ignored(s, p) \/ Missing(s, p) \/ s.items = "none" THEN {}
  ELSE {i \in DOMAIN p.value : ~(s.items = "if_zero" /\ IsZero(s, p.value[i]))}

\* A message that nothing changes meanwhile is judged as validate.proto says:
\* the rules that apply, in order, on its value.
QuietIsSequential ==
  changes = 0 /\ step = "done" =>
    LET first == OfField(shape, python)
        due == Due(shape, python)
    IN /\ Len(log) = Len(first) + Cardinality(due)
       /\ \A i \in DOMAIN first : log[i] = first[i]
       /\ \A i \in due : log[Len(first) + Ordinal(i, due)] = OfElement(shape, python, i)

\* The custom and the predefined rules of a field see one value, whatever
\* changes between them, although native checks that read the message anew run
\* in between.
RulesSeeOneValue ==
  \A i \in Judged("custom"), j \in Judged("predefined") : log[i].value = log[j].value

\* A list's items are the first items of one copy, each visited once and in
\* order, and the ones `unique' compared, although the length was read before
\* the copy was made; none is left out before the last.
ItemsOnce ==
  /\ \A i \in Judged("item") :
       LET v == log[i].value
       IN /\ copy # Unread /\ v[1] \in DOMAIN copy /\ v[2] = copy[v[1]]
          /\ \A j \in Judged("item") : j < i => log[j].value[1] < v[1]
          /\ \A j \in Judged("unique") : v[1] \in DOMAIN log[j].value
                                         => log[j].value[v[1]] = v[2]
  /\ shape.items = "unspecified" =>
       \A i \in Judged("item") : log[i].value[1] = Ordinal(i, Judged("item"))

\* A change that adds or removes an entry of a map is not passed over: if one
\* change was made, and the map was judged to the end all the same, every entry
\* that is in it now was judged, once, and none that is not.  (Two changes may
\* keep the size, and entries may be left out then.)
OneChangeNoticed ==
  /\ step = "done" /\ changes <= 1
  /\ shape.kind = "map" /\ shape.items = "unspecified" /\ Judged("predefined") # {}
  => /\ {log[i].value[1] : i \in Judged("entry")} = KeysOf(python.value)
     /\ \A i, j \in Judged("entry") : log[i].value[1] = log[j].value[1] => i = j

\* For protobuf-py, a oneof member or message field is taken as set exactly if
\* the value it is judged on was: a field that another thread sets or clears
\* meanwhile is validated as of one instant.
SetIfRead ==
  shape.runtime = "protobuf-py" /\ shape.kind \in {"oneof", "message"} =>
    /\ cell = Nil => Judged("native") = {}
    /\ cell \notin {Nil, Unread} => Judged("required") = {}
=============================================================================
