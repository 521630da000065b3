----------------------------- MODULE WalkReport -----------------------------
(***************************************************************************)
(* What a validation ought to report, said of the message and its rules    *)
(* and not of the walk: the violations of a message are its own, then      *)
(* those of its fields, each under the field's path element; those of a    *)
(* list are those of its items, under the item's index; and so on.  The    *)
(* walk, with its one mutable path, its flag and its late subscripts, must *)
(* record exactly that.                                                    *)
(***************************************************************************)
EXTENDS Walk, SequencesExt

Violation(rule, key) == [path |-> <<>>, rule |-> rule, key |-> key]

\* The findings of a part of the message, seen from path p.
Below(p, findings) ==
  [i \in DOMAIN findings |-> [findings[i] EXCEPT !.path = p \o @]]
Under(f, sub, findings) == Below(<<Element(f, sub)>>, findings)

If(test, findings) == IF test THEN findings ELSE <<>>
OfRule(r, x, key) == If(<<r, x>> \in fails, <<Violation(r, key)>>)

-----------------------------------------------------------------------------
(* The findings of each part, in order; found[x] has those of a message x  *)
(* inside, seen from x itself.                                             *)

ValueParts(found, v, x, key) ==
  LET rules == v.custom \o v.checks \o v.predefined
  IN [i \in DOMAIN rules |-> OfRule(rules[i], x, key)] \o If(x \in Nodes, <<found[x]>>)
OfValue(found, v, x, key) == FlattenSeq(ValueParts(found, v, x, key))

OfPart(found, item, x, key) ==
  If(item # NoItem /\ ~Skipped(item, x), OfValue(found, item.value, x, key))

OfItem(found, v, x, i) == Under(v.field, i - 1, OfPart(found, v.items, x[i], FALSE))
OfEntry(found, v, e) ==
  Under(v.field, e.key, OfPart(found, v.keys, e.key, TRUE)
                        \o OfPart(found, v.values, e.value, FALSE))
OfContents(found, v, x) ==
  CASE v.kind = "list" /\ v.items # NoItem ->
         FlattenSeq([i \in DOMAIN x |-> OfItem(found, v, x, i)])
    [] v.kind = "map" -> FlattenSeq([i \in DOMAIN x |-> OfEntry(found, v, x[i])])
    [] OTHER -> <<>>

\* "broken" stands where the rules of a field end the walk.
OfField(found, n, v) ==
  LET x == content[n][v.field]
      set == IsSet(n, v.field)
  IN CASE v.broken -> <<Violation("broken", FALSE)>>
       [] ~v.broken /\ ~set /\ v.required ->
            Under(v.field, NoSub, <<Violation("required", FALSE)>>)
       [] ~v.broken /\ ~set /\ ~v.required /\ v.ignoreEmpty -> <<>>
       [] OTHER -> Under(v.field, NoSub, OfValue(found, v.value, x, FALSE))
                   \o If(x # NoValue, OfContents(found, v, x))

OfOneof(n, o) ==
  LET set == {i \in DOMAIN o.fields : IsSet(n, o.fields[i])}
  IN If(Cardinality(set) > 1 \/ (o.required /\ set = {}),
        <<Violation("message.oneof", FALSE)>>)
OfRequired(n, o) ==
  If(\A f \in o.members : ~IsSet(n, f),
     Under(o.name, NoSub, <<Violation("required", FALSE)>>))

MessageParts(found, n) ==
  LET r == Compiled[TypeOf[n]]
  IN [i \in DOMAIN r.cel |-> OfRule(r.cel[i], n, FALSE)]
     \o [i \in DOMAIN r.oneofs |-> OfOneof(n, r.oneofs[i])]
     \o [i \in DOMAIN r.required |-> OfRequired(n, r.required[i])]
     \o [i \in DOMAIN r.fields |-> OfField(found, n, r.fields[i])]
OfMessage(found, n) == FlattenSeq(MessageParts(found, n))

Report == LET found[n \in Nodes] == OfMessage(found, n) IN found[Root]

\* What a field's value holds: a list or a map holds what its items, keys and
\* values are.
Held(v, x) ==
  {x} \cup (IF x = NoValue THEN {}
            ELSE CASE v.kind = "list" -> {x[i] : i \in DOMAIN x}
                   [] v.kind = "map" -> {x[i].key : i \in DOMAIN x}
                                    \cup {x[i].value : i \in DOMAIN x}
                   [] OTHER -> {})
\* A message is not inside itself: there is an order in which whatever is
\* inside comes before.
ASSUME InsideAssumption ==
  /\ IsFiniteSet(Nodes)
  /\ \A c \in Messages : \E depth \in [Nodes -> 0..Cardinality(Nodes)] :
       \A n \in Nodes : \A i \in DOMAIN Compiled[TypeOf[n]].fields :
         LET v == Compiled[TypeOf[n]].fields[i] IN
           \A x \in Held(v, c[n][v.field]) \cap Nodes : depth[x] < depth[n]
\* The value of a list field is its items; a key is no message.
ASSUME ListsAssumption ==
  \A c \in Messages, n \in Nodes : \A i \in DOMAIN Compiled[TypeOf[n]].fields :
    LET v == Compiled[TypeOf[n]].fields[i] IN
      v.kind = "list" => c[n][v.field] = NoValue \/ IsSeq(c[n][v.field])
ASSUME KeysAssumption == Keys \cap Nodes = {}

-----------------------------------------------------------------------------
\* Outside a map entry, what has been recorded so far is how the report
\* begins: nothing is missing, out of order, at a wrong path, without its
\* subscript or wrongly about a key.
InOrder ==
  (\A i \in DOMAIN todo : todo[i].op # "subscript") => IsPrefix(list, Report)

\* A walk that is not aborted reports all there is; one that fails fast
\* reports the first of the same report.
ReportsAll ==
  Done =>
    /\ abort = "none" => list = Report
    /\ abort = "fail_fast" => list = <<Report[1]>>

\* What a comment of the walk says of CEL: "A message value is bound to
\* `this`, and validated, through a frame of its own".
BoundThroughOwnFrame ==
  \A i \in DOMAIN todo :
    LET s == todo[i] IN
      s.op = "value" /\ s.rules.custom # <<>> /\ s.value \in Nodes => s.frame = s.value
=============================================================================
