-------------------------- MODULE MCViolationValues --------------------------
(* A small instance of ViolationValues.                                    *)
EXTENDS ViolationValues, TLC
CONSTANTS root, b1, b2, e1, s1, s2, z, k1, k2, r1, r2

Plain(custom, checks) == [custom |-> custom, checks |-> checks, predefined |-> <<>>]
Nothing == Plain(<<>>, <<>>)
Items(value) == [ignoreEmpty |-> FALSE, value |-> value]
Rules(f, kind, value) ==
  [field |-> f, broken |-> FALSE, required |-> FALSE, ignoreEmpty |-> kind = "message",
   value |-> value, kind |-> kind, items |-> NoItem, keys |-> NoItem, values |-> NoItem]

\* A: a CEL rule of its own; a scalar, with a rule that is an extension; a list of B; a map of B with rules on
\* its keys; a required B with a CEL rule.  B: a CEL rule, a list of scalars
\* and a map of scalars with a rule on their keys.
MCCompiled ==
  ("A" :> [cel |-> <<"a.cel">>, oneofs |-> <<>>, required |-> <<>>, fields |-> <<
     Rules("name", "scalar",
           [Plain(<<>>, <<"name.min">>) EXCEPT !.predefined = <<"name.ext">>]),
     [Rules("kids", "list", Nothing) EXCEPT !.items = Items(Nothing)],
     [Rules("dict", "map", Nothing)
        EXCEPT !.keys = Items(Plain(<<>>, <<"dict.key">>)), !.values = Items(Nothing)],
     [Rules("one", "message", Plain(<<"one.cel">>, <<>>)) EXCEPT !.required = TRUE]>>]) @@
  ("B" :> [cel |-> <<"b.cel">>, oneofs |-> <<>>, required |-> <<>>, fields |-> <<
     [Rules("tags", "list", Nothing) EXCEPT !.items = Items(Plain(<<"tag.cel">>, <<>>))],
     [Rules("map", "map", Nothing) EXCEPT !.keys = Items(Plain(<<>>, <<"map.key">>))]>>])
MCTypeOf == (root :> "A") @@ (b1 :> "B") @@ (b2 :> "B") @@ (e1 :> "B")

\* Where the rules are written; a list's and a map's are typed rules.
Typed(r) == [number |-> 14, name |-> "typed", index |-> r]
MCRulePath ==
  ("a.cel" :> NoSub) @@ ("b.cel" :> NoSub) @@
  ("required" :> [number |-> 25, name |-> "required", index |-> NoSub]) @@
  ("one.cel" :> [number |-> 23, name |-> "cel", index |-> 1]) @@
  [r \in {"name.min", "name.ext", "dict.key", "tag.cel", "map.key"} |-> Typed(r)]
Options(set) == [type |-> "FieldRules", set |-> set]
TypedOptions(r) == Options([typed |-> r :> r])
MCFieldOptions ==
  [A |-> [name |-> TypedOptions("name.min"), kids |-> NoValue,
          dict |-> TypedOptions("dict.key"),
          one |-> Options([cel |-> <<"one.cel">>, required |-> "required"])],
   B |-> [tags |-> TypedOptions("tag.cel"), map |-> TypedOptions("map.key")]]
MCMessageOptions ==
  [A |-> [type |-> "MessageRules", set |-> [cel |-> <<"a.cel">>]],
   B |-> [type |-> "MessageRules", set |-> [cel |-> <<"b.cel">>]]]
MCFieldType ==
  [A |-> [f \in {"kids", "dict", "one"} |-> "B"], B |-> <<>>]
MCDefault == [name |-> z, one |-> e1, dict |-> e1, map |-> z]

Entries(k, x) == [key |-> k, value |-> x]
A(name, kids, dict, one) == [name |-> name, kids |-> kids, dict |-> dict, one |-> one]
B(tags, map) == [tags |-> tags, map |-> map]
With(top, first, second) ==
  (root :> top) @@ (b1 :> first) @@ (b2 :> second) @@ (e1 :> B(<<>>, <<>>))
MCMessages == {
  With(A(s1, <<b1>>, <<Entries(k1, b2)>>, NoValue),
       B(<<s1, s2>>, <<>>), B(<<>>, <<Entries(k2, s1)>>)),
  With(A(z, <<b2>>, <<>>, b1),
       B(<<s2>>, <<Entries(k1, s1), Entries(k2, s2)>>), B(<<>>, <<Entries(k1, s2)>>))}
MCChecks == {
  <<"a.cel", root>>, <<"name.min", s1>>, <<"name.ext", s1>>, <<"one.cel", b1>>, <<"b.cel", b1>>,
  <<"b.cel", b2>>, <<"tag.cel", s2>>, <<"dict.key", k1>>, <<"map.key", k1>>,
  <<"map.key", k2>>}

\* Fields that are cleared, set, or lose an item or an entry.
MCChanges == {
  <<root, "one", NoValue>>, <<root, "one", b1>>, <<root, "kids", <<>>>>,
  <<root, "dict", <<>>>>, <<b1, "tags", <<s1>>>>, <<b2, "map", <<>>>>}
=============================================================================
