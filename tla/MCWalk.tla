------------------------------- MODULE MCWalk -------------------------------
(* A small instance of WalkReport.                                         *)
EXTENDS WalkReport, TLC
CONSTANTS root, b1, b2, c, s1, s2, z, nz, k1, k2, e1, h

Plain(custom, checks, predefined) ==
  [custom |-> custom, checks |-> checks, predefined |-> predefined]
Items(ignoreEmpty, value) == [ignoreEmpty |-> ignoreEmpty, value |-> value]
Rules(f, kind, value) ==
  [field |-> f, broken |-> FALSE, required |-> FALSE, ignoreEmpty |-> kind = "message",
   value |-> value, kind |-> kind, items |-> NoItem, keys |-> NoItem, values |-> NoItem]
Nothing == Plain(<<>>, <<>>, <<>>)

\* A: a scalar with CEL, native and predefined rules; a list of B; a map of
\* B with rules on its keys; a B with a CEL rule, and a C.
\* B: a rule of its own, a oneof rule, a list of scalars that ignores empty
\* items, and a map.  C: a required oneof, a required field and one whose
\* rules do not compile.
MCCompiled ==
  ("A" :> [cel |-> <<>>, oneofs |-> <<>>, required |-> <<>>, fields |-> <<
     Rules("name", "scalar", Plain(<<"name.cel">>, <<"name.min">>, <<"name.ext">>)),
     [Rules("kids", "list", Nothing) EXCEPT !.items = Items(FALSE, Nothing)],
     [Rules("dict", "map", Plain(<<>>, <<"dict.min">>, <<>>))
        EXCEPT !.keys = Items(TRUE, Plain(<<>>, <<"dict.key">>, <<>>)),
               !.values = Items(TRUE, Nothing)],
     Rules("one", "message", Plain(<<"one.cel">>, <<>>, <<>>)),
     Rules("last", "message", Nothing)>>]) @@
  ("B" :> [cel |-> <<"b.cel">>, required |-> <<>>,
     oneofs |-> <<[fields |-> <<"tags", "map">>, required |-> TRUE]>>, fields |-> <<
     [Rules("tags", "list", Nothing)
        EXCEPT !.items = Items(TRUE, Plain(<<"tag.cel">>, <<>>, <<>>))],
     [Rules("map", "map", Nothing)
        EXCEPT !.values = Items(FALSE, Plain(<<>>, <<"map.value">>, <<>>))]>>]) @@
  ("C" :> [cel |-> <<>>, oneofs |-> <<>>,
     required |-> <<[name |-> "choice", members |-> {"left", "right"}]>>, fields |-> <<
     [Rules("must", "scalar", Plain(<<>>, <<"must.min">>, <<>>))
        EXCEPT !.required = TRUE],
     [Rules("bad", "scalar", Nothing) EXCEPT !.broken = TRUE]>>])
MCTypeOf == (root :> "A") @@ (b1 :> "B") @@ (b2 :> "B") @@ (c :> "C") @@ (e1 :> "B")

Entries(k, x) == [key |-> k, value |-> x]
B(tags, map) == [tags |-> tags, map |-> map]
C(left, must) == [left |-> left, right |-> NoValue, must |-> must, bad |-> NoValue]
A(name, kids, dict, one, last) ==
  [name |-> name, kids |-> kids, dict |-> dict, one |-> one, last |-> last]
Two(top, first, second, third) ==
  (root :> top) @@ (b1 :> first) @@ (b2 :> second) @@ (c :> third)
  @@ (e1 :> B(<<>>, <<>>))
MCMessages == {
  \* Items and nested entries, an empty key, an empty item.
  Two(A(s1, <<b1>>, <<Entries(z, e1), Entries(k1, b2)>>, NoValue, NoValue),
      B(<<z, s2>>, <<>>), B(<<>>, <<Entries(k2, s1), Entries(k1, s2)>>), C(NoValue, NoValue)),
  \* Messages in fields, an unset scalar and rules that do not compile.
  Two(A(NoValue, <<>>, <<>>, b1, c),
      B(<<s1>>, <<Entries(k1, s2)>>), B(<<>>, <<>>), C(h, s1)),
  Two(A(nz, <<b1, b2>>, <<>>, NoValue, c),
      B(<<>>, <<>>), B(<<s1, nz, s2>>, <<>>), C(NoValue, NoValue))}
MCChecks == {
  <<"name.cel", s1>>, <<"name.min", s1>>, <<"name.ext", NoValue>>, <<"name.min", nz>>,
  <<"dict.min", <<>>>>, <<"dict.key", z>>, <<"dict.key", k1>>, <<"one.cel", b1>>,
  <<"b.cel", b1>>, <<"b.cel", b2>>, <<"tag.cel", s1>>, <<"tag.cel", s2>>, <<"tag.cel", z>>,
  <<"map.value", s1>>, <<"map.value", s2>>, <<"must.min", s1>>}
=============================================================================
