-------------------------- MODULE CompilerProofs --------------------------
(***************************************************************************)
(* Proofs about the two halves of rules/build.rs, for any message types.   *)
(*                                                                         *)
(* Closure: what the search finds, and that what resolve returns has every *)
(* type the builder will look up.  The search is a worklist, so its        *)
(* invariant is about the types found and those still on the stack, Known  *)
(* together.                                                               *)
(*                                                                         *)
(* FieldCompiler: a compiled message has a result for every field that has *)
(* rules, with a validator of each part that needs one or with an error of *)
(* a part with a fault.  Places wait in a sequence while others are        *)
(* compiled, and rule fields are taken from the options as native checks   *)
(* are made; so the invariant follows, for each part of the field's        *)
(* options, whether its place waits, is under way or is done, and what its *)
(* options said before anything was taken from them.                       *)
(***************************************************************************)
EXTENDS Closure, FieldCompiler, SequenceTheorems, FiniteSetTheorems, TLAPS

----------------------------------------------------------------------------
(* The types a message needs found and resolved. *)

Known == Compiled \cup found \cup ToSet(toVisit)

\* Nothing a found type refers to is forgotten.
Covered ==
  /\ root \in Known
  /\ found \cap Compiled = {}
  /\ \A m \in found : Refers(m) \subseteq Known

\* Nothing is found, or put on the stack, but what must be.
Needed ==
  \A S \in SUBSET MessageTypes :
    ClosedSet(S) => found \subseteq S /\ ToSet(toVisit) \subseteq S

\* The search is over when the types are resolved.
Searched == closing \in {"resolve", "done"} => toVisit = <<>>

ClosureInv == ClosureTypeOK /\ Covered /\ Needed /\ Searched

----------------------------------------------------------------------------
\* Taking the last type from the stack leaves the others.
LEMMA StackPopped ==
  ASSUME NEW s \in Seq(MessageTypes), s # <<>>
  PROVE  /\ Last(s) \in MessageTypes /\ Front(s) \in Seq(MessageTypes)
         /\ ToSet(s) = ToSet(Front(s)) \cup {Last(s)}
<1> DEFINE n == Len(s)
<1>1. n \in Nat /\ n > 0 /\ DOMAIN s = 1..n
  BY EmptySeq, LenProperties
<1>2. Last(s) = s[n] /\ n \in DOMAIN s
  BY <1>1 DEF Last
<1>3. \A i \in DOMAIN s : s[i] \in MessageTypes
  BY <1>1, ElementOfSeq
<1>4. Front(s) = [i \in 1..(n - 1) |-> s[i]]
  BY <1>1 DEF Front, SubSeq
<1>5. Front(s) \in Seq(MessageTypes) /\ DOMAIN Front(s) = 1..(n - 1)
  BY <1>1, <1>3, <1>4, SeqDef
<1>6. ToSet(s) \subseteq ToSet(Front(s)) \cup {Last(s)}
  <2>1. SUFFICES ASSUME NEW i \in DOMAIN s PROVE s[i] \in ToSet(Front(s)) \cup {s[n]}
    BY <1>2 DEF ToSet
  <2>2. CASE i = n
    BY <2>2
  <2>3. CASE i # n
    <3>1. i \in 1..(n - 1)
      BY <1>1, <2>3
    <3>2. Front(s)[i] = s[i] /\ i \in DOMAIN Front(s)
      BY <3>1, <1>4, <1>5
    <3>3. QED
      BY <3>2 DEF ToSet
  <2>4. QED
    BY <2>2, <2>3
<1>7. ToSet(Front(s)) \cup {Last(s)} \subseteq ToSet(s)
  <2>1. s[n] \in ToSet(s)
    BY <1>2 DEF ToSet
  <2>2. ASSUME NEW i \in 1..(n - 1) PROVE Front(s)[i] \in ToSet(s)
    BY <1>1, <1>4 DEF ToSet
  <2>3. QED
    BY <1>2, <1>5, <2>1, <2>2 DEF ToSet
<1>8. QED
  BY <1>2, <1>3, <1>5, <1>6, <1>7

\* Pushing a type's references adds them to the stack.
LEMMA StackPushed ==
  ASSUME NEW s \in Seq(MessageTypes), NEW t \in Seq(MessageTypes)
  PROVE  s \o t \in Seq(MessageTypes) /\ ToSet(s \o t) = ToSet(s) \cup ToSet(t)
<1>1. /\ s \o t \in Seq(MessageTypes) /\ Len(s \o t) = Len(s) + Len(t)
      /\ \A i \in 1..(Len(s) + Len(t)) :
           (s \o t)[i] = IF i <= Len(s) THEN s[i] ELSE t[i - Len(s)]
  BY ConcatProperties
<1>2. /\ DOMAIN s = 1..Len(s) /\ DOMAIN t = 1..Len(t)
      /\ DOMAIN (s \o t) = 1..(Len(s) + Len(t)) /\ Len(s) \in Nat /\ Len(t) \in Nat
  BY <1>1, LenProperties
<1>3. ASSUME NEW i \in DOMAIN (s \o t) PROVE (s \o t)[i] \in ToSet(s) \cup ToSet(t)
  <2>1. CASE i <= Len(s)
    <3>1. i \in DOMAIN s /\ (s \o t)[i] = s[i]
      BY <1>1, <1>2, <2>1
    <3>2. QED
      BY <3>1 DEF ToSet
  <2>2. CASE i > Len(s)
    <3>1. i - Len(s) \in DOMAIN t /\ (s \o t)[i] = t[i - Len(s)]
      BY <1>1, <1>2, <2>2
    <3>2. QED
      BY <3>1 DEF ToSet
  <2>3. QED
    BY <1>2, <2>1, <2>2
<1>4. ASSUME NEW i \in DOMAIN s PROVE s[i] \in ToSet(s \o t)
  <2>1. i \in DOMAIN (s \o t) /\ (s \o t)[i] = s[i]
    BY <1>1, <1>2
  <2>2. QED
    BY <2>1 DEF ToSet
<1>5. ASSUME NEW i \in DOMAIN t PROVE t[i] \in ToSet(s \o t)
  <2>1. i + Len(s) \in DOMAIN (s \o t) /\ (s \o t)[i + Len(s)] = t[i]
    BY <1>1, <1>2
  <2>2. QED
    BY <2>1 DEF ToSet
<1>6. QED
  BY <1>1, <1>3, <1>4, <1>5 DEF ToSet

----------------------------------------------------------------------------
\* The search begins with the root on the stack.
LEMMA ClosureInitInv == ClosureInit => ClosureInv
<1> SUFFICES ASSUME ClosureInit PROVE ClosureInv
  OBVIOUS
<1> USE DEF ClosureInit
<1>1. toVisit = <<root>> /\ root \in MessageTypes
  OBVIOUS
<1>2. toVisit \in Seq(MessageTypes) /\ ToSet(toVisit) = {root}
  BY <1>1 DEF ToSet
<1>3. ClosureTypeOK
  BY <1>2, PoolsAssumption DEF ClosureTypeOK
<1>4. Covered
  BY <1>2 DEF Covered, Known
<1>5. Needed
  BY <1>2 DEF Needed, ClosedSet
<1>6. Searched
  BY DEF Searched
<1>7. QED
  BY <1>3, <1>4, <1>5, <1>6 DEF ClosureInv

\* A type with rules, or found before, is passed over.
LEMMA PassOverInv == ClosureInv /\ PassOver => ClosureInv'
<1> SUFFICES ASSUME ClosureInv, PassOver PROVE ClosureInv'
  OBVIOUS
<1>1. ClosureTypeOK /\ Covered /\ Needed /\ Searched
  BY DEF ClosureInv
<1>2. /\ toVisit \in Seq(MessageTypes) /\ toVisit # <<>> /\ closing = "search"
      /\ Last(toVisit) \in Compiled \cup found /\ toVisit' = Front(toVisit)
  BY <1>1 DEF PassOver, ClosureTypeOK
<1>3. /\ pool' = pool /\ root' = root /\ compiledOk' = compiledOk
      /\ compiledErr' = compiledErr /\ found' = found
      /\ resolvedSet' = resolvedSet /\ closing' = closing
  BY DEF PassOver
<1>4. /\ toVisit' \in Seq(MessageTypes)
      /\ ToSet(toVisit) = ToSet(toVisit') \cup {Last(toVisit)}
  BY <1>2, StackPopped
<1>5. Known' = Known /\ Compiled' = Compiled
  BY <1>2, <1>3, <1>4 DEF Known, Compiled
<1>6. ClosureTypeOK'
  BY <1>1, <1>3, <1>4 DEF ClosureTypeOK
<1>7. Covered'
  BY <1>1, <1>3, <1>5 DEF Covered, Refers
<1>8. Needed'
  <2>1. \A S : ClosedSet(S)' <=> ClosedSet(S)
    BY <1>3, <1>5 DEF ClosedSet, Refers
  <2>2. QED
    BY <1>1, <1>3, <1>4, <2>1 DEF Needed
<1>9. Searched'
  BY <1>2, <1>3 DEF Searched
<1>10. QED
  BY <1>6, <1>7, <1>8, <1>9 DEF ClosureInv

\* A type is found, and what it refers to is put on the stack.
LEMMA VisitInv == ClosureInv /\ Visit => ClosureInv'
<1> SUFFICES ASSUME ClosureInv, Visit PROVE ClosureInv'
  OBVIOUS
<1> DEFINE m == Last(toVisit)
<1>1. ClosureTypeOK /\ Covered /\ Needed /\ Searched
  BY DEF ClosureInv
<1>2. /\ toVisit \in Seq(MessageTypes) /\ toVisit # <<>> /\ closing = "search"
      /\ m \notin Compiled \cup found /\ found' = found \cup {m}
      /\ toVisit' = Front(toVisit) \o pool[m]
  BY <1>1 DEF Visit, ClosureTypeOK
<1>3. /\ pool' = pool /\ root' = root /\ compiledOk' = compiledOk
      /\ compiledErr' = compiledErr /\ resolvedSet' = resolvedSet /\ closing' = closing
  BY DEF Visit
<1>4. /\ m \in MessageTypes /\ Front(toVisit) \in Seq(MessageTypes)
      /\ ToSet(toVisit) = ToSet(Front(toVisit)) \cup {m}
  BY <1>2, StackPopped
<1>5. pool[m] \in Seq(MessageTypes) /\ ToSet(pool[m]) = Refers(m)
  BY <1>1, <1>4 DEF ClosureTypeOK, Refers
<1>6. /\ toVisit' \in Seq(MessageTypes)
      /\ ToSet(toVisit') = ToSet(Front(toVisit)) \cup Refers(m)
  BY <1>2, <1>4, <1>5, StackPushed
<1>7. Compiled' = Compiled /\ Known' = Known \cup Refers(m)
  BY <1>2, <1>3, <1>4, <1>6 DEF Known, Compiled
<1> HIDE DEF m
<1>8. ClosureTypeOK'
  BY <1>1, <1>2, <1>3, <1>4, <1>6 DEF ClosureTypeOK
<1>9. Covered'
  BY <1>1, <1>2, <1>3, <1>7 DEF Covered, Refers
<1>10. Needed'
  <2>1. \A S : ClosedSet(S)' <=> ClosedSet(S)
    BY <1>3, <1>7 DEF ClosedSet, Refers
  <2>2. SUFFICES ASSUME NEW S \in SUBSET MessageTypes, ClosedSet(S)
                 PROVE found' \subseteq S /\ ToSet(toVisit') \subseteq S
    BY <2>1 DEF Needed
  <2>3. found \subseteq S /\ ToSet(toVisit) \subseteq S
    BY <1>1, <2>2 DEF Needed
  <2>4. Refers(m) \subseteq S
    BY <1>2, <1>4, <2>2, <2>3 DEF ClosedSet
  <2>5. QED
    BY <1>2, <1>4, <1>6, <2>3, <2>4
<1>11. Searched'
  BY <1>2, <1>3 DEF Searched
<1>12. QED
  BY <1>8, <1>9, <1>10, <1>11 DEF ClosureInv

\* The steps that leave the search as it is.
LEMMA ResolvingInv ==
  ClosureInv /\ (EndSearch \/ ResolveType \/ EndResolve \/ UNCHANGED closureVars) => ClosureInv'
<1> SUFFICES ASSUME ClosureInv, EndSearch \/ ResolveType \/ EndResolve \/ UNCHANGED closureVars
             PROVE ClosureInv'
  OBVIOUS
<1>1. ClosureTypeOK /\ Covered /\ Needed /\ Searched
  BY DEF ClosureInv
<1>2. /\ pool' = pool /\ root' = root /\ compiledOk' = compiledOk
      /\ compiledErr' = compiledErr /\ toVisit' = toVisit /\ found' = found
  BY DEF EndSearch, ResolveType, EndResolve, closureVars
<1>3. Wanted \subseteq MessageTypes
  <2>1. ASSUME NEW m \in MessageTypes PROVE Refers(m) \subseteq MessageTypes
    <3>1. pool[m] \in Seq(MessageTypes)
      BY <1>1 DEF ClosureTypeOK
    <3>2. \A i \in DOMAIN pool[m] : pool[m][i] \in MessageTypes
      BY <3>1, ElementOfSeq, LenProperties
    <3>3. QED
      BY <3>2 DEF Refers, ToSet
  <2>2. QED
    BY <1>1, <2>1 DEF Wanted, ClosureTypeOK
<1>4. /\ resolvedSet' \subseteq MessageTypes
      /\ closing' \in {"search", "resolve", "done", "failed"}
      /\ closing' \in {"resolve", "done"} => toVisit = <<>>
  BY <1>1, <1>3 DEF EndSearch, ResolveType, EndResolve, closureVars, ClosureTypeOK, Searched
<1>5. ClosureTypeOK'
  BY <1>1, <1>2, <1>4 DEF ClosureTypeOK
<1>6. Compiled' = Compiled /\ Known' = Known
  BY <1>2 DEF Compiled, Known
<1>7. Covered'
  BY <1>1, <1>2, <1>6 DEF Covered, Refers
<1>8. Needed'
  <2>1. \A S : ClosedSet(S)' <=> ClosedSet(S)
    BY <1>2, <1>6 DEF ClosedSet, Refers
  <2>2. QED
    BY <1>1, <1>2, <2>1 DEF Needed
<1>9. Searched'
  BY <1>2, <1>4 DEF Searched
<1>10. QED
  BY <1>5, <1>7, <1>8, <1>9 DEF ClosureInv

\* The invariant of the search holds of every reachable state.
LEMMA ClosureInvariant == ClosureSpec => []ClosureInv
<1>1. ClosureInv /\ [ClosureNext]_closureVars => ClosureInv'
  BY PassOverInv, VisitInv, ResolvingInv DEF ClosureNext
<1>2. QED
  BY ClosureInitInv, <1>1, PTL DEF ClosureSpec

----------------------------------------------------------------------------
\* The search returns exactly the uncompiled types that the root needs: those
\* that every set closed under references has.  (closure in rules/build.rs)
THEOREM SearchIsExact == ClosureSpec => []FindsReachable
<1>1. ClosureInv => FindsReachable
  <2> SUFFICES ASSUME ClosureInv, closing \in {"resolve", "done"}
               PROVE  /\ root \in Compiled \cup found
                      /\ found \cap Compiled = {}
                      /\ \A m \in found : Refers(m) \subseteq Compiled \cup found
                      /\ \A S \in SUBSET MessageTypes : ClosedSet(S) => found \subseteq S
    BY DEF FindsReachable
  <2>1. ToSet(toVisit) = {}
    BY DEF ClosureInv, Searched, ToSet
  <2>2. Known = Compiled \cup found
    BY <2>1 DEF Known
  <2>3. QED
    BY <2>2 DEF ClosureInv, Covered, Needed
<1>2. QED
  BY ClosureInvariant, <1>1, PTL

\* The builder finds every type it looks up among those that resolve returned:
\* its lookups cannot panic.  (resolved and build_message in rules/build.rs)
ResolvedInv == closing = "done" => Wanted \subseteq resolvedSet
THEOREM NothingUnresolved == ClosureSpec => []LookupsResolved
<1>1. ClosureInit => ResolvedInv
  BY DEF ClosureInit, ResolvedInv
<1>2. ResolvedInv /\ [ClosureNext]_closureVars => ResolvedInv'
  <2> SUFFICES ASSUME ResolvedInv, [ClosureNext]_closureVars, closing' = "done"
               PROVE  Wanted' \subseteq resolvedSet'
    BY DEF ResolvedInv
  <2>1. \/ EndResolve \/ UNCHANGED closureVars
    BY DEF ClosureNext, PassOver, Visit, EndSearch, ResolveType
  <2>2. Wanted' = Wanted /\ resolvedSet' = resolvedSet
    BY <2>1 DEF EndResolve, closureVars, Wanted, Refers
  <2>3. QED
    BY <2>1, <2>2 DEF EndResolve, closureVars, ResolvedInv
<1>3. ResolvedInv => LookupsResolved
  BY DEF ResolvedInv, LookupsResolved, BuilderLookups, Wanted
<1>4. QED
  BY <1>1, <1>2, <1>3, PTL DEF ClosureSpec

\* A root is compiled with all it needs and nothing else, and nothing that the
\* build looks up is missing.  (closure and resolve in rules/build.rs)
THEOREM NeedsMetAlways == ClosureSpec => []NeedsMet
<1>1. FindsReachable /\ LookupsResolved => NeedsMet
  BY DEF NeedsMet
<1>2. QED
  BY SearchIsExact, NothingUnresolved, <1>1, PTL

----------------------------------------------------------------------------
(* A message's rules compiled. *)

Working == {"custom", "standard", "native", "predefined", "placed"}
Stages == {"oneofs", "cel", "field", "compiled", "failed"} \cup Working
IsSeq(s) == \E S : s \in Seq(S)

\* A place stands for a part of the options that has rules or a message.
NeedsPlace(part) == part.at = "field" \/ Validated(part)
PlaceOf(part) == [part EXCEPT !.rules = IF @ = NoRules THEN Unruled ELSE @]
Stated(part) == PlaceOf(part).rules.standard
Unread(part) == [Stated(part) EXCEPT !.set = @ \ NativeRules]

CompileTypeOK ==
  /\ compiling \in CompiledMessages /\ stage \in Stages
  /\ nextField \in 0..Len(compiling.fields)
  /\ IsSeq(places) /\ IsSeq(values) /\ IsSeq(fieldResults)
  /\ stage \in Working => nextField > 0 /\ ~Skips(CurrentField)
  /\ stage \in {"oneofs", "cel"} => nextField = 0 /\ fieldResults = <<>>
  /\ stage = "compiled" => nextField = Len(compiling.fields)

\* The fields with rules among the first n, and what is kept of each.
Passed(n) == {i \in DOMAIN compiling.fields : i <= n /\ ~Skips(compiling.fields[i])}
Rank(i) == Cardinality(Passed(i))
Behind == IF stage \in Working THEN nextField - 1 ELSE nextField
ResultsKept ==
  /\ Len(fieldResults) = Cardinality(Passed(Behind))
  /\ \A i \in Passed(Behind) :
       /\ fieldResults[Rank(i)].field = compiling.fields[i].name
       /\ Keeping(fieldResults[Rank(i)], compiling.fields[i])

\* The validators of the parts that are behind.
Validates(value, part) == value.at = part.at /\ Keeps(value, part) /\ ~Faulty(part)
ValuesKept == \A i \in DOMAIN values : \E part \in PartsOf(CurrentField) : Validates(values[i], part)

\* Each part has one place, and the field's is the first.
Apart ==
  /\ \A i, j \in DOMAIN places : places[i].at = places[j].at => i = j
  /\ \A i, j \in DOMAIN values : values[i].at = values[j].at => i = j
  /\ \A i \in DOMAIN values, j \in DOMAIN places : values[i].at # places[j].at
  /\ \A i \in DOMAIN places : places[i].at = "field" => Len(places) = 1 /\ values = <<>>
Placed ==
  \A part \in PartsOf(CurrentField) : NeedsPlace(part) =>
    \/ \E i \in DOMAIN values : values[i].at = part.at
    \/ \E i \in DOMAIN places : places[i].at = part.at
    \/ Target.at = "field"

\* The part whose place is under way, and what is built of it.
Custom(part) ==
  /\ DOMAIN place = DOMAIN NoValue
  /\ place.at = part.at /\ place.custom = PlaceOf(part).rules.cel
  /\ place.nested <=> part.kind = "singular" /\ IsMessageType(part.type)
  /\ Compiles(ToSet(PlaceOf(part).rules.cel))
WellPlaced(part) ==
  /\ Stated(part).name = ExpectedRules(part) /\ Stated(part).known
  /\ ~UniqueUnsupported(part, Stated(part))
Doing(part) ==
  /\ NeedsPlace(part)
  /\ stage \in {"custom", "standard", "native"} => Target = PlaceOf(part)
  /\ stage \in {"standard", "native", "predefined"} => Stated(part) # NoRules /\ Custom(part)
  /\ stage \in {"native", "predefined"} => WellPlaced(part)
  /\ stage = "predefined" =>
       /\ Target = [PlaceOf(part) EXCEPT !.rules.standard = Unread(part)]
       /\ place.native = Stated(part).set \cap NativeRules /\ Compiles(place.native)
  /\ stage = "placed" =>
       /\ Target.at = part.at /\ Validates(place, part)
       /\ Stated(part) # NoRules => Standard = Unread(part)
       /\ Stated(part) = NoRules => Standard = NoRules
Ahead ==
  /\ \E part \in PartsOf(CurrentField) : Doing(part)
  /\ \A i \in DOMAIN places : i > 1 =>
       \E part \in PartsOf(CurrentField) : NeedsPlace(part) /\ places[i] = PlaceOf(part)

FieldInv == stage \in Working => places # <<>> /\ ValuesKept /\ Apart /\ Placed /\ Ahead
CompileInv == CompileTypeOK /\ ResultsKept /\ FieldInv

----------------------------------------------------------------------------
\* Sequences of records of no set in particular.
LEMMA Added ==
  ASSUME NEW s, IsSeq(s), NEW e
  PROVE  /\ IsSeq(Append(s, e)) /\ Len(s) \in Nat /\ DOMAIN s = 1..Len(s)
         /\ Len(Append(s, e)) = Len(s) + 1 /\ DOMAIN Append(s, e) = 1..(Len(s) + 1)
         /\ Append(s, e)[Len(s) + 1] = e /\ \A i \in 1..Len(s) : Append(s, e)[i] = s[i]
<1>1. PICK S : s \in Seq(S)
  BY DEF IsSeq
<1> DEFINE T == S \cup {e}
<1>2. s \in Seq(T) /\ e \in T
  BY <1>1
<1> HIDE DEF T
<1>3. Append(s, e) \in Seq(T)
  BY <1>2
<1>4. QED
  BY <1>2, <1>3 DEF IsSeq

\* What is left of a sequence without its first element.
LEMMA Remainder ==
  ASSUME NEW s, IsSeq(s), s # <<>>
  PROVE  /\ IsSeq(Tail(s)) /\ Len(s) \in Nat \ {0} /\ DOMAIN s = 1..Len(s) /\ Head(s) = s[1]
         /\ Len(Tail(s)) = Len(s) - 1 /\ DOMAIN Tail(s) = 1..(Len(s) - 1)
         /\ \A i \in 1..(Len(s) - 1) : Tail(s)[i] = s[i + 1]
<1>1. PICK S : s \in Seq(S)
  BY DEF IsSeq
<1>2. Tail(s) \in Seq(S)
  BY <1>1
<1>3. QED
  BY <1>1, <1>2 DEF IsSeq

\* The parts of a field are told apart by where they are.
LEMMA PartsAre ==
  ASSUME NEW f, IsField(f), NEW part \in PartsOf(f)
  PROVE  /\ part = [at |-> part.at, kind |-> part.kind, type |-> part.type, rules |-> part.rules]
         /\ part.at \in {"field", "items", "keys", "values"}
         /\ part.at # "field" => part.kind = "singular"
         /\ IsRules(part.rules)
         /\ \A q \in PartsOf(f) : q.at = part.at => q = part
<1> DEFINE std == IF f.rules = NoRules THEN NoRules ELSE f.rules.standard
           inner(p) == IF std # NoRules /\ std.name \in {"repeated", "map"} THEN std[p] ELSE NoRules
<1>2. \A p \in {"items", "keys", "values"} : IsRules(inner(p))
  BY DEF IsField, IsRules
<1>3. \A q \in PartsOf(f) :
        \/ q = [at |-> "field", kind |-> f.kind, type |-> f.value, rules |-> f.rules]
        \/ f.kind = "list" /\ q = Item("items", f.value, inner("items"))
        \/ f.kind = "map" /\ q = Item("keys", f.key, inner("keys"))
        \/ f.kind = "map" /\ q = Item("values", f.value, inner("values"))
  BY DEF PartsOf
<1> HIDE DEF inner
<1>4. QED
  BY <1>2, <1>3 DEF Item, IsField

\* What the parts that need places have, and what those places have.
LEMMA PlacesAre ==
  ASSUME NEW f, IsField(f), ~Skips(f), NEW part \in PartsOf(f)
  PROVE  /\ PlaceOf(part).at = part.at /\ PlaceOf(part).kind = part.kind
         /\ PlaceOf(part).type = part.type /\ DOMAIN PlaceOf(part) = {"at", "kind", "type", "rules"}
         /\ DOMAIN PlaceOf(part).rules = {"ignore", "cel", "standard"}
         /\ Stated(part) # NoRules =>
              DOMAIN Stated(part) = {"name", "set", "known", "items", "keys", "values"}
         /\ part.rules # NoRules => PlaceOf(part).rules = part.rules
         /\ part.rules = NoRules => PlaceOf(part).rules = Unruled /\ Stated(part) = NoRules
         /\ NeedsPlace(part) /\ part.rules # NoRules => Ruled(part)
<1>1. /\ part = [at |-> part.at, kind |-> part.kind, type |-> part.type, rules |-> part.rules]
      /\ IsRules(part.rules)
  BY PartsAre
<1>2. PlaceOf(part) = [at |-> part.at, kind |-> part.kind, type |-> part.type,
                       rules |-> IF part.rules = NoRules THEN Unruled ELSE part.rules]
  BY <1>1 DEF PlaceOf
<1>3. part.at = "field" => part.rules = f.rules
  <2>1. \A at, type, rules : Item(at, type, rules).at = at
    BY DEF Item
  <2>2. QED
    BY <2>1 DEF PartsOf
<1>4. NeedsPlace(part) /\ part.rules # NoRules => Ruled(part)
  BY <1>3 DEF NeedsPlace, Validated, Ruled, Skips
<1>5. QED
  BY <1>1, <1>2, <1>4 DEF Stated, Unruled, IsRules

\* A part without a place has no fault.
LEMMA Faultless ==
  ASSUME NEW f, IsField(f), NEW part \in PartsOf(f), ~NeedsPlace(part)
  PROVE  ~Ruled(part) /\ ~Faulty(part) /\ ~(IsMessageType(part.type) /\ part.rules = NoRules)
  BY DEF NeedsPlace, Validated, Ruled, Faulty

\* A field under way is one with rules, or of a message type.
LEMMA TheField ==
  ASSUME CompileTypeOK, stage \in Working
  PROVE  IsField(CurrentField) /\ ~Skips(CurrentField)
<1>1. nextField \in DOMAIN compiling.fields
  <2>1. compiling.fields \in Seq(ToSet(compiling.fields)) /\ nextField \in 1..Len(compiling.fields)
    BY MessagesAssumption DEF CompileTypeOK
  <2>2. QED
    BY <2>1
<1>2. QED
  BY <1>1, MessagesAssumption DEF CompileTypeOK, CurrentField

----------------------------------------------------------------------------
\* How many fields with rules are behind.
LEMMA Counted ==
  ASSUME CompileTypeOK
  PROVE  /\ compiling.fields \in Seq(ToSet(compiling.fields)) /\ Len(compiling.fields) \in Nat
         /\ DOMAIN compiling.fields = 1..Len(compiling.fields)
         /\ \A n \in Nat : IsFiniteSet(Passed(n)) /\ Cardinality(Passed(n)) \in Nat
         /\ Passed(0) = {}
         /\ \A n \in Nat : n + 1 \in DOMAIN compiling.fields =>
              /\ Passed(n + 1) = IF Skips(compiling.fields[n + 1]) THEN Passed(n)
                                 ELSE Passed(n) \cup {n + 1}
              /\ n + 1 \notin Passed(n)
         /\ \A n \in Nat : \A i \in Passed(n) : Passed(i) \subseteq Passed(n)
<1>1. compiling.fields \in Seq(ToSet(compiling.fields))
  BY MessagesAssumption DEF CompileTypeOK
<1>2. /\ Len(compiling.fields) \in Nat
      /\ DOMAIN compiling.fields = 1..Len(compiling.fields)
  BY <1>1
<1>3. ASSUME NEW n \in Nat PROVE IsFiniteSet(Passed(n)) /\ Cardinality(Passed(n)) \in Nat
  <2>1. Passed(n) \subseteq 1..Len(compiling.fields)
    BY <1>2 DEF Passed
  <2>2. IsFiniteSet(1..Len(compiling.fields))
    BY <1>2, FS_Interval
  <2>3. QED
    BY <2>1, <2>2, FS_Subset, FS_CardinalityType
<1>4. Passed(0) = {}
  BY <1>2 DEF Passed
<1>5. ASSUME NEW n \in Nat, n + 1 \in DOMAIN compiling.fields
      PROVE  /\ Passed(n + 1) = IF Skips(compiling.fields[n + 1]) THEN Passed(n)
                                ELSE Passed(n) \cup {n + 1}
             /\ n + 1 \notin Passed(n)
  <2>1. \A i \in DOMAIN compiling.fields : i \in Nat /\ (i <= n + 1 <=> i <= n \/ i = n + 1)
    BY <1>2
  <2>2. n + 1 \notin Passed(n)
    BY DEF Passed
  <2>3. \A i : i \in Passed(n + 1) <=>
                 i \in Passed(n) \/ (i = n + 1 /\ ~Skips(compiling.fields[n + 1]))
    BY <1>5, <2>1 DEF Passed
  <2>4. QED
    BY <2>2, <2>3
<1>6. ASSUME NEW n \in Nat, NEW i \in Passed(n) PROVE Passed(i) \subseteq Passed(n)
  BY <1>2 DEF Passed
<1>7. QED
  BY <1>1, <1>2, <1>3, <1>4, <1>5, <1>6

\* A field is done: its result comes after the others.
LEMMA ResultAdded ==
  ASSUME CompileTypeOK, ResultsKept, stage \in Working, stage' = "field",
         UNCHANGED <<compiling, nextField>>, NEW r,
         fieldResults' = Append(fieldResults, r), r.field = CurrentField.name,
         Keeping(r, CurrentField)
  PROVE  ResultsKept'
<1> DEFINE n == nextField - 1
           fields == compiling.fields
<1>1. /\ nextField \in DOMAIN fields /\ n \in Nat /\ nextField = n + 1 /\ ~Skips(fields[n + 1])
      /\ IsSeq(fieldResults)
  <2>1. nextField \in 1..Len(fields) /\ Len(fields) \in Nat /\ DOMAIN fields = 1..Len(fields)
    <3>1. Len(fields) \in Nat /\ DOMAIN fields = 1..Len(fields)
      BY Counted
    <3>2. nextField \in 0..Len(fields) /\ nextField > 0
      BY DEF CompileTypeOK
    <3>3. QED
      BY <3>1, <3>2
  <2>2. n \in Nat /\ nextField = n + 1
    BY <2>1
  <2>3. QED
    BY <2>1, <2>2 DEF CompileTypeOK, CurrentField
<1>2. /\ Behind = n /\ Behind' = n + 1 /\ \A k : Passed(k)' = Passed(k) /\ Rank(k)' = Rank(k)
  BY <1>1 DEF Behind, Passed, Rank, Working
<1>3. /\ Passed(n + 1) = Passed(n) \cup {n + 1} /\ n + 1 \notin Passed(n)
      /\ IsFiniteSet(Passed(n)) /\ Cardinality(Passed(n)) \in Nat
  BY <1>1, Counted
<1> DEFINE len == Cardinality(Passed(n))
<1>4. Cardinality(Passed(n + 1)) = len + 1
  BY <1>3, FS_AddElement
<1>5. len = Len(fieldResults)
  BY <1>2 DEF ResultsKept
<1>6. /\ Len(fieldResults') = len + 1 /\ fieldResults'[len + 1] = r
      /\ \A i \in 1..len : fieldResults'[i] = fieldResults[i]
  BY <1>1, <1>5, Added
<1>7. ASSUME NEW i \in Passed(n) PROVE Rank(i) \in 1..len
  <2>1. i \in Nat /\ i \in Passed(i)
    BY Counted DEF Passed
  <2>2. Passed(i) \subseteq Passed(n) /\ IsFiniteSet(Passed(i)) /\ Cardinality(Passed(i)) \in Nat
    BY <1>1, <2>1, Counted
  <2>3. Cardinality(Passed(i)) <= len
    BY <1>3, <2>2, FS_Subset
  <2>4. Cardinality(Passed(i)) # 0
    BY <2>1, <2>2, FS_EmptySet
  <2>5. QED
    BY <1>3, <2>2, <2>3, <2>4 DEF Rank
<1>8. Rank(n + 1) = len + 1
  BY <1>4 DEF Rank
<1> HIDE DEF len
<1>9. ASSUME NEW i \in Passed(n + 1)
      PROVE  /\ fieldResults'[Rank(i)].field = fields[i].name
             /\ Keeping(fieldResults'[Rank(i)], fields[i])
  <2>1. CASE i \in Passed(n)
    <3>1. fieldResults'[Rank(i)] = fieldResults[Rank(i)]
      BY <1>6, <1>7, <2>1
    <3>2. QED
      BY <1>2, <2>1, <3>1 DEF ResultsKept
  <2>2. CASE i = n + 1
    <3>1. fieldResults'[Rank(i)] = r /\ fields[i] = CurrentField
      BY <1>1, <1>6, <1>8, <2>2 DEF CurrentField
    <3>2. QED
      BY <3>1 DEF CurrentField
  <2>3. QED
    BY <1>3, <1>9, <2>1, <2>2
<1>10. QED
  <2>1. /\ Passed(Behind)' = Passed(n + 1) /\ Len(fieldResults') = Cardinality(Passed(n + 1))
    BY <1>2, <1>4, <1>6 DEF Passed
  <2>2. \A i : Rank(i)' = Rank(i) /\ compiling' = compiling
    BY <1>2
  <2>3. QED
    BY <1>9, <2>1, <2>2 DEF ResultsKept

\* The fields behind are the same.
LEMMA ResultsSame ==
  ASSUME ResultsKept, UNCHANGED <<compiling, fieldResults>>, Passed(Behind)' = Passed(Behind)
  PROVE  ResultsKept'
<1>1. \A k : Rank(k)' = Rank(k)
  BY DEF Rank, Passed
<1>2. QED
  BY <1>1 DEF ResultsKept

\* Any sequence of records is replaced, started and joined as expected.
LEMMA Replaced ==
  ASSUME NEW s, IsSeq(s), s # <<>>, NEW e
  PROVE  /\ IsSeq([s EXCEPT ![1] = e]) /\ Len([s EXCEPT ![1] = e]) = Len(s)
         /\ Len(s) \in Nat \ {0} /\ DOMAIN s = 1..Len(s) /\ DOMAIN [s EXCEPT ![1] = e] = 1..Len(s)
         /\ Head([s EXCEPT ![1] = e]) = e /\ [s EXCEPT ![1] = e] # <<>>
         /\ [s EXCEPT ![1] = e][1] = e
         /\ \A i \in 1..Len(s) : i > 1 => [s EXCEPT ![1] = e][i] = s[i]
<1>1. PICK S : s \in Seq(S)
  BY DEF IsSeq
<1> DEFINE T == S \cup {e}
           t == [s EXCEPT ![1] = e]
<1>2. s \in Seq(T) /\ e \in T
  BY <1>1
<1>3. Len(s) \in Nat \ {0} /\ DOMAIN s = 1..Len(s)
  BY <1>1
<1> HIDE DEF T
<1>4. t \in Seq(T) /\ DOMAIN t = 1..Len(s) /\ t[1] = e
  BY <1>2, <1>3
<1>5. Len(t) = Len(s)
  BY <1>3, <1>4
<1>6. \A i \in 1..Len(s) : i > 1 => t[i] = s[i]
  BY <1>3
<1> HIDE DEF t
<1>7. t # <<>> /\ Head(t) = e
  BY <1>3, <1>4, <1>5
<1>8. QED
  BY <1>3, <1>4, <1>5, <1>6, <1>7 DEF IsSeq, t

\* The empty sequence and the ones of one element.
LEMMA Short ==
  /\ IsSeq(<<>>) /\ Len(<<>>) = 0 /\ DOMAIN <<>> = {}
  /\ \A e : IsSeq(<<e>>) /\ Len(<<e>>) = 1 /\ DOMAIN <<e>> = {1} /\ <<e>>[1] = e
            /\ Head(<<e>>) = e /\ <<e>> # <<>>
<1>1. <<>> \in Seq({}) /\ \A e : <<e>> \in Seq({e})
  OBVIOUS
<1>2. IsSeq(<<>>) /\ \A e : IsSeq(<<e>>)
  BY ONLY <1>1, Zenon DEF IsSeq
<1>3. Len(<<>>) = 0 /\ DOMAIN <<>> = {}
  OBVIOUS
<1>4. \A e : Len(<<e>>) = 1 /\ DOMAIN <<e>> = {1} /\ <<e>>[1] = e /\ Head(<<e>>) = e /\ <<e>> # <<>>
  OBVIOUS
<1>5. QED
  BY <1>2, <1>3, <1>4

\* Nothing is compiled at first.
LEMMA CompileInitInv == CompileInit => CompileInv
<1> SUFFICES ASSUME CompileInit PROVE CompileInv
  OBVIOUS
<1>1. /\ compiling \in CompiledMessages /\ nextField = 0 /\ places = <<>> /\ stage = "oneofs"
      /\ values = <<>> /\ fieldResults = <<>>
  BY DEF CompileInit
<1>2. compiling.fields \in Seq(ToSet(compiling.fields))
  BY <1>1, MessagesAssumption
<1>3. Len(compiling.fields) \in Nat
  BY <1>2
<1>4. CompileTypeOK
  BY <1>1, <1>3, Short DEF CompileTypeOK, Stages, Working
<1>5. Behind = 0 /\ Passed(Behind) = {} /\ Len(fieldResults) = 0
  BY <1>1, <1>4, Counted, Short DEF Behind, Working
<1>6. QED
  BY <1>1, <1>4, <1>5, FS_EmptySet DEF CompileInv, ResultsKept, FieldInv, Working

\* The oneofs, the CEL and the end of a message: no field is touched.
LEMMA MessageInv ==
  ASSUME CompileInv, CompileOneofs \/ CompileMessageCel \/ EndMessage
  PROVE  CompileInv'
<1>1. UNCHANGED <<compiling, nextField, places, values, fieldResults>>
  BY DEF CompileOneofs, CompileMessageCel, EndMessage
<1>2. /\ stage \in {"oneofs", "cel", "field"} /\ stage' \in {"cel", "field", "failed", "compiled"}
      /\ stage' = "cel" => stage = "oneofs"
      /\ stage' = "compiled" => nextField = Len(compiling.fields)
  BY DEF CompileOneofs, CompileMessageCel, EndMessage
<1>3. CompileTypeOK'
  BY <1>1, <1>2 DEF CompileInv, CompileTypeOK, Stages, Working
<1>4. Passed(Behind)' = Passed(Behind)
  BY <1>1, <1>2 DEF Behind, Passed, Working
<1>5. QED
  BY <1>1, <1>2, <1>3, <1>4, ResultsSame DEF CompileInv, FieldInv, Working

\* A field without rules is passed.
LEMMA SkipFieldInv ==
  ASSUME CompileInv, SkipField
  PROVE  CompileInv'
<1>1. /\ UNCHANGED <<compiling, places, values, fieldResults, stage>> /\ stage = "field"
      /\ nextField < Len(compiling.fields) /\ Skips(compiling.fields[nextField + 1])
      /\ nextField' = nextField + 1
  BY DEF SkipField
<1>2. CompileTypeOK
  BY DEF CompileInv
<1>3. /\ nextField \in Nat /\ nextField + 1 \in 0..Len(compiling.fields)
      /\ nextField + 1 \in DOMAIN compiling.fields
  <2>1. Len(compiling.fields) \in Nat /\ DOMAIN compiling.fields = 1..Len(compiling.fields)
    BY <1>2, Counted
  <2>2. nextField \in 0..Len(compiling.fields)
    BY <1>2 DEF CompileTypeOK
  <2>3. QED
    BY <1>1, <2>1, <2>2
<1>4. CompileTypeOK'
  BY <1>1, <1>2, <1>3 DEF CompileTypeOK, Working
<1>5. Passed(nextField + 1) = Passed(nextField)
  BY <1>1, <1>2, <1>3, Counted
<1>6. Passed(Behind)' = Passed(Behind)
  BY <1>1, <1>5 DEF Behind, Passed, Working
<1>7. QED
  BY <1>1, <1>4, <1>6, ResultsSame DEF CompileInv, FieldInv, Working

\* A field begins with its own place.
LEMMA BeginFieldInv ==
  ASSUME CompileInv, BeginField
  PROVE  CompileInv'
<1> DEFINE f == compiling.fields[nextField + 1]
<1>0. PICK own : own = [at |-> "field", kind |-> f.kind, type |-> f.value, rules |-> f.rules]
  OBVIOUS
<1>1. /\ UNCHANGED <<compiling, fieldResults>> /\ stage = "field" /\ stage' = "custom"
      /\ nextField < Len(compiling.fields) /\ ~Skips(f)
      /\ nextField' = nextField + 1 /\ values' = <<>> /\ places' = <<PlaceOf(own)>>
  BY <1>0 DEF BeginField, PlaceOf
<1>2. CompileTypeOK
  BY DEF CompileInv
<1>3. nextField \in Nat /\ nextField + 1 \in 0..Len(compiling.fields) /\ nextField + 1 > 0
  <2>1. Len(compiling.fields) \in Nat
    BY <1>2, Counted
  <2>2. nextField \in 0..Len(compiling.fields)
    BY <1>2 DEF CompileTypeOK
  <2>3. QED
    BY <1>1, <2>1, <2>2
<1>4. CurrentField' = f
  BY <1>1 DEF CurrentField
<1>5. CompileTypeOK'
  BY <1>1, <1>2, <1>3, <1>4, Short DEF CompileTypeOK, Working, Stages
<1>6. Passed(Behind)' = Passed(Behind)
  BY <1>1, <1>3 DEF Behind, Passed, Working
<1>7. own \in PartsOf(f)
  BY <1>0 DEF PartsOf
<1>8. PlaceOf(own).at = "field" /\ own.at = "field"
  BY <1>0 DEF PlaceOf
<1> HIDE DEF f
<1>9. /\ places' # <<>> /\ DOMAIN places' = {1} /\ places'[1] = PlaceOf(own) /\ Target' = PlaceOf(own)
      /\ Len(places') = 1 /\ DOMAIN values' = {}
  BY <1>1, Short DEF Target
<1>10. Doing(own)'
  BY <1>1, <1>8, <1>9 DEF Doing, NeedsPlace
<1>11. FieldInv'
  BY <1>1, <1>4, <1>7, <1>8, <1>9, <1>10 DEF FieldInv, ValuesKept, Apart, Placed, Ahead
<1>12. QED
  BY <1>1, <1>5, <1>6, <1>11, ResultsSame DEF CompileInv

\* A field that has an error is done; the error names a part with a fault.
LEMMA FailsInv ==
  ASSUME CompileInv, stage \in Working, NEW why, FieldFails(why),
         NEW part \in PartsOf(CurrentField), part.at = Target.at, Faulty(part)
  PROVE  CompileInv'
<1> DEFINE r == [field |-> CurrentField.name, error |-> <<Target.at, why>>, values |-> <<>>]
<1>1. /\ fieldResults' = Append(fieldResults, r) /\ stage' = "field" /\ places' = <<>>
      /\ UNCHANGED <<compiling, nextField, values>>
  BY DEF FieldFails
<1>2. CompileTypeOK /\ ResultsKept
  BY DEF CompileInv
<1>3. r.field = CurrentField.name /\ r.error # <<>> /\ r.error[1] = Target.at
  OBVIOUS
<1> HIDE DEF r
<1>4. Keeping(r, CurrentField)
  BY <1>3 DEF Keeping
<1>5. IsSeq(fieldResults')
  BY <1>1, <1>2, Added DEF CompileTypeOK
<1>6. CompileTypeOK'
  BY <1>1, <1>2, <1>5, Short DEF CompileTypeOK, Working, Stages
<1>7. ResultsKept'
  BY <1>1, <1>2, <1>3, <1>4, ResultAdded
<1>8. QED
  BY <1>1, <1>6, <1>7 DEF CompileInv, FieldInv, Working

\* A step within a field.
LEMMA StillWorking ==
  ASSUME CompileInv, stage \in Working, stage' \in Working,
         UNCHANGED <<compiling, nextField, fieldResults>>, IsSeq(places'), IsSeq(values')
  PROVE  CompileTypeOK' /\ ResultsKept' /\ CurrentField' = CurrentField
<1>1. CurrentField' = CurrentField
  BY DEF CurrentField
<1>2. CompileTypeOK'
  BY <1>1 DEF CompileInv, CompileTypeOK, Stages, Working
<1>3. Passed(Behind)' = Passed(Behind)
  BY DEF Behind, Passed
<1>4. QED
  BY <1>1, <1>2, <1>3, ResultsSame DEF CompileInv

----------------------------------------------------------------------------
\* What is known while a field is compiled.
LEMMA UnderWay ==
  ASSUME CompileInv, stage \in Working
  PROVE  /\ IsField(CurrentField) /\ ~Skips(CurrentField)
         /\ places # <<>> /\ IsSeq(places) /\ IsSeq(values)
         /\ Len(places) \in Nat \ {0} /\ DOMAIN places = 1..Len(places) /\ Target = places[1]
         /\ \E part \in PartsOf(CurrentField) : Doing(part)
<1>1. CompileTypeOK /\ FieldInv
  BY DEF CompileInv
<1>2. places # <<>> /\ IsSeq(places) /\ IsSeq(values)
  BY <1>1 DEF CompileTypeOK, FieldInv
<1>3. \E part \in PartsOf(CurrentField) : Doing(part)
  BY <1>1 DEF FieldInv, Ahead
<1>4. QED
  BY <1>1, <1>2, <1>3, TheField, Remainder DEF Target

\* A step at a place that is still to be done.
LEMMA SamePlaces ==
  ASSUME CompileInv, stage \in Working, stage' \in Working,
         UNCHANGED <<compiling, nextField, places, values, fieldResults>>,
         NEW part \in PartsOf(CurrentField), Doing(part)'
  PROVE  CompileInv'
<1>1. CompileTypeOK' /\ ResultsKept' /\ CurrentField' = CurrentField
  BY UnderWay, StillWorking
<1>2. FieldInv
  BY DEF CompileInv
<1>3. ValuesKept' /\ Apart' /\ Placed' /\ Ahead' /\ places' # <<>>
  BY <1>1, <1>2 DEF FieldInv, ValuesKept, Apart, Placed, Ahead, Target
<1>4. QED
  BY <1>1, <1>3 DEF CompileInv, FieldInv

\* The custom CEL of a place compiles, or is a fault of its part.
LEMMA CustomInv ==
  ASSUME CompileInv, CompileCustom
  PROVE  CompileInv'
<1>1. stage = "custom" /\ stage \in Working
  BY DEF CompileCustom, Working
<1>2. PICK part \in PartsOf(CurrentField) : Doing(part)
  BY <1>1, UnderWay
<1>3. Target = PlaceOf(part) /\ NeedsPlace(part)
  BY <1>1, <1>2 DEF Doing
<1>4. /\ PlaceOf(part).at = part.at /\ PlaceOf(part).kind = part.kind
      /\ PlaceOf(part).type = part.type
      /\ part.rules # NoRules => PlaceOf(part).rules = part.rules /\ Ruled(part)
      /\ part.rules = NoRules => PlaceOf(part).rules = Unruled /\ Stated(part) = NoRules
  BY <1>1, <1>3, UnderWay, PlacesAre
<1>5. CASE ~Compiles(ToSet(Target.rules.cel)) /\ FieldFails("custom")
  <2>1. part.rules # NoRules
    <3>1. SUFFICES ASSUME part.rules = NoRules PROVE FALSE
      OBVIOUS
    <3>2. Target.rules.cel = <<>>
      BY <1>3, <1>4, <3>1 DEF Unruled
    <3>3. ToSet(<<>>) = {}
      BY DEF ToSet
    <3>4. QED
      BY <1>5, <3>2, <3>3 DEF Compiles
  <2>2. Faulty(part)
    BY <1>3, <1>4, <1>5, <2>1 DEF Faulty, Compiles
  <2>3. QED
    BY <1>1, <1>3, <1>4, <1>5, <2>2, FailsInv
<1>6. CASE /\ Compiles(ToSet(Target.rules.cel))
           /\ place' = [NoValue EXCEPT !.at = Target.at, !.custom = Target.rules.cel,
                       !.nested = Target.kind = "singular" /\ IsMessageType(Target.type)]
           /\ stage' = IF Standard = NoRules THEN "placed" ELSE "standard"
           /\ UNCHANGED <<compiling, nextField, places, values, fieldResults, messageError>>
  <2>1. /\ DOMAIN place' = DOMAIN NoValue /\ place'.at = part.at
        /\ place'.custom = PlaceOf(part).rules.cel
        /\ place'.nested <=> part.kind = "singular" /\ IsMessageType(part.type)
        /\ place'.native = {} /\ place'.predefined = {}
    BY <1>3, <1>4, <1>6 DEF NoValue
  <2>2. Custom(part)'
    BY <1>3, <1>6, <2>1 DEF Custom
  <2>3. Standard = Stated(part) /\ Target' = Target /\ Standard' = Standard
    BY <1>3, <1>6 DEF Standard, Stated, Target
  <2>4. CASE Stated(part) = NoRules
    <3>1. stage' = "placed"
      BY <1>6, <2>3, <2>4
    <3>2. Ruled(part) =>
            /\ PlaceOf(part).rules = part.rules /\ part.rules.standard = NoRules
            /\ ToSet(part.rules.cel) \cap Broken = {}
      BY <1>3, <1>4, <1>6, <2>4 DEF Compiles, Ruled, Stated
    <3>3. ~Faulty(part)
      BY <3>2 DEF Faulty
    <3>4. Keeps(place', part)
      BY <2>1, <3>2 DEF Keeps
    <3>5. Doing(part)'
      BY <1>3, <1>4, <2>1, <2>3, <2>4, <3>1, <3>3, <3>4 DEF Doing, Validates
    <3>6. QED
      BY <1>1, <1>6, <3>1, <3>5, SamePlaces DEF Working
  <2>5. CASE Stated(part) # NoRules
    <3>1. stage' = "standard"
      BY <1>6, <2>3, <2>5
    <3>2. Doing(part)'
      BY <1>3, <2>2, <2>3, <2>5, <3>1 DEF Doing
    <3>3. QED
      BY <1>1, <1>6, <3>1, <3>2, SamePlaces DEF Working
  <2>6. QED
    BY <2>4, <2>5
<1>7. QED
  BY <1>5, <1>6 DEF CompileCustom

\* The standard rules of a place are the ones for its type, or a fault.
LEMMA StandardInv ==
  ASSUME CompileInv, CheckStandard
  PROVE  CompileInv'
<1>1. stage = "standard" /\ stage \in Working
  BY DEF CheckStandard, Working
<1>2. PICK part \in PartsOf(CurrentField) : Doing(part)
  BY <1>1, UnderWay
<1>3. Target = PlaceOf(part) /\ NeedsPlace(part) /\ Stated(part) # NoRules /\ Custom(part)
  BY <1>1, <1>2 DEF Doing
<1>4. /\ PlaceOf(part).at = part.at /\ PlaceOf(part).kind = part.kind
      /\ PlaceOf(part).type = part.type
      /\ PlaceOf(part).rules = part.rules /\ Ruled(part)
  BY <1>1, <1>3, UnderWay, PlacesAre
<1>5. Standard = Stated(part) /\ Stated(part) = part.rules.standard
  BY <1>3, <1>4 DEF Standard, Stated
<1>6. /\ ExpectedRules(Target) = ExpectedRules(part)
      /\ \A std : UniqueUnsupported(Target, std) <=> UniqueUnsupported(part, std)
  BY <1>3, <1>4 DEF ExpectedRules, UniqueUnsupported
<1>7. CASE Misplaced /\ FieldFails("standard")
  <2>1. Faulty(part)
    BY <1>3, <1>4, <1>5, <1>6, <1>7 DEF Faulty, Misplaced
  <2>2. QED
    BY <1>1, <1>3, <1>4, <1>7, <2>1, FailsInv
<1>8. CASE /\ ~Misplaced /\ stage' = "native"
           /\ place' = [place EXCEPT !.wrapper = ReadsWrapper(Target, Standard)]
           /\ UNCHANGED <<compiling, nextField, places, values, fieldResults, messageError>>
  <2>1. WellPlaced(part)
    BY <1>5, <1>6, <1>8 DEF Misplaced, WellPlaced
  <2>2. /\ DOMAIN place' = DOMAIN place /\ place'.at = place.at /\ place'.custom = place.custom
        /\ place'.nested = place.nested
    BY <1>3, <1>8 DEF Custom, NoValue
  <2>3. Custom(part)'
    BY <1>3, <2>2 DEF Custom
  <2>4. Doing(part)'
    BY <1>3, <1>8, <2>1, <2>3 DEF Doing, Target
  <2>5. QED
    BY <1>1, <1>8, <2>4, SamePlaces DEF Working
<1>9. QED
  BY <1>7, <1>8 DEF CheckStandard

\* The rule fields with native checks are taken, or are a fault of the part.
LEMMA NativeInv ==
  ASSUME CompileInv, BuildNative
  PROVE  CompileInv'
<1>1. stage = "native" /\ stage \in Working
  BY DEF BuildNative, Working
<1>2. PICK part \in PartsOf(CurrentField) : Doing(part)
  BY <1>1, UnderWay
<1>3. /\ Target = PlaceOf(part) /\ NeedsPlace(part) /\ Stated(part) # NoRules
      /\ Custom(part) /\ WellPlaced(part)
  BY <1>1, <1>2 DEF Doing
<1>4. /\ PlaceOf(part).at = part.at /\ PlaceOf(part).rules = part.rules /\ Ruled(part)
      /\ DOMAIN PlaceOf(part) = {"at", "kind", "type", "rules"}
      /\ DOMAIN PlaceOf(part).rules = {"ignore", "cel", "standard"}
      /\ DOMAIN Stated(part) = {"name", "set", "known", "items", "keys", "values"}
  BY <1>1, <1>3, UnderWay, PlacesAre
<1>5. Standard = Stated(part) /\ Stated(part) = part.rules.standard
  BY <1>3, <1>4 DEF Standard, Stated
<1>6. CASE ~Compiles(TakenBy) /\ FieldFails("native")
  <2>1. Faulty(part)
    BY <1>3, <1>4, <1>5, <1>6 DEF Faulty, Compiles, TakenBy
  <2>2. QED
    BY <1>1, <1>3, <1>4, <1>6, <2>1, FailsInv
<1>7. CASE /\ Compiles(TakenBy) /\ stage' = "predefined"
           /\ place' = [place EXCEPT !.native = TakenBy]
           /\ places' = [places EXCEPT ![1].rules.standard = Remaining]
           /\ UNCHANGED <<compiling, nextField, values, fieldResults, messageError>>
  <2> DEFINE left == [PlaceOf(part) EXCEPT !.rules.standard = Unread(part)]
  <2>1. Remaining = Unread(part)
    <3>1. Stated(part).set \ (Stated(part).set \cap NativeRules) = Stated(part).set \ NativeRules
      OBVIOUS
    <3>2. QED
      BY <1>5, <3>1 DEF Remaining, TakenBy, Unread
  <2>2. PICK e : e = left /\ e.at = part.at
    <3>1. left.at = part.at
      BY <1>4
    <3> HIDE DEF left
    <3>2. QED
      BY <3>1
  <2>3. /\ places # <<>> /\ IsSeq(places) /\ IsSeq(values) /\ Len(places) \in Nat \ {0}
        /\ DOMAIN places = 1..Len(places) /\ places[1] = PlaceOf(part)
    BY <1>1, <1>3, UnderWay
  <2>4. places' = [places EXCEPT ![1] = e]
    BY <1>7, <2>1, <2>2, <2>3
  <2>5. /\ IsSeq(places') /\ places' # <<>> /\ Target' = e /\ Len(places') = Len(places)
        /\ DOMAIN places' = DOMAIN places /\ places'[1] = e
        /\ \A i \in DOMAIN places : i > 1 => places'[i] = places[i]
        /\ \A i \in DOMAIN places : i > 1 \/ i = 1
    <3>1. \A i \in DOMAIN places : i > 1 \/ i = 1
      BY <2>3
    <3>2. Target' = Head(places')
      BY DEF Target
    <3>3. QED
      BY <2>3, <2>4, <3>1, <3>2, Replaced
  <2>6. /\ CompileTypeOK' /\ ResultsKept' /\ CurrentField' = CurrentField
        /\ values' = values /\ stage' = "predefined"
    BY <1>1, <1>7, <2>3, <2>5, StillWorking DEF Working
  <2>7. \A i \in DOMAIN places : places'[i].at = places[i].at
    BY <1>4, <2>2, <2>3, <2>5
  <2>8. FieldInv
    BY DEF CompileInv
  <2>9. ValuesKept' /\ Apart' /\ Placed'
    <3>1. ValuesKept'
      BY <1>1, <2>6, <2>8 DEF FieldInv, ValuesKept
    <3>2. Apart'
      BY <1>1, <2>5, <2>6, <2>7, <2>8 DEF FieldInv, Apart
    <3>3. Target'.at = Target.at
      BY <1>3, <1>4, <2>2, <2>5
    <3>4. Placed'
      BY <1>1, <2>5, <2>6, <2>7, <2>8, <3>3 DEF FieldInv, Placed
    <3>5. QED
      BY <3>1, <3>2, <3>4
  <2>10. Custom(part)' /\ place'.native = Stated(part).set \cap NativeRules
    <3>1. /\ DOMAIN place' = DOMAIN place /\ place'.at = place.at /\ place'.custom = place.custom
          /\ place'.nested = place.nested /\ place'.native = TakenBy
      BY <1>3, <1>7 DEF Custom, NoValue
    <3>2. QED
      BY <1>3, <1>5, <3>1 DEF Custom, TakenBy
  <2>11. Doing(part)'
    BY <1>3, <1>7, <2>2, <2>5, <2>6, <2>10 DEF Doing, TakenBy
  <2>12. Ahead'
    BY <1>1, <2>5, <2>6, <2>8, <2>11 DEF FieldInv, Ahead
  <2>13. QED
    BY <2>5, <2>6, <2>9, <2>12 DEF CompileInv, FieldInv
<1>8. QED
  BY <1>6, <1>7 DEF BuildNative

\* What is left of the standard rules compiles, or is a fault of the part.
LEMMA PredefinedInv ==
  ASSUME CompileInv, CompilePredefined
  PROVE  CompileInv'
<1>1. stage = "predefined" /\ stage \in Working
  BY DEF CompilePredefined, Working
<1>2. PICK part \in PartsOf(CurrentField) : Doing(part)
  BY <1>1, UnderWay
<1>3. /\ Target = [PlaceOf(part) EXCEPT !.rules.standard = Unread(part)] /\ NeedsPlace(part)
      /\ Stated(part) # NoRules /\ Custom(part) /\ WellPlaced(part)
      /\ place.native = Stated(part).set \cap NativeRules /\ Compiles(place.native)
  BY <1>1, <1>2 DEF Doing
<1>4. /\ PlaceOf(part).at = part.at /\ PlaceOf(part).rules = part.rules /\ Ruled(part)
      /\ DOMAIN PlaceOf(part) = {"at", "kind", "type", "rules"}
      /\ DOMAIN PlaceOf(part).rules = {"ignore", "cel", "standard"}
      /\ DOMAIN Stated(part) = {"name", "set", "known", "items", "keys", "values"}
  BY <1>1, <1>3, UnderWay, PlacesAre
<1>5. Standard = Unread(part) /\ Stated(part) = part.rules.standard /\ Target.at = part.at
  BY <1>3, <1>4 DEF Standard, Stated
<1>6. Standard.set = Stated(part).set \ NativeRules
  BY <1>4, <1>5 DEF Unread
<1> DEFINE rules == Standard.set \cap CelRules
<1>7. CASE ~Compiles(rules) /\ FieldFails("predefined")
  <2>1. part.rules.standard.set \cap (NativeRules \cup CelRules) \cap Broken # {}
    BY <1>5, <1>6, <1>7 DEF Compiles
  <2>2. Faulty(part)
    BY <1>3, <1>4, <1>5, <2>1 DEF Faulty
  <2>3. QED
    BY <1>1, <1>5, <1>7, <2>2, FailsInv
<1>8. CASE /\ Compiles(rules) /\ stage' = "placed"
           /\ place' = [place EXCEPT !.predefined = rules]
           /\ UNCHANGED <<compiling, nextField, places, values, fieldResults, messageError>>
  <2>1. /\ place'.at = place.at /\ place'.custom = place.custom /\ place'.nested = place.nested
        /\ place'.native = place.native /\ place'.predefined = rules
    BY <1>3, <1>8 DEF Custom, NoValue
  <2>2. /\ rules \cap place.native = {}
        /\ rules \cup place.native = Stated(part).set \cap (NativeRules \cup CelRules)
    BY <1>3, <1>6
  <2>3. Stated(part).set \cap (NativeRules \cup CelRules) \cap Broken = {}
    BY <1>3, <1>8, <2>2 DEF Compiles
  <2> HIDE DEF rules
  <2>4. ~Faulty(part)
    BY <1>3, <1>4, <1>5, <2>3 DEF Faulty, Custom, Compiles, WellPlaced
  <2>5. Keeps(place', part)
    BY <1>3, <1>4, <1>5, <2>1, <2>2 DEF Keeps, Custom
  <2>6. Target' = Target /\ Standard' = Standard
    BY <1>8 DEF Target, Standard
  <2>7. Doing(part)'
    BY <1>3, <1>5, <1>8, <2>1, <2>4, <2>5, <2>6 DEF Doing, Validates, Custom
  <2>8. QED
    BY <1>1, <1>8, <2>7, SamePlaces DEF Working
<1>9. QED
  BY <1>7, <1>8 DEF CompilePredefined

----------------------------------------------------------------------------
\* Sequences of at most one element joined to others.
LEMMA Joined ==
  /\ <<>> \o <<>> = <<>>
  /\ \A a : <<>> \o <<a>> = <<a>> /\ <<a>> \o <<>> = <<a>> /\ Append(<<>>, a) = <<a>>
            /\ Tail(<<a>>) = <<>>
  /\ \A s : IsSeq(s) => s \o <<>> = s /\ <<>> \o s = s
<1>1. ASSUME NEW s, IsSeq(s) PROVE s \o <<>> = s /\ <<>> \o s = s
  <2>1. PICK S : s \in Seq(S)
    BY <1>1 DEF IsSeq
  <2>2. QED
    BY <2>1
<1>2. \A a : <<>> \o <<a>> = <<a>> /\ <<a>> \o <<>> = <<a>> /\ Append(<<>>, a) = <<a>>
             /\ Tail(<<a>>) = <<>>
  OBVIOUS
<1>3. <<>> \o <<>> = <<>>
  OBVIOUS
<1>4. QED
  BY <1>1, <1>2, <1>3

\* Two sequences of one element joined.
LEMMA Pair ==
  ASSUME NEW a, NEW b
  PROVE  LET s == <<a>> \o <<b>>
         IN IsSeq(s) /\ Len(s) = 2 /\ DOMAIN s = {1, 2} /\ s[1] = a /\ s[2] = b /\ s # <<>>
<1>1. /\ <<a>> \in Seq({a, b}) /\ <<b>> \in Seq({a, b})
      /\ Len(<<a>>) = 1 /\ Len(<<b>>) = 1 /\ <<a>>[1] = a /\ <<b>>[1] = b
  OBVIOUS
<1> DEFINE s == <<a>> \o <<b>>
<1>2. s \in Seq({a, b}) /\ Len(s) = 2 /\ s[1] = a /\ s[2] = b
  BY <1>1
<1>3. DOMAIN s = 1..2 /\ 1..2 = {1, 2}
  BY <1>2
<1> HIDE DEF s
<1>4. IsSeq(s)
  BY <1>2 DEF IsSeq
<1>5. s # <<>>
  BY <1>2
<1>6. QED
  BY <1>2, <1>3, <1>4, <1>5 DEF s

\* The place of one item.
LEMMA ItemPlaceIs ==
  ASSUME NEW at, at # "field", NEW type, NEW rules
  PROVE  LET item == Item(at, type, rules)
         IN /\ item.at = at /\ PlaceOf(item).at = at
            /\ ItemPlace(item) = IF NeedsPlace(item) THEN <<PlaceOf(item)>> ELSE <<>>
<1> DEFINE item == Item(at, type, rules)
<1>1. item.at = at /\ PlaceOf(item).at = at
  BY DEF Item, PlaceOf
<1> HIDE DEF item
<1>2. NeedsPlace(item) <=> Validated(item)
  BY <1>1 DEF NeedsPlace
<1>3. ItemPlace(item) = IF Validated(item) THEN <<PlaceOf(item)>> ELSE <<>>
  BY DEF ItemPlace, PlaceOf
<1>4. QED
  BY <1>1, <1>2, <1>3 DEF item

\* What remains of the rules of a field without fault says of its items what
\* the options say.
LEMMA RulesRemain ==
  ASSUME NEW f, IsField(f), ~Skips(f), NEW own \in PartsOf(f), own.at = "field", ~Faulty(own),
         NEW std, Stated(own) # NoRules => std = Unread(own),
         Stated(own) = NoRules => std = NoRules,
         NEW name, NEW part \in {"items", "keys", "values"},
         \/ f.kind = "list" /\ name = "repeated"
         \/ f.kind = "map" /\ name = "map"
  PROVE  ItemRules(std, name, part)
           = LET s == IF f.rules = NoRules THEN NoRules ELSE f.rules.standard
             IN IF s # NoRules /\ s.name \in {"repeated", "map"} THEN s[part] ELSE NoRules
<1>1. own = [at |-> "field", kind |-> f.kind, type |-> f.value, rules |-> f.rules]
  <2>1. \A at, type, rules : Item(at, type, rules).at = at
    BY DEF Item
  <2>2. QED
    BY <2>1 DEF PartsOf
<1>2. own.kind = f.kind /\ own.rules = f.rules
  BY <1>1
<1>3. f.rules # NoRules => Stated(own) = f.rules.standard /\ Ruled(own)
  BY <1>2, PlacesAre DEF Stated, NeedsPlace
<1>4. f.rules = NoRules => Stated(own) = NoRules
  BY <1>2, PlacesAre
<1>5. ASSUME Stated(own) # NoRules
      PROVE  /\ Stated(own).name = name /\ std.name = name /\ std[part] = Stated(own)[part]
  <2>1. ExpectedRules(own) = name
    BY <1>2 DEF ExpectedRules
  <2>2. Stated(own).name = name
    BY <1>2, <1>3, <1>4, <1>5, <2>1 DEF Faulty
  <2>3. DOMAIN Stated(own) = {"name", "set", "known", "items", "keys", "values"}
    BY <1>5, PlacesAre
  <2>4. std.name = Stated(own).name /\ std[part] = Stated(own)[part]
    BY <1>5, <2>3 DEF Unread
  <2>5. QED
    BY <2>2, <2>4
<1>6. CASE Stated(own) = NoRules
  BY <1>3, <1>4, <1>6 DEF ItemRules
<1>7. CASE Stated(own) # NoRules
  <2>1. std # NoRules
    <3>1. \A left \in SUBSET Stated(own).set : [Stated(own) EXCEPT !.set = left] # NoRules
      BY <1>3, <1>4, <1>7 DEF IsField, IsRules
    <3>2. Stated(own).set \ NativeRules \in SUBSET Stated(own).set
      OBVIOUS
    <3>3. QED
      BY <1>7, <3>1, <3>2 DEF Unread
  <2>2. QED
    BY <1>3, <1>4, <1>5, <1>7, <2>1 DEF ItemRules
<1>8. QED
  BY <1>6, <1>7

\* The places that come after a field without fault: those of its elems that
\* need one, each once.
LEMMA PlacesInAre ==
  ASSUME NEW f, IsField(f), ~Skips(f), NEW own \in PartsOf(f), own.at = "field", ~Faulty(own),
         NEW std, Stated(own) # NoRules => std = Unread(own),
         Stated(own) = NoRules => std = NoRules
  PROVE  LET s == PlacesIn(f, std)
         IN /\ IsSeq(s) /\ Len(s) \in Nat /\ DOMAIN s = 1..Len(s)
            /\ \A i \in DOMAIN s : \E q \in PartsOf(f) :
                 q.at # "field" /\ NeedsPlace(q) /\ s[i] = PlaceOf(q) /\ s[i].at = q.at
            /\ \A q \in PartsOf(f) : q.at # "field" /\ NeedsPlace(q) =>
                 \E i \in DOMAIN s : s[i] = PlaceOf(q) /\ s[i].at = q.at
            /\ \A i, j \in DOMAIN s : s[i].at = s[j].at => i = j
<1> DEFINE r == IF f.rules = NoRules THEN NoRules ELSE f.rules.standard
           inner(p) == IF r # NoRules /\ r.name \in {"repeated", "map"} THEN r[p] ELSE NoRules
           me == [at |-> "field", kind |-> f.kind, type |-> f.value, rules |-> f.rules]
<1>0. ASSUME NEW name, NEW part \in {"items", "keys", "values"},
             \/ f.kind = "list" /\ name = "repeated"
             \/ f.kind = "map" /\ name = "map"
      PROVE  ItemRules(std, name, part) = inner(part)
  BY <1>0, RulesRemain
<1>1. me.at = "field"
  OBVIOUS
<1>2. CASE f.kind = "singular"
  <2>1. PartsOf(f) = {me} /\ PlacesIn(f, std) = <<>>
    BY <1>2 DEF PartsOf, PlacesIn
  <2> HIDE DEF me
  <2>2. QED
    BY <1>1, <2>1, Short
<1>3. CASE f.kind = "list"
  <2> DEFINE elems == Item("items", f.value, inner("items"))
             s == ItemPlace(elems)
  <2>1. ItemRules(std, "repeated", "items") = inner("items")
    BY <1>0, <1>3
  <2>2. PartsOf(f) = {me, elems}
    BY <1>3 DEF PartsOf
  <2>3. PlacesIn(f, std) = s
    BY <1>3, <2>1 DEF PlacesIn
  <2>4. /\ elems.at = "items" /\ PlaceOf(elems).at = "items"
        /\ s = IF NeedsPlace(elems) THEN <<PlaceOf(elems)>> ELSE <<>>
    BY ItemPlaceIs
  <2> HIDE DEF elems, s, me, inner
  <2>5. CASE NeedsPlace(elems)
    <3>1. s = <<PlaceOf(elems)>> /\ IsSeq(s) /\ Len(s) = 1 /\ DOMAIN s = {1} /\ s[1] = PlaceOf(elems)
      BY <2>4, <2>5, Short
    <3>2. QED
      BY <1>1, <2>2, <2>3, <2>4, <2>5, <3>1
  <2>6. CASE ~NeedsPlace(elems)
    <3>1. IsSeq(s) /\ Len(s) = 0 /\ DOMAIN s = {}
      BY <2>4, <2>6, Short
    <3>2. QED
      BY <1>1, <2>2, <2>3, <2>4, <2>6, <3>1
  <2>7. QED
    BY <2>5, <2>6
<1>4. CASE f.kind = "map"
  <2> DEFINE keys == Item("keys", f.key, inner("keys"))
             vals == Item("values", f.value, inner("values"))
             s == ItemPlace(keys) \o ItemPlace(vals)
  <2>1. /\ ItemRules(std, "map", "keys") = inner("keys")
        /\ ItemRules(std, "map", "values") = inner("values")
    BY <1>0, <1>4
  <2>2. PartsOf(f) = {me, keys, vals}
    BY <1>4 DEF PartsOf
  <2>3. PlacesIn(f, std) = s
    BY <1>4, <2>1 DEF PlacesIn
  <2>4. /\ keys.at = "keys" /\ PlaceOf(keys).at = "keys"
        /\ ItemPlace(keys) = IF NeedsPlace(keys) THEN <<PlaceOf(keys)>> ELSE <<>>
    BY ItemPlaceIs
  <2>5. /\ vals.at = "values" /\ PlaceOf(vals).at = "values"
        /\ ItemPlace(vals) = IF NeedsPlace(vals) THEN <<PlaceOf(vals)>> ELSE <<>>
    BY ItemPlaceIs
  <2>6. s = ItemPlace(keys) \o ItemPlace(vals)
    OBVIOUS
  <2> HIDE DEF keys, vals, s, me, inner
  <2>7. CASE NeedsPlace(keys) /\ NeedsPlace(vals)
    <3>1. s = <<PlaceOf(keys)>> \o <<PlaceOf(vals)>>
      BY <2>4, <2>5, <2>6, <2>7
    <3>2. /\ IsSeq(s) /\ Len(s) = 2 /\ DOMAIN s = {1, 2} /\ DOMAIN s = 1..Len(s)
          /\ s[1] = PlaceOf(keys) /\ s[2] = PlaceOf(vals)
      BY <3>1, Pair
    <3>3. QED
      BY <1>1, <2>2, <2>3, <2>4, <2>5, <2>7, <3>2
  <2>8. CASE NeedsPlace(keys) /\ ~NeedsPlace(vals)
    <3>1. s = <<PlaceOf(keys)>>
      BY <2>4, <2>5, <2>6, <2>8, Joined
    <3>2. IsSeq(s) /\ Len(s) = 1 /\ DOMAIN s = {1} /\ s[1] = PlaceOf(keys)
      BY <3>1, Short
    <3>3. QED
      BY <1>1, <2>2, <2>3, <2>4, <2>5, <2>8, <3>2
  <2>9. CASE ~NeedsPlace(keys) /\ NeedsPlace(vals)
    <3>1. s = <<PlaceOf(vals)>>
      BY <2>4, <2>5, <2>6, <2>9, Joined
    <3>2. IsSeq(s) /\ Len(s) = 1 /\ DOMAIN s = {1} /\ s[1] = PlaceOf(vals)
      BY <3>1, Short
    <3>3. QED
      BY <1>1, <2>2, <2>3, <2>4, <2>5, <2>9, <3>2
  <2>10. CASE ~NeedsPlace(keys) /\ ~NeedsPlace(vals)
    <3>1. s = <<>>
      BY <2>4, <2>5, <2>6, <2>10, Joined
    <3>2. IsSeq(s) /\ Len(s) = 0 /\ DOMAIN s = {}
      BY <3>1, Short
    <3>3. QED
      BY <1>1, <2>2, <2>3, <2>4, <2>5, <2>10, <3>2
  <2>11. QED
    BY <2>7, <2>8, <2>9, <2>10
<1>5. QED
  BY <1>2, <1>3, <1>4 DEF IsField

\* A place is done: of the places and validators that follow, each part that
\* needs a place has one of them, and only one.
Settled(rest, all) ==
  /\ IsSeq(rest) /\ Len(rest) \in Nat /\ DOMAIN rest = 1..Len(rest) /\ IsSeq(all)
  /\ \A i \in DOMAIN rest : \E q \in PartsOf(CurrentField) :
       NeedsPlace(q) /\ rest[i] = PlaceOf(q)
  /\ \A i \in DOMAIN rest : rest[i].at # "field"
  /\ \A i, j \in DOMAIN rest : rest[i].at = rest[j].at => i = j
  /\ \A i, j \in DOMAIN all : all[i].at = all[j].at => i = j
  /\ \A i \in DOMAIN all, j \in DOMAIN rest : all[i].at # rest[j].at
  /\ \A i \in DOMAIN all : \E q \in PartsOf(CurrentField) : Validates(all[i], q)
  /\ \A q \in PartsOf(CurrentField) : NeedsPlace(q) =>
       \/ \E i \in DOMAIN all : all[i].at = q.at
       \/ \E i \in DOMAIN rest : rest[i].at = q.at

\* When a place is done, what follows it is settled.
LEMMA PlaceDone ==
  ASSUME CompileInv, stage = "placed", NEW rest, NEW all, all = Append(values, place),
         rest = Tail(places) \o
                (IF Target.at = "field" THEN PlacesIn(CurrentField, Standard) ELSE <<>>)
  PROVE  Settled(rest, all)
<1>1. stage \in Working
  BY DEF Working
<1>2. /\ IsField(CurrentField) /\ ~Skips(CurrentField)
      /\ places # <<>> /\ IsSeq(places) /\ IsSeq(values)
      /\ Len(places) \in Nat \ {0} /\ DOMAIN places = 1..Len(places) /\ Target = places[1]
  BY <1>1, UnderWay
<1>3. PICK part \in PartsOf(CurrentField) : Doing(part)
  BY <1>1, UnderWay
<1>4. /\ Target.at = part.at /\ Validates(place, part) /\ place.at = part.at
      /\ Stated(part) # NoRules => Standard = Unread(part)
      /\ Stated(part) = NoRules => Standard = NoRules
  BY <1>3 DEF Doing, Validates
<1>5. ValuesKept /\ Apart /\ Placed /\ Ahead
  BY <1>1 DEF CompileInv, FieldInv
<1>a. \A i, j \in DOMAIN places : places[i].at = places[j].at => i = j
  BY <1>5 DEF Apart
<1>b. \A i, j \in DOMAIN values : values[i].at = values[j].at => i = j
  BY <1>5 DEF Apart
<1>c. \A i \in DOMAIN values, j \in DOMAIN places : values[i].at # places[j].at
  BY <1>5 DEF Apart
<1>d. \A i \in DOMAIN places : places[i].at = "field" => Len(places) = 1 /\ values = <<>>
  BY <1>5 DEF Apart
<1>e. 1 \in DOMAIN places /\ places[1].at = place.at
  BY <1>2, <1>4
<1>f. PICK m : m = Len(values) + 1
  OBVIOUS
<1>6. /\ IsSeq(all) /\ m \in DOMAIN all /\ m \notin DOMAIN values /\ all[m] = place
      /\ \A i \in DOMAIN values : i \in DOMAIN all /\ all[i] = values[i]
      /\ \A i \in DOMAIN all : i \in DOMAIN values \/ i = m
  <2>1. /\ IsSeq(all) /\ Len(values) \in Nat /\ DOMAIN values = 1..Len(values)
        /\ DOMAIN all = 1..(Len(values) + 1)
        /\ all[Len(values) + 1] = place /\ \A i \in 1..Len(values) : all[i] = values[i]
    BY <1>2, Added
  <2>2. \A n \in Nat : /\ n + 1 \in 1..(n + 1) /\ n + 1 \notin 1..n /\ 1..n \subseteq 1..(n + 1)
                       /\ \A i \in 1..(n + 1) : i \in 1..n \/ i = n + 1
    OBVIOUS
  <2>3. QED
    BY <1>f, <2>1, <2>2
<1>10. \A i \in DOMAIN values : values[i].at # place.at
  BY <1>c, <1>e
<1>11. \A i, j \in DOMAIN all : all[i].at = all[j].at => i = j
  BY <1>6, <1>10, <1>b
<1>12. \A i \in DOMAIN all : \E q \in PartsOf(CurrentField) : Validates(all[i], q)
  BY <1>4, <1>5, <1>6 DEF ValuesKept
<1>13. /\ IsSeq(Tail(places)) /\ Len(Tail(places)) = Len(places) - 1
       /\ DOMAIN Tail(places) = 1..(Len(places) - 1)
       /\ \A i \in 1..(Len(places) - 1) : Tail(places)[i] = places[i + 1]
  BY <1>2, Remainder
<1>14. CASE Target.at = "field"
  <2>1. Len(places) = 1 /\ values = <<>>
    BY <1>2, <1>d, <1>e, <1>14
  <2>2. Tail(places) = <<>>
    <3>1. PICK S : Tail(places) \in Seq(S)
      BY <1>13 DEF IsSeq
    <3>2. Len(Tail(places)) = 0
      BY <1>13, <2>1
    <3>3. \A t \in Seq(S) : Len(t) = 0 => t = <<>>
      OBVIOUS
    <3>4. QED
      BY <3>1, <3>2, <3>3
  <2>3. part.at = "field" /\ ~Faulty(part)
    BY <1>4, <1>14 DEF Validates
  <2>4. PICK s : s = PlacesIn(CurrentField, Standard)
    OBVIOUS
  <2>5. /\ IsSeq(s) /\ Len(s) \in Nat /\ DOMAIN s = 1..Len(s)
        /\ \A i \in DOMAIN s : \E q \in PartsOf(CurrentField) :
             q.at # "field" /\ NeedsPlace(q) /\ s[i] = PlaceOf(q) /\ s[i].at = q.at
        /\ \A q \in PartsOf(CurrentField) : q.at # "field" /\ NeedsPlace(q) =>
             \E i \in DOMAIN s : s[i] = PlaceOf(q) /\ s[i].at = q.at
        /\ \A i, j \in DOMAIN s : s[i].at = s[j].at => i = j
    BY <1>2, <1>4, <2>3, <2>4, PlacesInAre
  <2>6. rest = s
    BY <1>14, <2>2, <2>4, <2>5, Joined
  <2>7. \A i \in DOMAIN all : all[i].at = "field"
    <3>1. DOMAIN values = {}
      BY <2>1, Short
    <3>2. place.at = "field"
      BY <1>4, <1>14
    <3>3. QED
      BY <1>6, <3>1, <3>2
  <2>8. \A i \in DOMAIN s : s[i].at # "field"
    BY <2>5
  <2>9. \A i \in DOMAIN all, j \in DOMAIN s : all[i].at # s[j].at
    BY <2>7, <2>8
  <2>10. ASSUME NEW q \in PartsOf(CurrentField), NeedsPlace(q)
         PROVE  \/ \E i \in DOMAIN all : all[i].at = q.at
                \/ \E i \in DOMAIN s : s[i].at = q.at
    <3>1. all[m].at = "field" /\ m \in DOMAIN all
      BY <1>6, <2>7
    <3>2. CASE q.at = "field"
      BY <3>1, <3>2
    <3>3. CASE q.at # "field"
      BY <2>5, <2>10, <3>3
    <3>4. QED
      BY <3>2, <3>3
  <2>11. \A i \in DOMAIN s : \E q \in PartsOf(CurrentField) : NeedsPlace(q) /\ s[i] = PlaceOf(q)
    BY <2>5
  <2>12. Settled(s, all)
    BY <1>6, <1>11, <1>12, <2>5, <2>8, <2>9, <2>10, <2>11 DEF Settled
  <2>13. QED
    BY <2>6, <2>12
<1>15. CASE Target.at # "field"
  <2>1. rest = Tail(places)
    BY <1>13, <1>15, Joined
  <2>2. PICK n \in Nat : Len(places) = n + 1
    <3>1. \A n \in Nat \ {0} : n - 1 \in Nat /\ n = (n - 1) + 1
      OBVIOUS
    <3>2. QED
      BY <1>2, <3>1
  <2>3. /\ IsSeq(rest) /\ Len(rest) = n /\ DOMAIN rest = 1..n
        /\ \A i \in 1..n : rest[i] = places[i + 1]
    <3>1. (n + 1) - 1 = n
      OBVIOUS
    <3>2. QED
      BY <1>13, <2>1, <2>2, <3>1
  <2>4. \A i \in DOMAIN rest :
          i + 1 \in DOMAIN places /\ i + 1 > 1 /\ i + 1 # 1 /\ rest[i] = places[i + 1]
    <3>1. \A i \in 1..n : i + 1 \in 1..(n + 1) /\ i + 1 > 1 /\ i + 1 # 1
      OBVIOUS
    <3>2. QED
      BY <1>2, <2>2, <2>3, <3>1
  <2>5. \A i \in DOMAIN places : i # 1 => \E j \in DOMAIN rest : rest[j] = places[i]
    <3>1. \A i \in 1..(n + 1) : i # 1 => i - 1 \in 1..n /\ (i - 1) + 1 = i
      OBVIOUS
    <3>2. ASSUME NEW i \in DOMAIN places, i # 1 PROVE \E j \in DOMAIN rest : rest[j] = places[i]
      <4>1. i - 1 \in DOMAIN rest /\ (i - 1) + 1 = i
        BY <1>2, <2>2, <2>3, <3>1, <3>2
      <4>2. rest[i - 1] = places[i]
        BY <2>3, <4>1
      <4>3. QED
        BY <4>1, <4>2
    <3>3. QED
      BY <3>2
  <2>6. \A i \in DOMAIN rest : \E q \in PartsOf(CurrentField) :
          NeedsPlace(q) /\ rest[i] = PlaceOf(q)
    BY <1>5, <2>4 DEF Ahead
  <2>7. \A i \in DOMAIN rest : rest[i].at # "field"
    <3>1. \A i \in 1..n : n + 1 # 1
      OBVIOUS
    <3>2. QED
      BY <1>d, <2>2, <2>3, <2>4, <3>1
  <2>8. \A i, j \in DOMAIN rest : rest[i].at = rest[j].at => i = j
    <3>1. \A i, j \in 1..n : i + 1 = j + 1 => i = j
      OBVIOUS
    <3>2. ASSUME NEW i \in DOMAIN rest, NEW j \in DOMAIN rest, rest[i].at = rest[j].at
          PROVE  i = j
      <4>1. /\ i + 1 \in DOMAIN places /\ rest[i] = places[i + 1]
            /\ j + 1 \in DOMAIN places /\ rest[j] = places[j + 1]
        BY <2>4
      <4>2. places[i + 1].at = places[j + 1].at
        BY <3>2, <4>1
      <4>3. i + 1 = j + 1
        BY <1>a, <4>1, <4>2
      <4>4. i \in 1..n /\ j \in 1..n
        BY <2>3
      <4>5. QED
        BY <3>1, <4>3, <4>4
    <3>3. QED
      BY <3>2
  <2>9. \A j \in DOMAIN rest : place.at # rest[j].at
    BY <1>a, <1>e, <2>4
  <2>10. \A i \in DOMAIN values, j \in DOMAIN rest : values[i].at # rest[j].at
    BY <1>c, <2>4
  <2>11. \A i \in DOMAIN all, j \in DOMAIN rest : all[i].at # rest[j].at
    <3>1. ASSUME NEW i \in DOMAIN all, NEW j \in DOMAIN rest PROVE all[i].at # rest[j].at
      <4>1. CASE i = m
        BY <1>6, <2>9, <4>1
      <4>2. CASE i \in DOMAIN values
        <5>1. all[i] = values[i]
          BY <1>6, <4>2
        <5>2. QED
          BY <2>10, <4>2, <5>1
      <4>3. QED
        BY <1>6, <4>1, <4>2
    <3>2. QED
      BY <3>1
  <2>12. ASSUME NEW q \in PartsOf(CurrentField), NeedsPlace(q)
         PROVE  \/ \E i \in DOMAIN all : all[i].at = q.at
                \/ \E i \in DOMAIN rest : rest[i].at = q.at
    <3>1. \/ \E i \in DOMAIN values : values[i].at = q.at
          \/ \E i \in DOMAIN places : places[i].at = q.at
      BY <1>5, <1>15, <2>12 DEF Placed
    <3>2. CASE \E i \in DOMAIN values : values[i].at = q.at
      BY <1>6, <3>2
    <3>3. CASE \E i \in DOMAIN places : places[i].at = q.at
      <4>1. PICK i \in DOMAIN places : places[i].at = q.at
        BY <3>3
      <4>2. CASE i = 1
        <5>1. all[m].at = q.at /\ m \in DOMAIN all
          BY <1>6, <1>e, <4>1, <4>2
        <5>2. QED
          BY <5>1
      <4>3. CASE i # 1
        BY <2>5, <4>1, <4>3
      <4>4. QED
        BY <4>2, <4>3
    <3>4. QED
      BY <3>1, <3>2, <3>3
  <2>13. Len(rest) \in Nat /\ DOMAIN rest = 1..Len(rest)
    BY <2>3
  <2>14. QED
    BY <1>6, <1>11, <1>12, <2>3, <2>6, <2>7, <2>8, <2>11, <2>12, <2>13 DEF Settled
<1>16. QED
  BY <1>14, <1>15

\* The validators of a field that is done are those its parts need.
LEMMA FieldKept ==
  ASSUME CompileInv, stage \in Working, NEW all, Settled(<<>>, all),
         NEW r, r.error = <<>>, r.values = all
  PROVE  Keeping(r, CurrentField)
<1>1. IsField(CurrentField)
  BY UnderWay
<1>2. ASSUME NEW q \in PartsOf(CurrentField), NEW i \in DOMAIN all, all[i].at = q.at
      PROVE  Validates(all[i], q)
  <2>1. PICK p \in PartsOf(CurrentField) : Validates(all[i], p)
    BY DEF Settled
  <2>2. p.at = q.at
    BY <1>2, <2>1 DEF Validates
  <2>3. p = q
    BY <1>1, <2>2, PartsAre
  <2>4. QED
    BY <2>1, <2>3
<1>3. ASSUME NEW q \in PartsOf(CurrentField)
      PROVE  LET at == {i \in DOMAIN r.values : r.values[i].at = q.at}
             IN /\ ~Faulty(q)
                /\ Cardinality(at) <= 1
                /\ Ruled(q) => at # {}
                /\ q.kind = "singular" /\ IsMessageType(q.type) /\ q.rules = NoRules => at # {}
                /\ \A i \in at : Keeps(r.values[i], q)
  <2> DEFINE at == {i \in DOMAIN r.values : r.values[i].at = q.at}
  <2>1. \A i : i \in at <=> i \in DOMAIN all /\ all[i].at = q.at
    OBVIOUS
  <2> HIDE DEF at
  <2>2. \A i \in at : Validates(r.values[i], q)
    BY <1>2, <2>1
  <2>3. \A i, j \in at : i = j
    BY <2>1 DEF Settled
  <2>4. Cardinality(at) <= 1
    <3>1. CASE at = {}
      BY <3>1, FS_EmptySet
    <3>2. CASE at # {}
      <4>1. PICK i : i \in at
        BY <3>2
      <4>2. at = {i}
        BY <2>3, <4>1
      <4>3. QED
        <5>1. Cardinality({i}) = 1
          BY FS_Singleton
        <5>2. QED
          BY <4>2, <5>1
    <3>3. QED
      BY <3>1, <3>2
  <2>5. CASE NeedsPlace(q)
    <3>1. \E i \in DOMAIN all : all[i].at = q.at
      <4>1. DOMAIN <<>> = {}
        BY Short
      <4>2. QED
        BY <2>5, <4>1 DEF Settled
    <3>2. at # {}
      BY <2>1, <3>1
    <3>3. ~Faulty(q) /\ \A i \in at : Keeps(r.values[i], q)
      BY <2>2, <3>2 DEF Validates
    <3>4. QED
      BY <2>4, <3>2, <3>3 DEF at
  <2>6. CASE ~NeedsPlace(q)
    <3>1. ~Ruled(q) /\ ~Faulty(q) /\ ~(IsMessageType(q.type) /\ q.rules = NoRules)
      BY <1>1, <2>6, Faultless
    <3>2. \A i \in at : Keeps(r.values[i], q)
      BY <2>2 DEF Validates
    <3>3. QED
      BY <2>4, <3>1, <3>2 DEF at
  <2>7. QED
    BY <2>5, <2>6
<1>4. QED
  BY <1>3 DEF Keeping

\* A place is done, and its field with it if it was the last.
LEMMA EndPlaceInv ==
  ASSUME CompileInv, EndPlace
  PROVE  CompileInv'
<1>1. stage = "placed" /\ stage \in Working
  BY DEF EndPlace, Working
<1>2. PICK rest, all :
        /\ rest = Tail(places) \o
                    (IF Target.at = "field" THEN PlacesIn(CurrentField, Standard) ELSE <<>>)
        /\ all = Append(values, place)
  OBVIOUS
<1>3. /\ values' = all /\ places' = rest /\ UNCHANGED <<compiling, nextField>>
      /\ \/ rest # <<>> /\ stage' = "custom" /\ UNCHANGED fieldResults
         \/ /\ rest = <<>> /\ stage' = "field"
            /\ fieldResults' = Append(fieldResults,
                 [field |-> CurrentField.name, error |-> <<>>, values |-> all])
  BY <1>2 DEF EndPlace
<1>4. Settled(rest, all)
  BY <1>1, <1>2, PlaceDone
<1>5. CASE rest # <<>>
  <2>1. stage' = "custom" /\ stage' \in Working /\ UNCHANGED fieldResults
    BY <1>3, <1>5 DEF Working
  <2>2. CompileTypeOK' /\ ResultsKept' /\ CurrentField' = CurrentField
    BY <1>1, <1>3, <1>4, <2>1, StillWorking DEF Settled
  <2>3. Target' = rest[1] /\ 1 \in DOMAIN rest
    <3>1. 1 \in 1..Len(rest) /\ Head(rest) = rest[1] /\ DOMAIN rest = 1..Len(rest)
      BY <1>4, <1>5, Remainder DEF Settled
    <3>2. QED
      BY <1>3, <3>1 DEF Target
  <2>4. ValuesKept'
    BY <1>3, <1>4, <2>2 DEF Settled, ValuesKept
  <2>5. Apart'
    BY <1>3, <1>4 DEF Settled, Apart
  <2>6. Placed'
    BY <1>3, <1>4, <2>2 DEF Settled, Placed
  <2>7. Ahead'
    <3>1. PICK q \in PartsOf(CurrentField) : NeedsPlace(q) /\ rest[1] = PlaceOf(q)
      BY <1>4, <2>3 DEF Settled
    <3>2. Doing(q)'
      BY <2>1, <2>3, <3>1 DEF Doing
    <3>3. QED
      BY <1>3, <1>4, <2>2, <3>2 DEF Settled, Ahead
  <2>8. QED
    BY <1>3, <1>5, <2>2, <2>4, <2>5, <2>6, <2>7 DEF CompileInv, FieldInv
<1>6. CASE rest = <<>>
  <2> DEFINE r == [field |-> CurrentField.name, error |-> <<>>, values |-> all]
  <2>1. /\ stage' = "field" /\ fieldResults' = Append(fieldResults, r)
        /\ r.field = CurrentField.name /\ r.error = <<>> /\ r.values = all
    BY <1>3, <1>6
  <2> HIDE DEF r
  <2>2. Keeping(r, CurrentField)
    BY <1>1, <1>4, <1>6, <2>1, FieldKept
  <2>3. CompileTypeOK /\ ResultsKept
    BY DEF CompileInv
  <2>4. ResultsKept'
    BY <1>1, <1>3, <2>1, <2>2, <2>3, ResultAdded
  <2>5. IsSeq(fieldResults') /\ IsSeq(places') /\ IsSeq(values')
    BY <1>3, <1>4, <2>1, <2>3, Added DEF CompileTypeOK, Settled
  <2>6. CompileTypeOK'
    BY <1>3, <2>1, <2>3, <2>5 DEF CompileTypeOK, Working, Stages
  <2>7. QED
    BY <2>1, <2>4, <2>6 DEF CompileInv, FieldInv, Working
<1>7. QED
  BY <1>5, <1>6

\* Every step keeps the invariant.
LEMMA CompileStepInv == CompileInv /\ [CompileNext]_compileVars => CompileInv'
<1> SUFFICES ASSUME CompileInv, [CompileNext]_compileVars PROVE CompileInv'
  OBVIOUS
<1>1. CASE CompileOneofs \/ CompileMessageCel \/ EndMessage
  BY <1>1, MessageInv
<1>2. CASE SkipField
  BY <1>2, SkipFieldInv
<1>3. CASE BeginField
  BY <1>3, BeginFieldInv
<1>4. CASE CompileCustom
  BY <1>4, CustomInv
<1>5. CASE CheckStandard
  BY <1>5, StandardInv
<1>6. CASE BuildNative
  BY <1>6, NativeInv
<1>7. CASE CompilePredefined
  BY <1>7, PredefinedInv
<1>8. CASE EndPlace
  BY <1>8, EndPlaceInv
<1>9. CASE UNCHANGED compileVars
  <2>1. /\ compiling' = compiling /\ nextField' = nextField /\ places' = places /\ place' = place
        /\ stage' = stage /\ values' = values /\ fieldResults' = fieldResults
    BY <1>9 DEF compileVars
  <2>2. CompileTypeOK'
    BY <2>1 DEF CompileInv, CompileTypeOK, CurrentField
  <2>3. ResultsKept'
    BY <2>1 DEF CompileInv, ResultsKept, Behind, Passed, Rank
  <2>4. \A part : Doing(part)' <=> Doing(part)
    BY <2>1 DEF Doing, Target, Standard, Custom
  <2>5. FieldInv'
    BY <2>1, <2>4
    DEF CompileInv, FieldInv, ValuesKept, Apart, Placed, Ahead, CurrentField, Target
  <2>6. QED
    BY <2>2, <2>3, <2>5 DEF CompileInv
<1>10. QED
  BY <1>1, <1>2, <1>3, <1>4, <1>5, <1>6, <1>7, <1>8, <1>9 DEF CompileNext

\* The invariant holds of every reachable state.
LEMMA CompileInvariant == CompileSpec => []CompileInv
<1>1. QED
  BY CompileInitInv, CompileStepInv, PTL DEF CompileSpec

\* When the message is compiled, every field is behind.
LEMMA AllKept == CompileInv => RulesKept
<1> SUFFICES ASSUME CompileInv, stage = "compiled" PROVE RulesKept
  BY DEF RulesKept
<1> DEFINE kept == {i \in DOMAIN compiling.fields : ~Skips(compiling.fields[i])}
           rank(i) == Cardinality({j \in kept : j <= i})
<1>1. CompileTypeOK /\ ResultsKept
  BY DEF CompileInv
<1>2. /\ Len(compiling.fields) \in Nat /\ DOMAIN compiling.fields = 1..Len(compiling.fields)
  BY <1>1, Counted
<1>3. Behind = Len(compiling.fields)
  BY <1>1 DEF CompileTypeOK, Behind, Working
<1>4. Passed(Behind) = kept
  BY <1>2, <1>3 DEF Passed
<1>5. \A i : rank(i) = Rank(i)
  <2>1. \A i : {j \in kept : j <= i} = Passed(i)
    BY DEF Passed
  <2>2. QED
    BY <2>1 DEF Rank
<1> HIDE DEF kept
<1>6. Len(fieldResults) = Cardinality(kept)
  BY <1>1, <1>4 DEF ResultsKept
<1>7. \A i \in kept :
        /\ fieldResults[Rank(i)].field = compiling.fields[i].name
        /\ Keeping(fieldResults[Rank(i)], compiling.fields[i])
  BY <1>1, <1>4 DEF ResultsKept
<1> HIDE DEF rank
<1>8. \A i \in kept :
        /\ fieldResults[rank(i)].field = compiling.fields[i].name
        /\ Keeping(fieldResults[rank(i)], compiling.fields[i])
  BY <1>5, <1>7
<1>9. QED
  BY <1>6, <1>8 DEF RulesKept, kept, rank

\* Whatever a message's options say and wherever they say it, a compiled message
\* validates each of their rules once, and has an error for the fields with a
\* fault in one of their parts, and for no other.
THEOREM RulesKeptAlways == CompileSpec => []RulesKept
<1>1. QED
  BY CompileInvariant, AllKept, PTL
=============================================================================
