---------------------------- MODULE ChecksProofs ----------------------------
(***************************************************************************)
(* Proofs about StandardChecks, for any rules messages, values, width of   *)
(* the totals and readings of the clock.  A list of checks stands for a    *)
(* set of rule ids: no id has two checks, each check reports what the      *)
(* expression of its id does, and the expression of an id without a check  *)
(* is never false.  What is built stands for all ids; then each id is      *)
(* either still to be checked or answered for.                             *)
(*                                                                         *)
(* Then about TextChecks, for any rules messages, values, characters and   *)
(* formats.  What a prefix, a suffix, a window or a mask finds occurs in   *)
(* the sense of validate.proto; each check finds wrong what the expression *)
(* with its id does; and the checks are built in the order of their ranks, *)
(* the places validate.proto declares their rules at.  So of the checks    *)
(* that are left none is before one that was run, and an id is reported    *)
(* if its expression finds something wrong and it is not left.             *)
(***************************************************************************)
EXTENDS StandardChecks, TextChecks,
        SequenceTheorems, FiniteSetTheorems, WellFoundedInduction, TLAPS

Comparable == Int \cup {NaN}
Timed == {"duration", "timestamp"}

\* Products of natural numbers are natural numbers.
LEMMA ProductIsNat ==
  ASSUME NEW a \in Nat, NEW b \in Nat
  PROVE  a * b \in Nat
OBVIOUS

\* Seconds and nanoseconds of any signs that their types hold make a total that
\* the type of total nanoseconds holds.
LEMMA TotalsFit ==
  ASSUME NEW t \in Times
  PROVE  t.seconds * PerSecond + t.nanos \in -Wide..(Wide - 1)
<1>1. PICK s, n, p, a, b : s = t.seconds /\ n = t.nanos /\ p = PerSecond /\ a = MaxSecond /\ b = MaxNano
  OBVIOUS
<1>2. /\ s \in Int /\ n \in Int /\ p \in Nat \ {0} /\ a \in Nat /\ b \in Nat
      /\ -a - 1 <= s /\ s <= a /\ -b - 1 <= n /\ n <= b
  BY <1>1, WidthAssumption DEF Times
<1>3. (a - s) * p \in Nat /\ (s + a + 1) * p \in Nat
  BY <1>2, ProductIsNat
<1>4. s * p <= a * p /\ -((a + 1) * p) <= s * p
  BY <1>2, <1>3
<1>5. Wide \in Nat /\ (a + 1) * p + b + 1 <= Wide /\ a * p + p = (a + 1) * p
  BY <1>1, <1>2, WidthAssumption
<1>6. s * p \in Int /\ a * p \in Int /\ (a + 1) * p \in Int
  BY <1>2
<1>7. -Wide <= s * p + n /\ s * p + n <= Wide - 1
  <2>1. PICK x, y, z : x = s * p /\ y = a * p /\ z = (a + 1) * p
    OBVIOUS
  <2> QED
    BY <1>2, <1>4, <1>5, <1>6, <2>1
<1> QED
  BY <1>1, <1>2, <1>5, <1>6, <1>7

\* A total that the type of nanoseconds holds is not changed by its width.
LEMMA WrapIsExact ==
  ASSUME NEW n \in -Wide..(Wide - 1)
  PROVE  Wrap(n) = n
<1>1. Wide \in Nat \ {0}
  BY WidthAssumption
<1>2. PICK K : K = 2 * Wide
  OBVIOUS
<1>3. PICK m : m = n + Wide
  OBVIOUS
<1>4. K \in Nat \ {0} /\ m \in 0..(K - 1) /\ m - Wide = n
  BY <1>1, <1>2, <1>3
<1>5. m % K = m
  BY <1>4
<1> QED
  BY <1>1, <1>2, <1>3, <1>4, <1>5 DEF Wrap

\* A value of a kind is compared as CEL compares it; that of a time is a number.
LEMMA ComparedIsExact ==
  ASSUME NEW kind, NEW v \in ValuesOf(kind)
  PROVE  /\ Compared(kind, v) = Exact(kind, v)
         /\ Exact(kind, v) \in Comparable
         /\ kind \in Timed => Exact(kind, v) \in Int
<1>1. CASE kind \in Timed
  <2>1. v \in Times /\ v.seconds * PerSecond + v.nanos \in -Wide..(Wide - 1)
    BY <1>1, TotalsFit DEF ValuesOf, Timed
  <2>2. PICK n : n = v.seconds * PerSecond + v.nanos
    OBVIOUS
  <2>3. Wrap(n) = n
    BY <2>1, <2>2, WrapIsExact
  <2>4. n \in Int
    BY <2>1, <2>2, WidthAssumption DEF Times
  <2> QED
    BY <1>1, <2>2, <2>3, <2>4 DEF Compared, Exact, TotalNanos, Timed, Comparable
<1>2. CASE kind \notin Timed
  BY <1>2 DEF ValuesOf, Compared, Exact, Timed, Comparable
<1> QED
  BY <1>1, <1>2

\* The ids of a bound or a pair of bounds, and those of the other rules.
BoundIds ==
  {<<f>> : f \in {"lt", "lte", "gt", "gte"}}
  \cup {<<lo, hi>> : lo \in {"gt", "gte"}, hi \in {"lt", "lte"}}
  \cup {<<lo, hi, "exclusive">> : lo \in {"gt", "gte"}, hi \in {"lt", "lte"}}
LoneIds == {<<f>> : f \in {"const", "in", "not_in", "finite", "lt_now", "gt_now", "within"}}
HeldBy(kind) == IF kind \in Timed THEN Int ELSE Comparable

\* A rule id is one of bounds or one of another rule, never both.
LEMMA IdsAreTwoFamilies ==
  /\ Ids = BoundIds \cup LoneIds
  /\ BoundIds \cap LoneIds = {}
<1>1. ToSet(DeclaredFields) = {"const", "lt", "lte", "lt_now", "gt", "gte", "gt_now",
                               "in", "not_in", "finite", "within"}
  <2>1. DOMAIN DeclaredFields = 1..11
    BY DEF DeclaredFields
  <2>2. DeclaredFields[1] = "const" /\ DeclaredFields[2] = "lt" /\ DeclaredFields[3] = "lte"
        /\ DeclaredFields[4] = "lt_now" /\ DeclaredFields[5] = "gt" /\ DeclaredFields[6] = "gte"
        /\ DeclaredFields[7] = "gt_now" /\ DeclaredFields[8] = "in" /\ DeclaredFields[9] = "not_in"
        /\ DeclaredFields[10] = "finite" /\ DeclaredFields[11] = "within"
    BY DEF DeclaredFields
  <2>3. 1..11 = {1, 2, 3, 4, 5, 6, 7, 8, 9, 10, 11}
    OBVIOUS
  <2> QED
    BY <2>1, <2>2, <2>3 DEF ToSet
<1>2. Ids = BoundIds \cup LoneIds
  BY <1>1 DEF Ids, BoundIds, LoneIds
<1>3. BoundIds \cap LoneIds = {}
  BY DEF BoundIds, LoneIds
<1> QED
  BY <1>2, <1>3

\* Of an id of bounds the expressions say what those of bounds do.
LEMMA CelOfBounds ==
  ASSUME NEW r, NEW v, NEW now, NEW id \in BoundIds
  PROVE  CelFails(id, r, v, now) <=> CelBound(r, v, id)
BY DEF CelFails, BoundIds

\* The expressions of bounds have ids of bounds.
LEMMA BoundIdsOnly ==
  ASSUME NEW r, NEW v, NEW id, CelBound(r, v, id)
  PROVE  id \in BoundIds
BY DEF CelBound, BoundIds, HasUpper, HasLower

\* What the expression of each other id says.
LEMMA CelOfOthers ==
  ASSUME NEW r, NEW v, NEW now
  PROVE  /\ CelFails(<<"const">>, r, v, now) <=>
              r.const # Unset /\ (v = NaN \/ v # Exact(r.kind, r.const))
         /\ CelFails(<<"in">>, r, v, now) <=> r.in # {} /\ ~CelIn(r.kind, v, r.in)
         /\ CelFails(<<"not_in">>, r, v, now) <=> CelIn(r.kind, v, r.notIn)
         /\ CelFails(<<"finite">>, r, v, now) <=> r.finite /\ (v = NaN \/ v \in Infinite)
         /\ CelFails(<<"lt_now">>, r, v, now) <=> r.upper.field = "lt_now" /\ now < v
         /\ CelFails(<<"gt_now">>, r, v, now) <=> r.lower.field = "gt_now" /\ v < now
         /\ CelFails(<<"within">>, r, v, now) <=>
              /\ r.within # Unset
              /\ v < now - Exact("duration", r.within) \/ now + Exact("duration", r.within) < v
<1>1. \A id \in LoneIds : ~CelBound(r, v, id)
  BY BoundIdsOnly, IdsAreTwoFamilies
<1>2. /\ <<"const">> \in LoneIds /\ <<"in">> \in LoneIds /\ <<"not_in">> \in LoneIds
      /\ <<"finite">> \in LoneIds /\ <<"lt_now">> \in LoneIds /\ <<"gt_now">> \in LoneIds
      /\ <<"within">> \in LoneIds
  BY DEF LoneIds
<1> QED
  BY <1>1, <1>2 DEF CelFails

\* A check reports what the expression of its id would.
Means(c, r) ==
  \A v \in HeldBy(r.kind), now \in Int : Fails(c, v, now) <=> CelFails(c.id, r, v, now)

\* The parts of a rules message of a kind.
LEMMA Parts ==
  ASSUME NEW kind, NEW r \in RulesOf(kind)
  PROVE  /\ r.kind = kind
         /\ r.const \in ValuesOf(r.kind) \cup {Unset}
         /\ r.in \subseteq ValuesOf(r.kind) /\ r.notIn \subseteq ValuesOf(r.kind)
         /\ r.within \in ValuesOf("duration") \cup {Unset}
         /\ HasUpper(r) => r.upper.value \in ValuesOf(r.kind)
         /\ HasLower(r) => r.lower.value \in ValuesOf(r.kind)
         /\ r.lower.field \in {"gt", "gte", "gt_now", "none"}
         /\ r.upper.field \in {"lt", "lte", "lt_now", "none"}
         /\ r.finite \in BOOLEAN
         /\ r.kind # "timestamp" =>
              r.upper.field # "lt_now" /\ r.lower.field # "gt_now" /\ r.within = Unset
BY DEF RulesOf

\* A time is a number.
LEMMA NotNaN ==
  ASSUME NEW r, NEW v \in HeldBy(r.kind), r.kind \in Timed
  PROVE  v # NaN
BY NumberAssumption DEF HeldBy

\* `const' reports what its expression would.
LEMMA ConstMeans ==
  ASSUME NEW kind, NEW r \in RulesOf(kind), r.const # Unset
  PROVE  Means(Check(<<"const">>, "const", Compared(r.kind, r.const)), r)
<1>1. Compared(r.kind, r.const) = Exact(r.kind, r.const)
  BY Parts, ComparedIsExact
<1> QED
  BY <1>1, CelOfOthers DEF Means, Check, Fails, OrderedFails

\* A value is among the compared ones if CEL has it in the list.
LEMMA ComparedLists ==
  ASSUME NEW kind, NEW r \in RulesOf(kind), NEW v, v # NaN
  PROVE  /\ v \in {Compared(r.kind, w) : w \in r.in} <=> CelIn(r.kind, v, r.in)
         /\ v \in {Compared(r.kind, w) : w \in r.notIn} <=> CelIn(r.kind, v, r.notIn)
<1>1. \A w \in r.in \cup r.notIn : Compared(r.kind, w) = Exact(r.kind, w)
  BY Parts, ComparedIsExact
<1> QED
  BY <1>1 DEF CelIn

\* `in' and `not_in' report what their expressions would.
LEMMA ListsMean ==
  ASSUME NEW kind, NEW r \in RulesOf(kind)
  PROVE  /\ r.in # {} => Means(Check(<<"in">>, "in", {Compared(r.kind, w) : w \in r.in}), r)
         /\ Means(Check(<<"not_in">>, "not_in", {Compared(r.kind, w) : w \in r.notIn}), r)
<1>1. PICK S : S = {Compared(r.kind, w) : w \in r.in}
  OBVIOUS
<1>2. PICK T : T = {Compared(r.kind, w) : w \in r.notIn}
  OBVIOUS
<1>3. \A v : v # NaN => /\ v \in S <=> CelIn(r.kind, v, r.in)
                       /\ (v \in T <=> CelIn(r.kind, v, r.notIn))
  BY <1>1, <1>2, ComparedLists
<1>4. ~CelIn(r.kind, NaN, r.in) /\ ~CelIn(r.kind, NaN, r.notIn)
  BY DEF CelIn
<1>5. r.in # {} => Means(Check(<<"in">>, "in", S), r)
  BY <1>3, <1>4, CelOfOthers DEF Means, Check, Fails, OrderedFails
<1>6. Means(Check(<<"not_in">>, "not_in", T), r)
  BY <1>3, <1>4, CelOfOthers DEF Means, Check, Fails, OrderedFails
<1> QED
  BY <1>1, <1>2, <1>5, <1>6

\* `finite' reports what its expression would.
LEMMA FiniteMeans ==
  ASSUME NEW kind, NEW r \in RulesOf(kind), r.finite
  PROVE  Means(Check(<<"finite">>, "finite", Infinite), r)
BY CelOfOthers DEF Means, Check, Fails, OrderedFails

\* The clock rules report what their expressions would at the same instant.
LEMMA ClockMeans ==
  ASSUME NEW kind, NEW r \in RulesOf(kind)
  PROVE  /\ r.upper.field = "lt_now" => Means(Check(<<"lt_now">>, "lt_now", 0), r)
         /\ r.lower.field = "gt_now" => Means(Check(<<"gt_now">>, "gt_now", 0), r)
         /\ r.within # Unset => Means(Check(<<"within">>, "within", TotalNanos(r.within)), r)
<1>1. r.upper.field = "lt_now" \/ r.lower.field = "gt_now" \/ r.within # Unset
        => \A v \in HeldBy(r.kind) : v # NaN
  BY Parts, NotNaN DEF Timed
<1>2. r.upper.field = "lt_now" => Means(Check(<<"lt_now">>, "lt_now", 0), r)
  BY <1>1, CelOfOthers DEF Means, Check, Fails, OrderedFails
<1>3. r.lower.field = "gt_now" => Means(Check(<<"gt_now">>, "gt_now", 0), r)
  BY <1>1, CelOfOthers DEF Means, Check, Fails, OrderedFails
<1>4. ASSUME r.within # Unset
      PROVE  Means(Check(<<"within">>, "within", TotalNanos(r.within)), r)
  <2>1. TotalNanos(r.within) = Exact("duration", r.within)
    <3>1. r.within \in ValuesOf("duration")
      BY <1>4, Parts
    <3>2. Compared("duration", r.within) = Exact("duration", r.within)
      BY <3>1, ComparedIsExact
    <3> QED
      BY <3>2 DEF Compared
  <2> QED
    BY <1>1, <1>4, <2>1, CelOfOthers DEF Means, Check, Fails, OrderedFails
<1> QED
  BY <1>2, <1>3, <1>4

\* A value is beyond a side if it is beyond the bound as CEL compares it.
LEMMA SidesMean ==
  ASSUME NEW kind, NEW r \in RulesOf(kind), NEW v
  PROVE  /\ HasUpper(r) => /\ Side(r.kind, r.upper).value = Exact(r.kind, r.upper.value)
                           /\ TooHigh(Side(r.kind, r.upper), v) <=>
                                IF r.upper.field = "lt" THEN LessEq(Exact(r.kind, r.upper.value), v)
                                ELSE Less(Exact(r.kind, r.upper.value), v)
         /\ HasLower(r) => /\ Side(r.kind, r.lower).value = Exact(r.kind, r.lower.value)
                           /\ TooLow(Side(r.kind, r.lower), v) <=>
                                IF r.lower.field = "gt" THEN LessEq(v, Exact(r.kind, r.lower.value))
                                ELSE Less(v, Exact(r.kind, r.lower.value))
<1>1. HasUpper(r) => Compared(r.kind, r.upper.value) = Exact(r.kind, r.upper.value)
  BY Parts, ComparedIsExact
<1>2. HasLower(r) => Compared(r.kind, r.lower.value) = Exact(r.kind, r.lower.value)
  BY Parts, ComparedIsExact
<1> QED
  BY <1>1, <1>2 DEF Side, TooHigh, TooLow, HasUpper, HasLower

\* The id of a pair of bounds is that of the one expression with these bounds.
LEMMA BoundsMean ==
  ASSUME NEW kind, NEW r \in RulesOf(kind), NEW c \in ToSet(BoundChecks(r))
  PROVE  c.id \in BoundIds /\ Means(c, r)
<1> DEFINE lo == Side(r.kind, r.lower)
           hi == Side(r.kind, r.upper)
           low == Exact(r.kind, r.lower.value)
           up == Exact(r.kind, r.upper.value)
<1>1. CASE HasLower(r) /\ ~HasUpper(r)
  <2>1. c = Check(<<r.lower.field>>, "lower", [lower |-> lo])
    BY <1>1 DEF BoundChecks, ToSet
  <2>2. c.id = <<r.lower.field>> /\ c.op = "lower" /\ c.arg.lower = lo
    BY <2>1 DEF Check
  <2>3. c.id \in BoundIds
    BY <1>1, <2>2 DEF HasLower, BoundIds
  <2>4. ASSUME NEW v \in HeldBy(r.kind), NEW now \in Int
        PROVE  Fails(c, v, now) <=> CelBound(r, v, c.id)
    <3>1. Fails(c, v, now) <=> v = NaN \/ TooLow(lo, v)
      BY <2>2 DEF Fails, OrderedFails
    <3>2. CelBound(r, v, c.id) <=> v = NaN \/ TooLow(lo, v)
      BY <1>1, <2>2, SidesMean DEF CelBound
    <3> QED
      BY <3>1, <3>2
  <2> QED
    BY <2>3, <2>4, CelOfBounds DEF Means
<1>2. CASE HasUpper(r) /\ ~HasLower(r)
  <2>1. c = Check(<<r.upper.field>>, "upper", [upper |-> hi])
    BY <1>2 DEF BoundChecks, ToSet
  <2>2. c.id = <<r.upper.field>> /\ c.op = "upper" /\ c.arg.upper = hi
    BY <2>1 DEF Check
  <2>3. c.id \in BoundIds
    BY <1>2, <2>2 DEF HasUpper, BoundIds
  <2>4. ASSUME NEW v \in HeldBy(r.kind), NEW now \in Int
        PROVE  Fails(c, v, now) <=> CelBound(r, v, c.id)
    <3>1. Fails(c, v, now) <=> v = NaN \/ TooHigh(hi, v)
      BY <2>2 DEF Fails, OrderedFails
    <3>2. CelBound(r, v, c.id) <=> v = NaN \/ TooHigh(hi, v)
      BY <1>2, <2>2, SidesMean DEF CelBound
    <3> QED
      BY <3>1, <3>2
  <2> QED
    BY <2>3, <2>4, CelOfBounds DEF Means
<1>3. CASE HasUpper(r) /\ HasLower(r)
  <2>1. lo.value = low /\ hi.value = up
    BY <1>3, SidesMean
  <2>2. c \in (IF LessEq(low, up)
               THEN {Check(<<r.lower.field, r.upper.field>>, "inside", [lower |-> lo, upper |-> hi])}
               ELSE {})
              \cup (IF Less(up, low)
                    THEN {Check(<<r.lower.field, r.upper.field, "exclusive">>, "outside",
                                [lower |-> lo, upper |-> hi])}
                    ELSE {})
    BY <1>3, <2>1 DEF BoundChecks, ToSet, When
  <2>3. CASE c.id = <<r.lower.field, r.upper.field>>
    <3>1. LessEq(low, up) /\ c.op = "inside" /\ c.arg.lower = lo /\ c.arg.upper = hi
      BY <2>2, <2>3 DEF Check
    <3>2. c.id \in BoundIds
      BY <1>3, <2>3 DEF HasUpper, HasLower, BoundIds
    <3>3. ASSUME NEW v \in HeldBy(r.kind), NEW now \in Int
          PROVE  Fails(c, v, now) <=> CelBound(r, v, c.id)
      <4>1. Fails(c, v, now) <=> v = NaN \/ TooHigh(hi, v) \/ TooLow(lo, v)
        BY <3>1 DEF Fails, OrderedFails
      <4>2. CelBound(r, v, c.id) <=> v = NaN \/ TooHigh(hi, v) \/ TooLow(lo, v)
        BY <1>3, <2>3, <3>1, SidesMean DEF CelBound
      <4> QED
        BY <4>1, <4>2
    <3> QED
      BY <3>2, <3>3, CelOfBounds DEF Means
  <2>4. CASE c.id = <<r.lower.field, r.upper.field, "exclusive">>
    <3>1. Less(up, low) /\ c.op = "outside" /\ c.arg.lower = lo /\ c.arg.upper = hi
      BY <2>2, <2>4 DEF Check
    <3>2. c.id \in BoundIds
      BY <1>3, <2>4 DEF HasUpper, HasLower, BoundIds
    <3>3. ASSUME NEW v \in HeldBy(r.kind), NEW now \in Int
          PROVE  Fails(c, v, now) <=> CelBound(r, v, c.id)
      <4>1. Fails(c, v, now) <=> v = NaN \/ (TooHigh(hi, v) /\ TooLow(lo, v))
        BY <3>1 DEF Fails, OrderedFails
      <4>2. CelBound(r, v, c.id) <=> v = NaN \/ (TooHigh(hi, v) /\ TooLow(lo, v))
        BY <1>3, <2>4, <3>1, SidesMean DEF CelBound
      <4> QED
        BY <4>1, <4>2
    <3> QED
      BY <3>2, <3>3, CelOfBounds DEF Means
  <2> QED
    BY <2>2, <2>3, <2>4 DEF Check
<1>4. CASE ~HasUpper(r) /\ ~HasLower(r)
  BY <1>4 DEF BoundChecks, ToSet
<1> QED
  BY <1>1, <1>2, <1>3, <1>4

----------------------------------------------------------------------------
(* The checks of a rules message stand for all ids. *)

IsList(s) == \E S : s \in Seq(S)
\* No value fails the expression of an id.
NeverFails(id, r) ==
  \A v \in HeldBy(r.kind), now \in Int : ~CelFails(id, r, v, now)
\* The checks s report what the expressions of the ids I would, each once.
Stands(s, I, r) ==
  /\ IsList(s)
  /\ \A i, j \in DOMAIN s : s[i].id = s[j].id => i = j
  /\ \A c \in ToSet(s) : c.id \in I /\ Means(c, r)
  /\ \A id \in I : id \in {c.id : c \in ToSet(s)} \/ NeverFails(id, r)

\* Checks for some ids, then checks for others, stand for the ids of both.
LEMMA Followed ==
  ASSUME NEW r, NEW s, NEW t, NEW I, NEW J, I \cap J = {}, Stands(s, I, r), Stands(t, J, r),
         NEW u, u = s \o t
  PROVE  Stands(u, I \cup J, r)
<1>1. PICK S, T : s \in Seq(S) /\ t \in Seq(T)
  BY DEF Stands, IsList
<1>2. u \in Seq(S \cup T)
  <2>1. s \in Seq(S \cup T) /\ t \in Seq(S \cup T)
    BY <1>1
  <2> QED
    BY <2>1
<1>3. /\ Len(s) \in Nat /\ DOMAIN s = 1..Len(s)
      /\ Len(t) \in Nat /\ DOMAIN t = 1..Len(t)
      /\ DOMAIN u = 1..(Len(s) + Len(t))
      /\ \A i \in 1..Len(s) : u[i] = s[i]
      /\ \A i \in (Len(s) + 1)..(Len(s) + Len(t)) : u[i] = t[i - Len(s)] /\ i - Len(s) \in DOMAIN t
  BY <1>1
<1>4. ToSet(u) = ToSet(s) \cup ToSet(t)
  <2>1. \A i \in DOMAIN u : u[i] \in ToSet(s) \cup ToSet(t)
    <3> TAKE i \in DOMAIN u
    <3>1. CASE i \in 1..Len(s)
      BY <1>3, <3>1 DEF ToSet
    <3>2. CASE i \in (Len(s) + 1)..(Len(s) + Len(t))
      BY <1>3, <3>2 DEF ToSet
    <3> QED
      BY <1>3, <3>1, <3>2
  <2>2. \A i \in DOMAIN s : i \in DOMAIN u /\ u[i] = s[i]
    BY <1>3
  <2>3. \A i \in DOMAIN t : i + Len(s) \in DOMAIN u /\ u[i + Len(s)] = t[i]
    BY <1>3
  <2>4. \A c \in ToSet(s) \cup ToSet(t) : \E i \in DOMAIN u : c = u[i]
    BY <2>2, <2>3 DEF ToSet
  <2> QED
    BY <2>1, <2>4 DEF ToSet
<1>5. ASSUME NEW i \in DOMAIN u, NEW j \in DOMAIN u, u[i].id = u[j].id
      PROVE  i = j
  <2> DEFINE n == Len(s)
  <2>1. \A k \in DOMAIN s : s[k].id \in I
    BY DEF Stands, ToSet
  <2>2. \A k \in DOMAIN t : t[k].id \in J
    BY DEF Stands, ToSet
  <2>3. CASE i \in 1..n /\ j \in 1..n
    BY <1>3, <1>5, <2>3 DEF Stands
  <2>4. CASE i \in (n + 1)..(n + Len(t)) /\ j \in (n + 1)..(n + Len(t))
    <3>1. i - n \in DOMAIN t /\ j - n \in DOMAIN t /\ t[i - n].id = t[j - n].id
      BY <1>3, <1>5, <2>4
    <3>2. i - n = j - n
      BY <3>1 DEF Stands
    <3> QED
      BY <1>3, <3>2
  <2>5. CASE i \in 1..n /\ j \in (n + 1)..(n + Len(t))
    <3>1. u[i].id \in I /\ u[j].id \in J
      BY <1>3, <2>1, <2>2, <2>5
    <3> QED
      BY <3>1, <1>5
  <2>6. CASE i \in (n + 1)..(n + Len(t)) /\ j \in 1..n
    <3>1. u[j].id \in I /\ u[i].id \in J
      BY <1>3, <2>1, <2>2, <2>6
    <3> QED
      BY <3>1, <1>5
  <2> QED
    BY <1>3, <2>3, <2>4, <2>5, <2>6
<1> QED
  BY <1>2, <1>4, <1>5 DEF Stands, IsList

\* A sequence of one check.
LEMMA One ==
  ASSUME NEW c, NEW s, s = <<c>>
  PROVE  IsList(s) /\ DOMAIN s = {1} /\ s[1] = c /\ s[1] \in ToSet(s) /\ ToSet(s) = {c}
<1>1. s \in Seq({c}) /\ DOMAIN s = {1} /\ s[1] = c
  OBVIOUS
<1> QED
  BY <1>1 DEF ToSet, IsList

\* A check made under a condition stands for its id.
LEMMA OneStands ==
  ASSUME NEW r, NEW condition \in BOOLEAN, NEW c, NEW id, c.id = id,
         condition => Means(c, r), condition \/ NeverFails(id, r),
         NEW s, s = When(condition, c)
  PROVE  Stands(s, {id}, r)
<1>1. CASE condition
  <2>1. s = <<c>>
    BY <1>1 DEF When
  <2>2. s \in Seq({c}) /\ DOMAIN s = {1} /\ s[1] = c
    BY <2>1
  <2>3. ToSet(s) = {c}
    BY <2>2 DEF ToSet
  <2> QED
    BY <1>1, <2>2, <2>3 DEF Stands, IsList
<1>2. CASE ~condition
  <2>1. s = <<>>
    BY <1>2 DEF When
  <2>2. s \in Seq({}) /\ DOMAIN s = {}
    BY <2>1
  <2>3. ToSet(s) = {}
    BY <2>2 DEF ToSet
  <2> QED
    BY <1>2, <2>2, <2>3 DEF Stands, IsList
<1> QED
  BY <1>1, <1>2

\* The bound checks stand for the ids of bounds: there is at most one check.
LEMMA BoundsStand ==
  ASSUME NEW kind, NEW r \in RulesOf(kind), NEW s, s = BoundChecks(r)
  PROVE  Stands(s, BoundIds, r)
<1> DEFINE lo == Side(r.kind, r.lower)
           hi == Side(r.kind, r.upper)
           low == Exact(r.kind, r.lower.value)
           up == Exact(r.kind, r.upper.value)
           both == [lower |-> lo, upper |-> hi]
           inside == Check(<<r.lower.field, r.upper.field>>, "inside", both)
           outside == Check(<<r.lower.field, r.upper.field, "exclusive">>, "outside", both)
<1>1. \A c \in ToSet(s) : c.id \in BoundIds /\ Means(c, r)
  BY BoundsMean
<1>2. /\ IsList(s)
      /\ \A i, j \in DOMAIN s : s[i].id = s[j].id => i = j
      /\ \A v, id : CelBound(r, v, id) => id \in {c.id : c \in ToSet(s)}
  <2>1. CASE HasLower(r) /\ ~HasUpper(r)
    <3>1. s = <<Check(<<r.lower.field>>, "lower", [lower |-> lo])>>
      BY <2>1 DEF BoundChecks
    <3>2. IsList(s) /\ DOMAIN s = {1} /\ s[1].id = <<r.lower.field>> /\ s[1] \in ToSet(s)
      BY <3>1, One DEF Check
    <3>3. \A v, id : CelBound(r, v, id) => id = <<r.lower.field>>
      BY <2>1 DEF CelBound
    <3> QED
      BY <3>2, <3>3
  <2>2. CASE HasUpper(r) /\ ~HasLower(r)
    <3>1. s = <<Check(<<r.upper.field>>, "upper", [upper |-> hi])>>
      BY <2>2 DEF BoundChecks
    <3>2. IsList(s) /\ DOMAIN s = {1} /\ s[1].id = <<r.upper.field>> /\ s[1] \in ToSet(s)
      BY <3>1, One DEF Check
    <3>3. \A v, id : CelBound(r, v, id) => id = <<r.upper.field>>
      BY <2>2 DEF CelBound
    <3> QED
      BY <3>2, <3>3
  <2>3. CASE HasUpper(r) /\ HasLower(r)
    <3>1. lo.value = low /\ hi.value = up
      BY <2>3, SidesMean
    <3>2. s = When(LessEq(low, up), inside) \o When(Less(up, low), outside)
      BY <2>3, <3>1 DEF BoundChecks
    <3>3. ~(LessEq(low, up) /\ Less(up, low))
      <4>1. low \in Comparable /\ up \in Comparable
        BY <2>3, Parts, ComparedIsExact
      <4> QED
        BY <4>1, NumberAssumption DEF Comparable, Less, LessEq
    <3>4. CASE LessEq(low, up)
      <4>1. s = <<inside>>
        BY <3>2, <3>3, <3>4 DEF When
      <4>2. /\ IsList(s) /\ DOMAIN s = {1}
            /\ s[1].id = <<r.lower.field, r.upper.field>> /\ s[1] \in ToSet(s)
        BY <4>1, One DEF Check
      <4>3. \A v, id : CelBound(r, v, id) => id = <<r.lower.field, r.upper.field>>
        BY <2>3, <3>3, <3>4 DEF CelBound
      <4> QED
        BY <4>2, <4>3
    <3>5. CASE Less(up, low)
      <4>1. s = <<outside>>
        BY <3>2, <3>3, <3>5 DEF When
      <4>2. /\ IsList(s) /\ DOMAIN s = {1}
            /\ s[1].id = <<r.lower.field, r.upper.field, "exclusive">> /\ s[1] \in ToSet(s)
        BY <4>1, One DEF Check
      <4>3. \A v, id : CelBound(r, v, id) => id = <<r.lower.field, r.upper.field, "exclusive">>
        BY <2>3, <3>3, <3>5 DEF CelBound
      <4> QED
        BY <4>2, <4>3
    <3>6. CASE ~LessEq(low, up) /\ ~Less(up, low)
      <4>1. s = <<>>
        BY <3>2, <3>6 DEF When
      <4>2. IsList(s) /\ DOMAIN s = {}
        BY <4>1 DEF IsList
      <4>3. \A v, id : ~CelBound(r, v, id)
        BY <2>3, <3>6 DEF CelBound
      <4> QED
        BY <4>2, <4>3
    <3> QED
      BY <3>4, <3>5, <3>6
  <2>4. CASE ~HasUpper(r) /\ ~HasLower(r)
    <3>1. s = <<>>
      BY <2>4 DEF BoundChecks
    <3>2. IsList(s) /\ DOMAIN s = {}
      BY <3>1 DEF IsList
    <3>3. \A v, id : ~CelBound(r, v, id)
      BY <2>4 DEF CelBound
    <3> QED
      BY <3>2, <3>3
  <2> QED
    BY <2>1, <2>2, <2>3, <2>4
<1>3. \A id \in BoundIds : id \in {c.id : c \in ToSet(s)} \/ NeverFails(id, r)
  BY <1>2, CelOfBounds DEF NeverFails
<1> QED
  BY <1>1, <1>2, <1>3 DEF Stands

\* All checks of a rules message stand for all ids.
LEMMA AllStand ==
  ASSUME NEW kind, NEW r \in RulesOf(kind), NEW s, s = ChecksOf(r)
  PROVE  Stands(s, Ids, r)
<1>1. PICK c1 : c1 = Check(<<"const">>, "const", Compared(r.kind, r.const))
  OBVIOUS
<1>2. PICK c2 : c2 = Check(<<"in">>, "in", {Compared(r.kind, v) : v \in r.in})
  OBVIOUS
<1>3. PICK c3 : c3 = Check(<<"not_in">>, "not_in", {Compared(r.kind, v) : v \in r.notIn})
  OBVIOUS
<1>4. PICK c4 : c4 = Check(<<"finite">>, "finite", Infinite)
  OBVIOUS
<1>5. PICK c5 : c5 = Check(<<"lt_now">>, "lt_now", 0)
  OBVIOUS
<1>6. PICK c6 : c6 = Check(<<"gt_now">>, "gt_now", 0)
  OBVIOUS
<1>7. PICK c7 : c7 = Check(<<"within">>, "within", TotalNanos(r.within))
  OBVIOUS
<1>8. /\ c1.id = <<"const">> /\ c2.id = <<"in">> /\ c3.id = <<"not_in">> /\ c4.id = <<"finite">>
      /\ c5.id = <<"lt_now">> /\ c6.id = <<"gt_now">> /\ c7.id = <<"within">>
  BY <1>1, <1>2, <1>3, <1>4, <1>5, <1>6, <1>7 DEF Check
<1>9. /\ r.const # Unset => Means(c1, r)
      /\ r.in # {} => Means(c2, r)
      /\ Means(c3, r)
      /\ r.finite => Means(c4, r)
      /\ r.upper.field = "lt_now" => Means(c5, r)
      /\ r.lower.field = "gt_now" => Means(c6, r)
      /\ r.within # Unset => Means(c7, r)
  BY <1>1, <1>2, <1>3, <1>4, <1>5, <1>6, <1>7, ConstMeans, ListsMean, FiniteMeans, ClockMeans
<1>10. /\ r.const # Unset \/ NeverFails(<<"const">>, r)
       /\ r.in # {} \/ NeverFails(<<"in">>, r)
       /\ r.notIn # {} \/ NeverFails(<<"not_in">>, r)
       /\ r.finite \/ NeverFails(<<"finite">>, r)
       /\ r.upper.field = "lt_now" \/ NeverFails(<<"lt_now">>, r)
       /\ r.lower.field = "gt_now" \/ NeverFails(<<"gt_now">>, r)
       /\ r.within # Unset \/ NeverFails(<<"within">>, r)
  <2>1. r.notIn = {} => \A v : ~CelIn(r.kind, v, r.notIn)
    BY DEF CelIn
  <2> QED
    BY <2>1, CelOfOthers DEF NeverFails
<1>11. PICK w1 : w1 = When(r.const # Unset, c1)
  OBVIOUS
<1>12. PICK w2 : w2 = When(r.in # {}, c2)
  OBVIOUS
<1>13. PICK w3 : w3 = When(r.notIn # {}, c3)
  OBVIOUS
<1>14. PICK w4 : w4 = When(r.finite, c4)
  OBVIOUS
<1>15. PICK w5 : w5 = When(r.upper.field = "lt_now", c5)
  OBVIOUS
<1>16. PICK w6 : w6 = When(r.lower.field = "gt_now", c6)
  OBVIOUS
<1>17. PICK w7 : w7 = When(r.within # Unset, c7)
  OBVIOUS
<1>18. PICK b : b = BoundChecks(r)
  OBVIOUS
<1>20. r.finite \in BOOLEAN
  BY Parts
<1>21. /\ Stands(w1, {<<"const">>}, r) /\ Stands(w2, {<<"in">>}, r)
       /\ Stands(w3, {<<"not_in">>}, r) /\ Stands(w4, {<<"finite">>}, r)
       /\ Stands(w5, {<<"lt_now">>}, r) /\ Stands(w6, {<<"gt_now">>}, r)
       /\ Stands(w7, {<<"within">>}, r)
  <2>1. Stands(w1, {<<"const">>}, r)
    BY <1>8, <1>9, <1>10, <1>11, OneStands
  <2>2. Stands(w2, {<<"in">>}, r)
    BY <1>8, <1>9, <1>10, <1>12, OneStands
  <2>3. Stands(w3, {<<"not_in">>}, r)
    BY <1>8, <1>9, <1>10, <1>13, OneStands
  <2>4. Stands(w4, {<<"finite">>}, r)
    BY <1>8, <1>9, <1>10, <1>14, <1>20, OneStands
  <2>5. Stands(w5, {<<"lt_now">>}, r)
    BY <1>8, <1>9, <1>10, <1>15, OneStands
  <2>6. Stands(w6, {<<"gt_now">>}, r)
    BY <1>8, <1>9, <1>10, <1>16, OneStands
  <2>7. Stands(w7, {<<"within">>}, r)
    BY <1>8, <1>9, <1>10, <1>17, OneStands
  <2> QED
    BY <2>1, <2>2, <2>3, <2>4, <2>5, <2>6, <2>7
<1>22. Stands(b, BoundIds, r)
  BY <1>18, BoundsStand
<1>23. PICK I1 : I1 = {<<"const">>} \cup BoundIds
  OBVIOUS
<1>24. PICK I2 : I2 = I1 \cup {<<"in">>}
  OBVIOUS
<1>25. PICK I3 : I3 = I2 \cup {<<"not_in">>}
  OBVIOUS
<1>26. PICK I4 : I4 = I3 \cup {<<"finite">>}
  OBVIOUS
<1>27. PICK I5 : I5 = {<<"lt_now">>} \cup {<<"gt_now">>}
  OBVIOUS
<1>28. PICK I6 : I6 = I5 \cup {<<"within">>}
  OBVIOUS
<1>29. /\ {<<"const">>} \cap BoundIds = {} /\ I1 \cap {<<"in">>} = {} /\ I2 \cap {<<"not_in">>} = {}
       /\ I3 \cap {<<"finite">>} = {} /\ {<<"lt_now">>} \cap {<<"gt_now">>} = {}
       /\ I5 \cap {<<"within">>} = {} /\ I4 \cap I6 = {}
  BY <1>23, <1>24, <1>25, <1>26, <1>27, <1>28 DEF BoundIds
<1>30. I4 \cup I6 = Ids
  BY <1>23, <1>24, <1>25, <1>26, <1>27, <1>28, IdsAreTwoFamilies DEF LoneIds
<1>31. PICK u1 : u1 = w1 \o b
  OBVIOUS
<1>32. PICK u2 : u2 = u1 \o w2
  OBVIOUS
<1>33. PICK u3 : u3 = u2 \o w3
  OBVIOUS
<1>34. PICK u4 : u4 = u3 \o w4
  OBVIOUS
<1>35. PICK u5 : u5 = w5 \o w6
  OBVIOUS
<1>36. PICK u6 : u6 = u5 \o w7
  OBVIOUS
<1>41. Stands(u1, I1, r)
  BY <1>21, <1>22, <1>23, <1>29, <1>31, Followed
<1>42. Stands(u2, I2, r)
  BY <1>21, <1>41, <1>24, <1>29, <1>32, Followed
<1>43. Stands(u3, I3, r)
  BY <1>21, <1>42, <1>25, <1>29, <1>33, Followed
<1>44. Stands(u4, I4, r)
  BY <1>21, <1>43, <1>26, <1>29, <1>34, Followed
<1>45. Stands(u5, I5, r)
  BY <1>21, <1>27, <1>29, <1>35, Followed
<1>46. Stands(u6, I6, r)
  BY <1>21, <1>45, <1>28, <1>29, <1>36, Followed
<1>47. s = u4 \o u6
  <2>1. ComparisonChecks(r) = u3
    BY <1>1, <1>2, <1>3, <1>11, <1>12, <1>13, <1>18, <1>31, <1>32, <1>33 DEF ComparisonChecks
  <2>2. FiniteChecks(r) = w4
    BY <1>4, <1>14 DEF FiniteChecks
  <2>3. NowChecks(r) = u6
    BY <1>5, <1>6, <1>7, <1>15, <1>16, <1>17, <1>35, <1>36 DEF NowChecks
  <2> QED
    BY <1>34, <2>1, <2>2, <2>3 DEF ChecksOf
<1>48. Stands(s, I4 \cup I6, r)
  BY <1>44, <1>46, <1>47, <1>29, Followed
<1> QED
  BY <1>30, <1>48

----------------------------------------------------------------------------
(* The checks run. *)

Instants == {n \in ClockReadings : began <= n /\ n <= clock}
PendingIds == {c.id : c \in ToSet(pending)}
\* What is reported of an id is what its expression says at some instant.
Answered(id) ==
  LET v == Exact(ruleset.kind, fieldValue)
  IN IF id \in ToSet(reported) THEN \E n \in Instants : CelFails(id, ruleset, v, n)
     ELSE \E n \in Instants : ~CelFails(id, ruleset, v, n)

ChecksTypeOK ==
  /\ \E kind \in DOMAIN RuleSets : ruleset \in RulesOf(kind) /\ fieldValue \in ValuesOf(kind)
  /\ clock \in ClockReadings /\ began \in ClockReadings /\ began <= clock
  /\ reported \in Seq(Ids)
  /\ checkPhase \in {"build", "run", "rejected", "done"}
\* The checks left report what their expressions would, each once.
PendingStand ==
  /\ IsList(pending)
  /\ \A i, j \in DOMAIN pending : pending[i].id = pending[j].id => i = j
  /\ \A c \in ToSet(pending) : c.id \in Ids /\ Means(c, ruleset)
ChecksInv ==
  /\ ChecksTypeOK
  /\ checkPhase = "build" => reported = <<>>
  /\ checkPhase = "done" => pending = <<>>
  /\ checkPhase \in {"run", "done"} =>
       /\ PendingStand
       /\ IsInjective(reported) /\ ToSet(reported) \cap PendingIds = {}
       /\ \A id \in Ids \ PendingIds : Answered(id)

\* The value is one of its kind, and is compared exactly.
LEMMA HeldValue ==
  ASSUME ChecksTypeOK
  PROVE  /\ Exact(ruleset.kind, fieldValue) \in HeldBy(ruleset.kind)
         /\ Compared(ruleset.kind, fieldValue) = Exact(ruleset.kind, fieldValue)
         /\ clock \in Int /\ began \in Int /\ clock \in Instants
<1>1. PICK kind \in DOMAIN RuleSets : ruleset \in RulesOf(kind) /\ fieldValue \in ValuesOf(kind)
  BY DEF ChecksTypeOK
<1>2. ruleset.kind = kind
  BY <1>1, Parts
<1>3. clock \in ClockReadings /\ began \in ClockReadings /\ began <= clock
  BY DEF ChecksTypeOK
<1> QED
  BY <1>1, <1>2, <1>3, ComparedIsExact, ClockAssumption DEF HeldBy, Instants

\* The invariant holds at first.
LEMMA ChecksStart == ChecksInit => ChecksInv
<1> SUFFICES ASSUME ChecksInit PROVE ChecksInv
  OBVIOUS
<1>1. PICK kind \in DOMAIN RuleSets :
        ruleset \in RuleSets[kind] /\ fieldValue \in FieldValues[kind]
  BY DEF ChecksInit
<1>2. ruleset \in RulesOf(kind) /\ fieldValue \in ValuesOf(kind)
  BY <1>1, BoundRulesAssumption
<1>3. clock \in ClockReadings /\ began = clock /\ checkPhase = "build" /\ reported = <<>>
  BY DEF ChecksInit
<1>4. began <= clock
  BY <1>3, ClockAssumption
<1>5. reported \in Seq(Ids)
  BY <1>3
<1> QED
  BY <1>2, <1>3, <1>4, <1>5 DEF ChecksInv, ChecksTypeOK

\* Building makes the checks that stand for all ids, or rejects the rules.
LEMMA BuildStep == ChecksInv /\ BuildChecks => ChecksInv'
<1> SUFFICES ASSUME ChecksInv, BuildChecks PROVE ChecksInv'
  OBVIOUS
<1>1. /\ ChecksTypeOK /\ checkPhase = "build" /\ reported = <<>>
      /\ ruleset' = ruleset /\ fieldValue' = fieldValue /\ reported' = <<>> /\ clock' = clock
      /\ began' = clock
  BY DEF ChecksInv, BuildChecks
<1>2. ChecksTypeOK' /\ checkPhase' \in {"run", "rejected"}
  <2>1. clock \in Int
    BY <1>1, HeldValue
  <2>2. clock <= clock
    BY <2>1
  <2>3. checkPhase' \in {"run", "rejected"}
    BY DEF BuildChecks
  <2> QED
    BY <1>1, <2>2, <2>3 DEF ChecksTypeOK
<1>3. ASSUME checkPhase' = "run"
      PROVE  /\ PendingStand'
             /\ IsInjective(reported') /\ ToSet(reported') \cap PendingIds' = {}
             /\ \A id \in Ids \ PendingIds' : Answered(id)'
  <2>1. pending' = ChecksOf(ruleset)
    BY <1>3 DEF BuildChecks
  <2>2. PICK kind \in DOMAIN RuleSets : ruleset \in RulesOf(kind)
    BY <1>1 DEF ChecksTypeOK
  <2>3. Stands(pending', Ids, ruleset')
    BY <1>1, <2>1, <2>2, AllStand
  <2>4. ToSet(reported') = {} /\ IsInjective(reported')
    <3>1. DOMAIN reported' = {}
      BY <1>1
    <3> QED
      BY <3>1 DEF ToSet, IsInjective
  <2>5. ASSUME NEW id \in Ids \ PendingIds' PROVE Answered(id)'
    <3>1. NeverFails(id, ruleset')
      BY <2>3 DEF Stands, PendingIds
    <3>2. /\ Exact(ruleset.kind, fieldValue)' \in HeldBy(ruleset'.kind)
          /\ clock' \in Int /\ clock' \in Instants'
      <4>1. /\ Exact(ruleset.kind, fieldValue) \in HeldBy(ruleset.kind)
            /\ clock \in Int /\ clock \in ClockReadings /\ clock <= clock
        BY <1>1, HeldValue DEF ChecksTypeOK
      <4> QED
        BY <1>1, <4>1 DEF Instants, Exact
    <3> QED
      BY <2>4, <3>1, <3>2 DEF Answered, NeverFails
  <2> QED
    BY <2>3, <2>4, <2>5 DEF PendingStand, Stands
<1> QED
  BY <1>1, <1>2, <1>3 DEF ChecksInv

\* The first of a list and those after it.
LEMMA FirstChecked ==
  ASSUME NEW s, IsList(s), s # <<>>
  PROVE  /\ IsList(Tail(s)) /\ DOMAIN Tail(s) = 1..(Len(s) - 1) /\ DOMAIN s = 1..Len(s)
         /\ Len(s) \in Nat \ {0} /\ Head(s) = s[1]
         /\ \A i \in DOMAIN Tail(s) : Tail(s)[i] = s[i + 1]
<1>1. PICK S : s \in Seq(S)
  BY DEF IsList
<1>2. Tail(s) \in Seq(S)
  BY <1>1
<1>3. /\ DOMAIN Tail(s) = 1..(Len(s) - 1) /\ DOMAIN s = 1..Len(s) /\ Len(s) \in Nat \ {0}
      /\ Head(s) = s[1] /\ \A i \in DOMAIN Tail(s) : Tail(s)[i] = s[i + 1]
  BY <1>1
<1> QED
  BY <1>2, <1>3 DEF IsList

\* A check run answers for its id, as of the time it is now.
LEMMA RunStep == ChecksInv /\ RunCheck => ChecksInv'
<1> SUFFICES ASSUME ChecksInv, RunCheck PROVE ChecksInv'
  OBVIOUS
<1> DEFINE v == Exact(ruleset.kind, fieldValue)
<1>1. PICK c : c = Head(pending)
  OBVIOUS
<1>2. PICK rest : rest = Tail(pending)
  OBVIOUS
<1>3. /\ checkPhase = "run" /\ pending # <<>> /\ checkPhase' = "run" /\ pending' = rest
      /\ reported' = IF Fails(c, Compared(ruleset.kind, fieldValue), clock)
                     THEN Append(reported, c.id) ELSE reported
      /\ ruleset' = ruleset /\ fieldValue' = fieldValue /\ clock' = clock /\ began' = began
  BY <1>1, <1>2 DEF RunCheck
<1>4. /\ ChecksTypeOK /\ PendingStand
      /\ IsInjective(reported) /\ ToSet(reported) \cap PendingIds = {}
      /\ \A id \in Ids \ PendingIds : Answered(id)
  BY <1>3 DEF ChecksInv
<1>5. /\ IsList(rest) /\ DOMAIN rest = 1..(Len(pending) - 1) /\ DOMAIN pending = 1..Len(pending)
      /\ Len(pending) \in Nat \ {0} /\ c = pending[1]
      /\ \A i \in DOMAIN rest : rest[i] = pending[i + 1]
  BY <1>1, <1>2, <1>3, <1>4, FirstChecked DEF PendingStand
<1>6. \A i \in DOMAIN rest : i + 1 \in DOMAIN pending /\ i + 1 # 1 /\ i \in Int
  BY <1>5
<1>7. PendingStand'
  <2>1. \A i, j \in DOMAIN rest : rest[i].id = rest[j].id => i = j
    <3> SUFFICES ASSUME NEW i \in DOMAIN rest, NEW j \in DOMAIN rest, rest[i].id = rest[j].id
                 PROVE  i = j
      OBVIOUS
    <3>1. i + 1 = j + 1
      BY <1>4, <1>5, <1>6 DEF PendingStand
    <3> QED
      BY <3>1, <1>6
  <2>2. \A d \in ToSet(rest) : d \in ToSet(pending)
    BY <1>5, <1>6 DEF ToSet
  <2> QED
    BY <1>3, <1>4, <1>5, <2>1, <2>2 DEF PendingStand
<1>8. c \in ToSet(pending) /\ c.id \in Ids /\ Means(c, ruleset) /\ c.id \in PendingIds
  <2>1. 1 \in DOMAIN pending
    BY <1>5
  <2> QED
    BY <1>4, <1>5, <2>1 DEF PendingStand, ToSet, PendingIds
<1>9. PendingIds' = PendingIds \ {c.id}
  <2>1. \A d \in ToSet(rest) : d \in ToSet(pending) /\ d.id # c.id
    <3> SUFFICES ASSUME NEW i \in DOMAIN rest
                 PROVE  rest[i] \in ToSet(pending) /\ rest[i].id # c.id
      BY DEF ToSet
    <3>1. i + 1 \in DOMAIN pending /\ i + 1 # 1 /\ 1 \in DOMAIN pending
      BY <1>5, <1>6
    <3> QED
      BY <1>4, <1>5, <3>1 DEF PendingStand, ToSet
  <2>2. \A d \in ToSet(pending) : d = c \/ d \in ToSet(rest)
    <3> SUFFICES ASSUME NEW i \in DOMAIN pending, i # 1
                 PROVE  pending[i] \in ToSet(rest)
      BY <1>5 DEF ToSet
    <3>1. i - 1 \in DOMAIN rest /\ (i - 1) + 1 = i
      BY <1>5
    <3> QED
      BY <1>5, <3>1 DEF ToSet
  <2> QED
    BY <1>3, <2>1, <2>2 DEF PendingIds
<1>10. /\ Compared(ruleset.kind, fieldValue) = v /\ v \in HeldBy(ruleset.kind)
       /\ clock \in Int /\ clock \in Instants
  BY <1>4, HeldValue
<1>11. Fails(c, v, clock) <=> CelFails(c.id, ruleset, v, clock)
  BY <1>8, <1>10 DEF Means
<1>12. reported \in Seq(Ids) /\ c.id \notin ToSet(reported)
  BY <1>4, <1>8 DEF ChecksTypeOK
<1>13. CASE Fails(c, v, clock)
  <2>1. PICK q : q = Append(reported, c.id)
    OBVIOUS
  <2>2. reported' = q
    BY <1>3, <1>10, <1>13, <2>1
  <2>3. /\ q \in Seq(Ids) /\ DOMAIN q = 1..(Len(reported) + 1) /\ DOMAIN reported = 1..Len(reported)
        /\ Len(reported) \in Nat /\ q[Len(reported) + 1] = c.id
        /\ \A i \in DOMAIN reported : q[i] = reported[i]
    BY <1>8, <1>12, <2>1
  <2>4. ToSet(q) = ToSet(reported) \cup {c.id}
    <3>1. \A i \in DOMAIN q : q[i] \in ToSet(reported) \cup {c.id}
      <4> SUFFICES ASSUME NEW i \in DOMAIN q, i # Len(reported) + 1
                   PROVE  q[i] \in ToSet(reported)
        BY <2>3
      <4>1. i \in DOMAIN reported
        BY <2>3
      <4> QED
        BY <2>3, <4>1 DEF ToSet
    <3>2. \A i \in DOMAIN reported : i \in DOMAIN q /\ q[i] = reported[i]
      BY <2>3
    <3>3. Len(reported) + 1 \in DOMAIN q
      BY <2>3
    <3>4. \A id \in ToSet(reported) \cup {c.id} : \E i \in DOMAIN q : id = q[i]
      BY <2>3, <3>2, <3>3 DEF ToSet
    <3> QED
      BY <3>1, <3>4 DEF ToSet
  <2>5. IsInjective(q)
    <3> SUFFICES ASSUME NEW i \in DOMAIN q, NEW j \in DOMAIN q, q[i] = q[j] PROVE i = j
      BY DEF IsInjective
    <3>1. \A k \in DOMAIN reported : q[k] # c.id /\ q[k] = reported[k]
      BY <1>12, <2>3 DEF ToSet
    <3>2. \A k \in DOMAIN q : k \in DOMAIN reported \/ k = Len(reported) + 1
      BY <2>3
    <3> QED
      BY <1>4, <2>3, <3>1, <3>2 DEF IsInjective
  <2>6. ToSet(q) \cap PendingIds' = {}
    BY <1>4, <1>9, <2>4
  <2>7. ASSUME NEW id \in Ids \ PendingIds' PROVE Answered(id)'
    <3>1. CASE id = c.id
      BY <1>3, <1>10, <1>11, <1>13, <2>2, <2>4, <3>1 DEF Answered, Instants, Exact
    <3>2. CASE id # c.id
      <4>1. Answered(id) /\ (id \in ToSet(reported') <=> id \in ToSet(reported))
        BY <1>4, <1>9, <2>2, <2>4, <3>2
      <4> QED
        BY <1>3, <4>1 DEF Answered, Instants, Exact
    <3> QED
      BY <3>1, <3>2
  <2>8. ChecksTypeOK'
    BY <1>3, <1>4, <2>2, <2>3 DEF ChecksTypeOK
  <2> QED
    BY <1>3, <1>7, <2>2, <2>5, <2>6, <2>7, <2>8 DEF ChecksInv
<1>14. CASE ~Fails(c, v, clock)
  <2>1. reported' = reported
    BY <1>3, <1>10, <1>14
  <2>2. ASSUME NEW id \in Ids \ PendingIds' PROVE Answered(id)'
    <3>1. CASE id = c.id
      BY <1>3, <1>10, <1>11, <1>12, <1>14, <2>1, <3>1 DEF Answered, Instants, Exact
    <3>2. CASE id # c.id
      <4>1. Answered(id)
        BY <1>4, <1>9, <3>2
      <4> QED
        BY <1>3, <2>1, <4>1 DEF Answered, Instants, Exact
    <3> QED
      BY <3>1, <3>2
  <2>3. ChecksTypeOK'
    BY <1>3, <1>4, <2>1 DEF ChecksTypeOK
  <2>4. IsInjective(reported') /\ ToSet(reported') \cap PendingIds' = {}
    BY <1>4, <1>9, <2>1
  <2> QED
    BY <1>3, <1>7, <2>2, <2>3, <2>4 DEF ChecksInv
<1> QED
  BY <1>13, <1>14

\* An instant stays one when the clock moves on.
LEMMA TickStep == ChecksInv /\ ClockTicks => ChecksInv'
<1> SUFFICES ASSUME ChecksInv, ClockTicks PROVE ChecksInv'
  OBVIOUS
<1>1. /\ checkPhase = "run" /\ clock < clock' /\ clock' \in ClockReadings
      /\ ruleset' = ruleset /\ fieldValue' = fieldValue /\ checkPhase' = "run"
      /\ pending' = pending /\ reported' = reported /\ began' = began
  BY DEF ClockTicks
<1>2. /\ ChecksTypeOK /\ PendingStand
      /\ IsInjective(reported) /\ ToSet(reported) \cap PendingIds = {}
      /\ \A id \in Ids \ PendingIds : Answered(id)
  BY <1>1 DEF ChecksInv
<1>3. began \in Int /\ clock \in Int /\ clock' \in Int /\ began <= clock
  BY <1>1, <1>2, ClockAssumption DEF ChecksTypeOK
<1>4. ChecksTypeOK'
  BY <1>1, <1>2, <1>3 DEF ChecksTypeOK
<1>5. \A n \in Instants : n \in Instants'
  BY <1>1, <1>3, ClockAssumption DEF Instants
<1>6. PendingIds' = PendingIds /\ PendingStand'
  BY <1>1, <1>2 DEF PendingIds, PendingStand
<1>7. \A id \in Ids \ PendingIds : Answered(id)'
  BY <1>1, <1>2, <1>5 DEF Answered, Exact
<1> QED
  BY <1>1, <1>2, <1>4, <1>6, <1>7 DEF ChecksInv

\* A step that changes none of the checks keeps what they answered.
LEMMA SameChecks ==
  ASSUME ChecksInv,
         checkPhase' = checkPhase \/ (checkPhase = "run" /\ checkPhase' = "done" /\ pending = <<>>),
         UNCHANGED <<ruleset, fieldValue, pending, reported, clock, began>>
  PROVE  ChecksInv'
<1>1. ChecksTypeOK' /\ checkPhase' \in {"build", "run", "rejected", "done"}
  BY DEF ChecksInv, ChecksTypeOK
<1>2. (PendingStand => PendingStand') /\ PendingIds' = PendingIds /\ ToSet(reported') = ToSet(reported)
  BY DEF PendingStand, PendingIds
<1>3. \A id \in Ids : Answered(id) => Answered(id)'
  BY <1>2 DEF Answered, Instants, Exact
<1>4. checkPhase' \in {"run", "done"} => checkPhase \in {"run", "done"}
  OBVIOUS
<1>5. checkPhase' = "build" => checkPhase = "build"
  OBVIOUS
<1>6. checkPhase' = "done" => pending = <<>>
  BY DEF ChecksInv
<1> QED
  BY <1>1, <1>2, <1>3, <1>4, <1>5, <1>6 DEF ChecksInv

\* The invariant holds in every state.
LEMMA ChecksInvariant == ChecksSpec => []ChecksInv
<1>1. ChecksInv /\ [ChecksNext]_checkVars => ChecksInv'
  <2> SUFFICES ASSUME ChecksInv, [ChecksNext]_checkVars PROVE ChecksInv'
    OBVIOUS
  <2>1. CASE BuildChecks
    BY <2>1, BuildStep
  <2>2. CASE RunCheck
    BY <2>2, RunStep
  <2>3. CASE FinishChecks
    BY <2>3, SameChecks DEF FinishChecks
  <2>4. CASE ClockTicks
    BY <2>4, TickStep
  <2>5. CASE UNCHANGED checkVars
    BY <2>5, SameChecks DEF checkVars
  <2> QED
    BY <2>1, <2>2, <2>3, <2>4, <2>5 DEF ChecksNext
<1> QED
  BY <1>1, ChecksStart, PTL DEF ChecksSpec

\* For any rules, values and clock: the checks built from a rules message
\* report, each id once, what the CEL expressions of validate.proto would, of
\* the clock at some instant while they ran.
THEOREM ChecksAgreeWithCel == ChecksSpec => []AgreesWithCel
<1>1. ChecksInv => AgreesWithCel
  <2> SUFFICES ASSUME ChecksInv, checkPhase = "done"
               PROVE  IsInjective(reported) /\ \A id \in Ids : Answered(id)
    BY DEF AgreesWithCel, Answered, Instants
  <2>1. pending = <<>> /\ IsInjective(reported) /\ \A id \in Ids \ PendingIds : Answered(id)
    BY DEF ChecksInv
  <2>2. PendingIds = {}
    BY <2>1 DEF PendingIds, ToSet
  <2> QED
    BY <2>1, <2>2
<1> QED
  BY <1>1, ChecksInvariant, PTL

----------------------------------------------------------------------------
(* TextChecks: sequences and their ranks. *)

\* A set of numbers has a least one.
LEMMA LeastNatural ==
  ASSUME NEW S \in SUBSET Nat, S # {}
  PROVE  \E n \in S : \A m \in S : n <= m
<1> DEFINE R == StrictSubsetOrdering(Nat)
           T == {0..n : n \in S}
<1>1. T \subseteq FiniteSubsetsOf(Nat) /\ T # {}
  <2>1. \A n \in Nat : IsFiniteSet(0..n)
    BY FS_Interval
  <2>2. \A n \in S : 0..n \in FiniteSubsetsOf(Nat)
    BY <2>1 DEF FiniteSubsetsOf
  <2> QED  BY <2>2
<1>2. PICK t \in T : \A u \in T : <<u, t>> \notin R
  BY <1>1, FS_StrictSubsetOrderingWellFounded, WFMin
<1>3. PICK n \in S : t = 0..n
  OBVIOUS
<1>4. ASSUME NEW m \in S, m < n PROVE FALSE
  <2>1. 0..m \in T /\ n \in 0..n /\ n \notin 0..m /\ 0..m \subseteq 0..n
    BY <1>4
  <2>2. <<0..m, 0..n>> \in R
    BY <2>1 DEF StrictSubsetOrdering
  <2> QED  BY <1>2, <1>3, <2>1, <2>2
<1> QED  BY <1>4

\* A sequence is determined by its length and its members.
LEMMA SameSeq ==
  ASSUME NEW S, NEW a \in Seq(S), NEW b \in Seq(S), Len(a) = Len(b),
         \A i \in 1..Len(a) : a[i] = b[i]
  PROVE  a = b
BY SeqEqual

\* Concatenation.
Cat(a, b) == a \o b

\* A concatenation is as long as both, and the empty sequence adds nothing.
LEMMA CatIs ==
  ASSUME NEW S, NEW a \in Seq(S), NEW b \in Seq(S)
  PROVE  /\ Cat(a, b) \in Seq(S) /\ Len(Cat(a, b)) = Len(a) + Len(b)
         /\ Cat(a, <<>>) = a /\ Cat(<<>>, a) = a
BY ConcatProperties, ConcatEmptySeq DEF Cat

\* The members of a concatenation are those of the first, then those of the second.
LEMMA CatMembers ==
  ASSUME NEW S, NEW a \in Seq(S), NEW b \in Seq(S)
  PROVE  /\ \A i \in 1..Len(a) : Cat(a, b)[i] = a[i]
         /\ \A i \in (Len(a) + 1)..(Len(a) + Len(b)) : Cat(a, b)[i] = b[i - Len(a)]
BY ConcatProperties DEF Cat

\* g[i] is what the first i parts of s make together.
Steps(g, s, k, S) ==
  /\ g \in [1..k -> Seq(S)]
  /\ g = [i \in 1..k |-> IF i = 1 THEN s[i] ELSE Cat(g[i - 1], s[i])]

\* A sequence of sequences can be joined step by step.
LEMMA StepsExist ==
  ASSUME NEW S, NEW s \in Seq(Seq(S)), NEW k \in 0..Len(s)
  PROVE  \E g : Steps(g, s, k, S)
<1> DEFINE Bad == {n \in 0..Len(s) : ~ \E g : Steps(g, s, n, S)}
<1>1. Len(s) \in Nat /\ \A i \in 1..Len(s) : s[i] \in Seq(S)
  OBVIOUS
<1>2. SUFFICES ASSUME Bad # {} PROVE FALSE
  OBVIOUS
<1>3. PICK n \in Bad : \A m \in Bad : n <= m
  <2>1. Bad \in SUBSET Nat  BY <1>1
  <2> QED  BY <1>2, <2>1, LeastNatural
<1>4. n # 0
  <2>1. SUFFICES ASSUME n = 0 PROVE FALSE
    OBVIOUS
  <2>2. PICK g : g = [i \in 1..0 |-> <<>>]
    OBVIOUS
  <2>3. Steps(g, s, 0, S)
    BY <2>2 DEF Steps
  <2> QED  BY <2>1, <2>3
<1>5. n \in Nat /\ n - 1 \in 0..Len(s) /\ n - 1 \notin Bad
  <2>1. n \in 0..Len(s)
    BY <1>3
  <2>2. n \in Nat /\ n - 1 \in 0..Len(s) /\ ~(n <= n - 1)
    BY <1>1, <1>4, <2>1
  <2> HIDE DEF Bad
  <2> QED  BY <1>3, <2>2
<1>6. PICK g : Steps(g, s, n - 1, S)
  BY <1>5
<1>7. PICK h : h = [i \in 1..n |-> IF i \in 1..(n - 1) THEN g[i]
                                   ELSE IF i = 1 THEN s[i] ELSE Cat(g[i - 1], s[i])]
  OBVIOUS
<1>8. h \in [1..n -> Seq(S)]
  <2>1. SUFFICES ASSUME NEW i \in 1..n PROVE h[i] \in Seq(S)
    BY <1>7
  <2>2. CASE i \in 1..(n - 1)
    BY <1>6, <1>7, <2>2 DEF Steps
  <2>3. CASE i \notin 1..(n - 1)
    <3>1. CASE i = 1
      <4>1. s[1] \in Seq(S)
        BY <1>1, <1>5, <3>1
      <4>2. h[1] = s[1]
        BY <1>7, <2>3, <3>1
      <4> QED  BY <3>1, <4>1, <4>2
    <3>2. CASE i # 1
      <4>1. i - 1 \in 1..(n - 1) /\ i \in 1..Len(s)
        BY <1>1, <1>5, <2>3, <3>2
      <4>2. g[i - 1] \in Seq(S) /\ s[i] \in Seq(S)
        <5>1. g \in [1..(n - 1) -> Seq(S)]
          BY <1>6 DEF Steps
        <5>2. g[i - 1] \in Seq(S)
          BY <4>1, <5>1
        <5>3. s[i] \in Seq(S)
          BY <4>1
        <5> QED  BY <5>2, <5>3
      <4>3. h[i] = Cat(g[i - 1], s[i])
        BY <1>7, <2>3, <3>2
      <4>4. PICK a, b : a = g[i - 1] /\ b = s[i]
        OBVIOUS
      <4>5. Cat(a, b) \in Seq(S)
        BY <4>2, <4>4, CatIs
      <4> QED  BY <4>3, <4>4, <4>5
    <3> QED  BY <3>1, <3>2
  <2> QED  BY <2>2, <2>3
<1>9. h = [i \in 1..n |-> IF i = 1 THEN s[i] ELSE Cat(h[i - 1], s[i])]
  <2>1. ASSUME NEW i \in 1..n
        PROVE  h[i] = IF i = 1 THEN s[i] ELSE Cat(h[i - 1], s[i])
    <3>1. CASE i = 1
      <4>1. CASE 1 \in 1..(n - 1)
        BY <1>6, <1>7, <3>1, <4>1 DEF Steps
      <4>2. CASE 1 \notin 1..(n - 1)
        BY <1>7, <3>1, <4>2
      <4> QED  BY <4>1, <4>2
    <3>2. CASE i # 1
      <4>1. i - 1 \in 1..(n - 1) /\ i - 1 \in 1..n
        BY <1>5, <3>2
      <4>2. h[i - 1] = g[i - 1]
        BY <1>7, <4>1
      <4>3. CASE i \in 1..(n - 1)
        <5>1. g[i] = Cat(g[i - 1], s[i])
          BY <1>6, <3>2, <4>3 DEF Steps
        <5> QED  BY <1>7, <3>2, <4>2, <4>3, <5>1
      <4>4. CASE i \notin 1..(n - 1)
        BY <1>7, <3>2, <4>2, <4>4
      <4> QED  BY <4>3, <4>4
    <3> QED  BY <3>1, <3>2
  <2> QED  BY <1>7, <2>1
<1> QED  BY <1>3, <1>8, <1>9 DEF Steps
\* Every member of S has a rank.
Ranked(S, rank) == rank \in [S -> Int]
\* The members of t come in the order of their ranks, no two of one rank.
Rising(t, rank) == \A i, j \in DOMAIN t : i < j => rank[t[i]] < rank[t[j]]
\* All of a come before all of b.
Before(a, b, rank) == \A i \in DOMAIN a, j \in DOMAIN b : rank[a[i]] < rank[b[j]]

\* The members of two sequences, one after the other, each in order and all
\* of the first before all of the second.
LEMMA RisingCat ==
  ASSUME NEW S, NEW rank, Ranked(S, rank), NEW a \in Seq(S), NEW b \in Seq(S),
         Rising(a, rank), Rising(b, rank), Before(a, b, rank)
  PROVE  /\ Rising(Cat(a, b), rank)
         /\ ToSet(Cat(a, b)) = ToSet(a) \cup ToSet(b)
<1>1. PICK c : c = Cat(a, b)
  OBVIOUS
<1>2. /\ c \in Seq(S) /\ Len(c) = Len(a) + Len(b)
      /\ Len(a) \in Nat /\ Len(b) \in Nat /\ DOMAIN a = 1..Len(a) /\ DOMAIN b = 1..Len(b)
      /\ DOMAIN c = 1..Len(c)
      /\ \A i \in 1..Len(a) : c[i] = a[i]
      /\ \A i \in (Len(a) + 1)..(Len(a) + Len(b)) : c[i] = b[i - Len(a)]
  <2>1. Len(a) \in Nat /\ Len(b) \in Nat /\ DOMAIN a = 1..Len(a) /\ DOMAIN b = 1..Len(b)
    OBVIOUS
  <2>2. c \in Seq(S) /\ Len(c) = Len(a) + Len(b)
    BY <1>1, CatIs
  <2>3. DOMAIN c = 1..Len(c)
    BY <2>2
  <2>4. /\ \A i \in 1..Len(a) : c[i] = a[i]
        /\ \A i \in (Len(a) + 1)..(Len(a) + Len(b)) : c[i] = b[i - Len(a)]
    <3>1. /\ \A i \in 1..Len(a) : Cat(a, b)[i] = a[i]
          /\ \A i \in (Len(a) + 1)..(Len(a) + Len(b)) : Cat(a, b)[i] = b[i - Len(a)]
      BY CatMembers
    <3> QED  BY <1>1, <3>1
  <2> QED  BY <2>1, <2>2, <2>3, <2>4
<1>3. \A i \in DOMAIN c : /\ i \in Int
                          /\ \/ i \in DOMAIN a /\ c[i] = a[i]
                             \/ i > Len(a) /\ i - Len(a) \in DOMAIN b /\ c[i] = b[i - Len(a)]
  <2>1. SUFFICES ASSUME NEW i \in DOMAIN c
                 PROVE  /\ i \in Int
                        /\ \/ i \in DOMAIN a /\ c[i] = a[i]
                           \/ i > Len(a) /\ i - Len(a) \in DOMAIN b /\ c[i] = b[i - Len(a)]
    OBVIOUS
  <2>2. i \in 1..(Len(a) + Len(b))
    BY <1>2
  <2>3. i \in 1..Len(a) \/ i \in (Len(a) + 1)..(Len(a) + Len(b))
    BY <1>2, <2>2
  <2> QED  BY <1>2, <2>2, <2>3
<1> USE DEF Ranked
<1>4. Rising(c, rank)
  <2>1. SUFFICES ASSUME NEW i \in DOMAIN c, NEW j \in DOMAIN c, i < j
                 PROVE  rank[c[i]] < rank[c[j]]
    BY DEF Rising
  <2>2. CASE i \in DOMAIN a /\ j \in DOMAIN a
    BY <1>2, <2>1, <2>2 DEF Rising
  <2>3. CASE i \in DOMAIN a /\ j \notin DOMAIN a
    BY <1>2, <1>3, <2>1, <2>3 DEF Before
  <2>4. CASE i \notin DOMAIN a
    <3>1. i > Len(a) /\ i - Len(a) \in DOMAIN b /\ c[i] = b[i - Len(a)] /\ i \in Int /\ j \in Int
      BY <1>3, <2>4
    <3>2. j > Len(a) /\ j - Len(a) \in DOMAIN b /\ c[j] = b[j - Len(a)]
      BY <1>2, <1>3, <2>1, <3>1
    <3>3. i - Len(a) < j - Len(a)
      BY <1>2, <2>1, <3>1
    <3> QED  BY <3>1, <3>2, <3>3 DEF Rising
  <2> QED  BY <2>2, <2>3, <2>4
<1>5. ToSet(c) = ToSet(a) \cup ToSet(b)
  <2>1. \A i \in DOMAIN c : c[i] \in ToSet(a) \cup ToSet(b)
    BY <1>3 DEF ToSet
  <2>2. \A i \in DOMAIN a : i \in DOMAIN c /\ c[i] = a[i]
    BY <1>2
  <2>3. \A i \in DOMAIN b : i + Len(a) \in DOMAIN c /\ c[i + Len(a)] = b[i]
    <3>1. SUFFICES ASSUME NEW i \in DOMAIN b
                   PROVE  i + Len(a) \in DOMAIN c /\ c[i + Len(a)] = b[i]
      OBVIOUS
    <3>2. i + Len(a) \in (Len(a) + 1)..(Len(a) + Len(b)) /\ (i + Len(a)) - Len(a) = i
      BY <1>2
    <3> QED  BY <1>2, <3>2
  <2> QED  BY <2>1, <2>2, <2>3 DEF ToSet
<1> QED  BY <1>1, <1>4, <1>5

\* Some sequences flattened: if each is in order, and all of one before all
\* of the next, then the members of all are in order.
LEMMA Flattened ==
  ASSUME NEW S, NEW rank, Ranked(S, rank), NEW s \in Seq(Seq(S)),
         \A i \in 1..Len(s) : Rising(s[i], rank),
         \A i, j \in 1..Len(s) :
           i < j => \A a \in ToSet(s[i]), b \in ToSet(s[j]) : rank[a] < rank[b]
  PROVE  /\ FlattenSeq(s) \in Seq(S) /\ Rising(FlattenSeq(s), rank)
         /\ ToSet(FlattenSeq(s)) = UNION {ToSet(s[i]) : i \in 1..Len(s)}
<1> DEFINE n == Len(s)
<1>1. n \in Nat /\ DOMAIN s = 1..n /\ \A i \in 1..n : s[i] \in Seq(S)
  OBVIOUS
<1>2. CASE n = 0
  <2>1. FlattenSeq(s) = <<>>
    <3>1. s = <<>>
      BY <1>2, EmptySeq
    <3> QED  BY <1>2, <3>1 DEF FlattenSeq
  <2>2. PICK e : e = <<>>
    OBVIOUS
  <2>3. e \in Seq(S) /\ DOMAIN e = {} /\ 1..n = {}
    BY <1>2, <2>2
  <2> QED  BY <2>1, <2>2, <2>3 DEF Rising, ToSet
<1>3. CASE n # 0
  <2>1. PICK g : /\ FlattenSeq(s) = g[n] /\ g \in [1..n -> Seq(S)]
                 /\ g = [i \in 1..n |-> IF i = 1 THEN s[i] ELSE Cat(g[i - 1], s[i])]
    <3>1. PICK h : Steps(h, s, n, S)
      BY <1>1, StepsExist
    <3>2. h = [i \in 1..n |-> IF i = 1 THEN s[i] ELSE Cat(h[i - 1], s[i])]
      BY <3>1 DEF Steps
    <3>3. FlattenSeq(s) =
            (CHOOSE f : f = [i \in 1..n |-> IF i = 1 THEN s[i] ELSE f[i - 1] \o s[i]])[n]
      BY <1>3 DEF FlattenSeq
    <3>4. PICK f : /\ f = [i \in 1..n |-> IF i = 1 THEN s[i] ELSE Cat(f[i - 1], s[i])]
                   /\ FlattenSeq(s) = f[n]
      BY <3>2, <3>3 DEF Cat
    <3> DEFINE Off == {k \in 1..n : f[k] \notin Seq(S)}
    <3>5. SUFFICES ASSUME Off # {} PROVE FALSE
      BY <3>4
    <3>6. PICK k \in Off : \A m \in Off : k <= m
      <4>1. Off \in SUBSET Nat
        BY <1>1
      <4> QED  BY <3>5, <4>1, LeastNatural
    <3>7. k \in 1..n /\ f[k] \notin Seq(S)
      BY <3>6
    <3>8. k # 1
      BY <1>1, <3>4, <3>7
    <3>9. k - 1 \in 1..n /\ ~(k <= k - 1)
      BY <1>1, <3>7, <3>8
    <3>10. f[k - 1] \in Seq(S)
      BY <3>6, <3>9
    <3>11. f[k] = Cat(f[k - 1], s[k])
      BY <3>4, <3>7, <3>8
    <3>12. PICK a, b : a = f[k - 1] /\ b = s[k]
      OBVIOUS
    <3>13. a \in Seq(S) /\ b \in Seq(S)
      BY <1>1, <3>7, <3>10, <3>12
    <3>14. Cat(a, b) \in Seq(S)
      BY <3>13, CatIs
    <3> QED  BY <3>7, <3>11, <3>12, <3>14
  <2> DEFINE Good(k) == /\ Rising(g[k], rank)
                        /\ ToSet(g[k]) = UNION {ToSet(s[i]) : i \in 1..k}
             Bad == {k \in 1..n : ~Good(k)}
  <2>2. SUFFICES ASSUME Bad # {} PROVE FALSE
    <3>1. SUFFICES ASSUME Bad = {} PROVE Good(n) /\ g[n] \in Seq(S)
      BY <2>1
    <3> HIDE DEF Good
    <3>2. n \in 1..n
      BY <1>1, <1>3
    <3> QED  BY <2>1, <3>1, <3>2
  <2>3. PICK k \in Bad : \A m \in Bad : k <= m
    <3> HIDE DEF Good
    <3>1. Bad \in SUBSET Nat
      BY <1>1
    <3> HIDE DEF Bad
    <3> QED  BY <2>2, <3>1, LeastNatural
  <2>4. k \in 1..n /\ ~Good(k)
    BY <2>3
  <2>5. k # 1
    <3>1. SUFFICES ASSUME k = 1 PROVE FALSE
      OBVIOUS
    <3>2. g[1] = s[1] /\ 1 \in 1..n
      BY <1>1, <1>3, <2>1
    <3>3. UNION {ToSet(s[i]) : i \in 1..1} = ToSet(s[1])
      <4>1. 1..1 = {1}
        OBVIOUS
      <4> QED  BY <4>1
    <3>4. Rising(s[1], rank)
      BY <3>2
    <3> QED  BY <2>4, <3>1, <3>2, <3>3, <3>4
  <2>6. k \in Nat /\ k - 1 \in 1..n /\ ~(k <= k - 1) /\ 1..k = (1..(k - 1)) \cup {k}
    BY <1>1, <2>4, <2>5
  <2>7. Good(k - 1)
    <3>1. k - 1 \notin Bad
      BY <2>3, <2>6
    <3> HIDE DEF Good
    <3> QED  BY <2>6, <3>1
  <2>8. PICK a, b : a = g[k - 1] /\ b = s[k]
    OBVIOUS
  <2>9. g[k] = Cat(a, b)
    BY <2>1, <2>4, <2>5, <2>8
  <2>10. a \in Seq(S) /\ b \in Seq(S) /\ Rising(a, rank) /\ Rising(b, rank)
    BY <1>1, <2>1, <2>4, <2>6, <2>7, <2>8
  <2>11. ToSet(a) = UNION {ToSet(s[i]) : i \in 1..(k - 1)}
    BY <2>7, <2>8
  <2>12. Before(a, b, rank)
    <3>1. SUFFICES ASSUME NEW i \in DOMAIN a, NEW j \in DOMAIN b
                   PROVE  rank[a[i]] < rank[b[j]]
      BY DEF Before
    <3>2. a[i] \in ToSet(a) /\ b[j] \in ToSet(s[k])
      BY <2>8 DEF ToSet
    <3>3. PICK m \in 1..(k - 1) : a[i] \in ToSet(s[m])
      BY <2>11, <3>2
    <3>4. m \in 1..n /\ m < k
      BY <2>4, <2>6, <1>1
    <3> QED  BY <2>4, <3>2, <3>3, <3>4
  <2>13. Rising(g[k], rank) /\ ToSet(g[k]) = ToSet(a) \cup ToSet(b)
    <3> HIDE DEF Good, Bad
    <3>1. Rising(Cat(a, b), rank) /\ ToSet(Cat(a, b)) = ToSet(a) \cup ToSet(b)
      BY <2>10, <2>12, RisingCat
    <3> QED  BY <2>9, <3>1
  <2>14. ToSet(g[k]) = UNION {ToSet(s[i]) : i \in 1..k}
    BY <2>6, <2>8, <2>11, <2>13
  <2> QED  BY <2>4, <2>13, <2>14
<1> QED  BY <1>2, <1>3

----------------------------------------------------------------------------
(* A text has a number of bytes.                                            *)

\* A set of numbers up to n has a greatest one.
LEMMA MaxIs ==
  ASSUME NEW n \in Nat, NEW t \in SUBSET (1..n), t # {}
  PROVE  Max(t) \in t /\ \A y \in t : y <= Max(t)
<1> DEFINE S == {n - y : y \in t}
<1>1. S \in SUBSET Nat /\ S # {}
  <2>1. \A y \in t : n - y \in Nat
    OBVIOUS
  <2> QED  BY <2>1
<1>2. PICK d \in S : \A e \in S : d <= e
  BY <1>1, LeastNatural
<1>3. PICK x \in t : d = n - x
  OBVIOUS
<1>4. \A y \in t : x >= y
  <2>1. SUFFICES ASSUME NEW y \in t PROVE x >= y
    OBVIOUS
  <2>2. n - y \in S
    OBVIOUS
  <2>3. n - x <= n - y /\ x \in Int /\ y \in Int
    BY <1>2, <1>3, <2>2
  <2> QED  BY <2>3
<1>5. PICK m : m = Max(t)
  OBVIOUS
<1>6. m \in t /\ \A y \in t : m >= y
  BY <1>4, <1>5 DEF Max
<1>7. \A y \in t : y \in Int /\ m \in Int
  BY <1>6
<1> QED  BY <1>5, <1>6, <1>7

\* f[t] is how many bytes the characters at the places t of s have.
Weighs(f, s, n) ==
  /\ f \in [SUBSET (1..n) -> Nat]
  /\ \A t \in SUBSET (1..n) :
       f[t] = IF t = {} THEN 0 ELSE f[t \ {Max(t)}] + Width[s[Max(t)]]

\* The weight of each set of places is a number.
LEMMA WeightsExist ==
  ASSUME NEW s \in Seq(DOMAIN Width), NEW n \in 0..Len(s)
  PROVE  \E f : Weighs(f, s, n)
<1> DEFINE Has(k) == \E f : Weighs(f, s, k)
           Bad == {k \in 0..Len(s) : ~Has(k)}
<1>1. Len(s) \in Nat /\ \A i \in 1..Len(s) : Width[s[i]] \in Nat
  <2>1. \A i \in 1..Len(s) : s[i] \in DOMAIN Width
    OBVIOUS
  <2> QED  BY <2>1, CharactersAssumption
<1>2. SUFFICES ASSUME Bad # {} PROVE FALSE
  OBVIOUS
<1>3. PICK k \in Bad : \A m \in Bad : k <= m
  <2> HIDE DEF Has
  <2>1. Bad \in SUBSET Nat
    BY <1>1
  <2> HIDE DEF Bad
  <2> QED  BY <1>2, <2>1, LeastNatural
<1>4. k \in 0..Len(s) /\ k \in Nat /\ ~Has(k)
  BY <1>1, <1>3
<1>5. k # 0
  <2>1. SUFFICES ASSUME k = 0 PROVE FALSE
    OBVIOUS
  <2>2. PICK f : f = [t \in SUBSET (1..0) |-> 0]
    OBVIOUS
  <2>3. \A t \in SUBSET (1..0) : t = {}
    OBVIOUS
  <2>4. Weighs(f, s, 0)
    BY <2>2, <2>3 DEF Weighs
  <2> QED  BY <1>4, <2>1, <2>4
<1>6. k - 1 \in 0..Len(s) /\ k - 1 \notin Bad
  <2>1. k - 1 \in 0..Len(s) /\ ~(k <= k - 1)
    BY <1>1, <1>4, <1>5
  <2> HIDE DEF Bad
  <2> QED  BY <1>3, <2>1
<1>7. PICK f : Weighs(f, s, k - 1)
  BY <1>6
<1>8. PICK w : w = Width[s[k]]
  OBVIOUS
<1>9. w \in Nat
  BY <1>1, <1>4, <1>5, <1>8
<1>10. PICK h : h = [t \in SUBSET (1..k) |-> IF k \in t THEN f[t \ {k}] + w ELSE f[t]]
  OBVIOUS
<1>11. \A t \in SUBSET (1..k) : /\ t \ {k} \in SUBSET (1..(k - 1))
                                /\ k \notin t => t \in SUBSET (1..(k - 1))
  <2>1. 1..k = (1..(k - 1)) \cup {k}
    BY <1>4, <1>5
  <2> QED  BY <2>1
<1>12. \A t \in SUBSET (1..(k - 1)) : t \in SUBSET (1..k) /\ k \notin t /\ h[t] = f[t]
  <2>1. k \notin 1..(k - 1) /\ 1..(k - 1) \subseteq 1..k
    BY <1>4
  <2> QED  BY <1>10, <2>1
<1>13. h \in [SUBSET (1..k) -> Nat]
  <2>1. \A t \in SUBSET (1..(k - 1)) : f[t] \in Nat
    BY <1>7 DEF Weighs
  <2>2. \A t \in SUBSET (1..k) : (IF k \in t THEN f[t \ {k}] + w ELSE f[t]) \in Nat
    BY <1>9, <1>11, <2>1
  <2> QED  BY <1>10, <2>2
<1>14. ASSUME NEW t \in SUBSET (1..k)
       PROVE  h[t] = IF t = {} THEN 0 ELSE h[t \ {Max(t)}] + Width[s[Max(t)]]
  <2>1. CASE k \in t
    <3>1. Max(t) = k
      <4>1. PICK m : m = Max(t)
        OBVIOUS
      <4>2. m \in t /\ k <= m
        BY <1>4, <2>1, <4>1, MaxIs
      <4>3. m \in 1..k
        BY <4>2
      <4> QED  BY <1>4, <4>1, <4>2, <4>3
    <3>2. t \ {k} \in SUBSET (1..(k - 1))
      BY <1>11
    <3>3. h[t \ {k}] = f[t \ {k}]
      BY <1>12, <3>2
    <3> QED  BY <1>8, <1>10, <2>1, <3>1, <3>3
  <2>2. CASE k \notin t /\ t # {}
    <3>1. t \in SUBSET (1..(k - 1))
      BY <1>11, <2>2
    <3>2. h[t] = f[t] /\ f[t] = f[t \ {Max(t)}] + Width[s[Max(t)]]
      BY <1>7, <1>12, <2>2, <3>1 DEF Weighs
    <3>3. t \ {Max(t)} \in SUBSET (1..(k - 1))
      BY <3>1
    <3> QED  BY <1>12, <2>2, <3>2, <3>3
  <2>3. CASE t = {}
    <3>1. t \in SUBSET (1..(k - 1))
      BY <2>3
    <3>2. f[t] = 0
      BY <1>7, <2>3, <3>1 DEF Weighs
    <3> QED  BY <1>12, <2>3, <3>1, <3>2
  <2> QED  BY <2>1, <2>2, <2>3
<1>15. Weighs(h, s, k)
  BY <1>13, <1>14 DEF Weighs
<1> QED  BY <1>4, <1>15

\* A text has a number of bytes.
LEMMA BytesAreCounted ==
  ASSUME NEW s \in Seq(DOMAIN Width)
  PROVE  Bytes(s) \in Nat
<1> DEFINE n == Len(s)
<1>1. n \in Nat /\ DOMAIN s = 1..n /\ \A i \in 1..n : Width[s[i]] \in Nat
  <2>1. \A i \in 1..n : s[i] \in DOMAIN Width
    OBVIOUS
  <2> QED  BY <2>1, CharactersAssumption
<1>2. Bytes(s) = (CHOOSE f : f = [t \in SUBSET DOMAIN s |->
                    IF t = {} THEN 0 ELSE f[t \ {Max(t)}] + Width[s[Max(t)]]])[DOMAIN s]
  BY DEF Bytes, FoldLeft, MapThenFoldSet
<1>3. PICK g : Weighs(g, s, n)
  <2>1. n \in 0..Len(s)
    BY <1>1
  <2> QED  BY <2>1, WeightsExist
<1>4. g = [t \in SUBSET DOMAIN s |-> IF t = {} THEN 0 ELSE g[t \ {Max(t)}] + Width[s[Max(t)]]]
  BY <1>1, <1>3 DEF Weighs
<1>5. PICK c : /\ c = [t \in SUBSET DOMAIN s |->
                         IF t = {} THEN 0 ELSE c[t \ {Max(t)}] + Width[s[Max(t)]]]
               /\ Bytes(s) = c[DOMAIN s]
  BY <1>2, <1>4
<1> DEFINE Off(k) == \E t \in SUBSET (1..k) : c[t] \notin Nat
           Bad == {k \in 0..n : Off(k)}
<1>6. SUFFICES ASSUME Bad # {} PROVE FALSE
  <2>1. ASSUME ~Off(n) PROVE Bytes(s) \in Nat
    <3>1. 1..n \in SUBSET (1..n)
      OBVIOUS
    <3>2. c[1..n] \in Nat
      BY <2>1, <3>1
    <3>3. Bytes(s) = c[DOMAIN s]
      BY <1>5
    <3> QED  BY <1>1, <3>2, <3>3
  <2>2. n \in 0..n
    BY <1>1
  <2> HIDE DEF Off
  <2> QED  BY <2>1, <2>2
<1>7. PICK k \in Bad : \A m \in Bad : k <= m
  <2> HIDE DEF Off
  <2>1. Bad \in SUBSET Nat
    BY <1>1
  <2> HIDE DEF Bad
  <2> QED  BY <1>6, <2>1, LeastNatural
<1>8. k \in 0..n /\ k \in Nat
  BY <1>1, <1>7
<1>9. PICK t \in SUBSET (1..k) : c[t] \notin Nat
  BY <1>7
<1>10. t \in SUBSET DOMAIN s /\ t # {}
  BY <1>1, <1>5, <1>8, <1>9
<1>11. PICK m : m = Max(t)
  OBVIOUS
<1>12. m \in t /\ (\A y \in t : y <= m) /\ m \in 1..k /\ m \in 1..n
  BY <1>1, <1>8, <1>10, <1>11, MaxIs
<1>13. c[t] = c[t \ {m}] + Width[s[m]]
  BY <1>5, <1>10, <1>11
<1>14. m - 1 \in 0..n /\ ~(k <= m - 1) /\ t \ {m} \in SUBSET (1..(m - 1))
  <2>1. m - 1 \in 0..n /\ ~(k <= m - 1)
    BY <1>1, <1>8, <1>12
  <2>2. \A y \in t \ {m} : y \in 1..(m - 1)
    <3>1. SUFFICES ASSUME NEW y \in t, y # m PROVE y \in 1..(m - 1)
      OBVIOUS
    <3>2. y \in 1..k /\ y <= m
      BY <1>12
    <3> QED  BY <1>8, <1>12, <3>1, <3>2
  <2> QED  BY <2>1, <2>2
<1>15. m - 1 \notin Bad
  <2> HIDE DEF Bad
  <2> QED  BY <1>7, <1>14
<1>16. c[t \ {m}] \in Nat
  BY <1>14, <1>15
<1> QED  BY <1>1, <1>9, <1>12, <1>13, <1>16

----------------------------------------------------------------------------
(* A text in a text.                                                        *)

\* w is in s, after its first i characters.
Placing(s, w, i) ==
  i \in 0..(Len(s) - Len(w)) /\ \A k \in 1..Len(w) : s[i + k] = w[k]

\* The part of s from i to j.
Piece(s, i, j) == SubSeq(s, i, j)

\* A part of a sequence has the members from its first place to its last.
LEMMA PieceIs ==
  ASSUME NEW S, NEW s \in Seq(S), NEW i \in 1..(Len(s) + 1), NEW j \in 0..Len(s)
  PROVE  /\ Piece(s, i, j) \in Seq(S)
         /\ Len(Piece(s, i, j)) = IF i <= j THEN j - i + 1 ELSE 0
         /\ \A k \in 1..(j - i + 1) : Piece(s, i, j)[k] = s[i + k - 1]
<1>1. i \in Int /\ j \in Int /\ \A k \in i..j : s[k] \in S
  OBVIOUS
<1> QED  BY <1>1, SubSeqProperties DEF Piece

\* A part of s as long as w equals w where w is placed.
LEMMA PieceEquals ==
  ASSUME NEW S, NEW s \in Seq(S), NEW w \in Seq(S), NEW i \in 0..(Len(s) - Len(w))
  PROVE  Piece(s, i + 1, i + Len(w)) = w <=> Placing(s, w, i)
<1>1. PICK n : n = Len(w)
  OBVIOUS
<1>2. n \in Nat /\ Len(s) \in Nat /\ i + 1 \in 1..(Len(s) + 1) /\ i + n \in 0..Len(s)
  BY <1>1
<1>3. PICK p : p = Piece(s, i + 1, i + n)
  OBVIOUS
<1>4. /\ p \in Seq(S) /\ Len(p) = IF i + 1 <= i + n THEN (i + n) - (i + 1) + 1 ELSE 0
      /\ \A k \in 1..((i + n) - (i + 1) + 1) : p[k] = s[(i + 1) + k - 1]
  BY <1>2, <1>3, PieceIs
<1>5. Len(p) = n /\ \A k \in 1..n : p[k] = s[i + k]
  <2>1. i \in Int /\ (i + n) - (i + 1) + 1 = n
    BY <1>1, <1>2
  <2>2. Len(p) = n
    BY <1>2, <1>4, <2>1
  <2>3. ASSUME NEW k \in 1..n PROVE p[k] = s[i + k]
    <3>1. (i + 1) + k - 1 = i + k
      BY <1>2, <2>1
    <3> QED  BY <1>4, <2>1, <2>3, <3>1
  <2> QED  BY <2>2, <2>3
<1>6. p = w <=> \A k \in 1..n : p[k] = w[k]
  BY <1>1, <1>4, <1>5, SameSeq
<1> QED  BY <1>1, <1>3, <1>5, <1>6 DEF Placing

\* A sequence cut in two places is what it was.
LEMMA CutInThree ==
  ASSUME NEW S, NEW s \in Seq(S), NEW i \in 0..Len(s), NEW j \in 0..Len(s), i <= j
  PROVE  Cat(Cat(Piece(s, 1, i), Piece(s, i + 1, j)), Piece(s, j + 1, Len(s))) = s
<1>1. Len(s) \in Nat
  OBVIOUS
<1>2. Cat(Piece(s, 1, i), Piece(s, i + 1, j)) = Piece(s, 1, j)
  <2>1. 1 \in 1..(Len(s) + 1) /\ i \in (1 - 1)..Len(s) /\ j \in i..Len(s)
    BY <1>1
  <2> QED  BY <2>1, ConcatAdjacentSubSeq DEF Piece, Cat
<1>3. Cat(Piece(s, 1, j), Piece(s, j + 1, Len(s))) = Piece(s, 1, Len(s))
  <2>1. 1 \in 1..(Len(s) + 1) /\ j \in (1 - 1)..Len(s) /\ Len(s) \in j..Len(s)
    BY <1>1
  <2> QED  BY <2>1, ConcatAdjacentSubSeq DEF Piece, Cat
<1>4. Piece(s, 1, Len(s)) = s
  BY SubSeqFull DEF Piece
<1> QED  BY <1>2, <1>3, <1>4

\* A split into a text, w and a text.
SplitAt(s, w, before, after, i, j) ==
  /\ i \in 0..Len(s) /\ j \in 0..Len(s)
  /\ Cat(Cat(Piece(s, 1, i), Piece(s, i + 1, j)), Piece(s, j + 1, Len(s))) = s
  /\ Piece(s, i + 1, j) = w
  /\ before \/ Piece(s, 1, i) = <<>>
  /\ after \/ Piece(s, j + 1, Len(s)) = <<>>

\* A text occurs where a split has it in the middle.
LEMMA OccursSplits ==
  ASSUME NEW s, NEW w, NEW before \in BOOLEAN, NEW after \in BOOLEAN
  PROVE  Occurs(s, w, before, after) <=> \E i, j : SplitAt(s, w, before, after, i, j)
BY DEF Occurs, SplitAt, Cat, Piece

\* A text occurs in another where it can be placed: first, if nothing may
\* come before it, last, if nothing may come after.
LEMMA OccursPlaced ==
  ASSUME NEW S, NEW s \in Seq(S), NEW w \in Seq(S), NEW before \in BOOLEAN, NEW after \in BOOLEAN
  PROVE  Occurs(s, w, before, after) <=>
           \E i : Placing(s, w, i) /\ (before \/ i = 0) /\ (after \/ i + Len(w) = Len(s))
<1>1. Len(s) \in Nat /\ Len(w) \in Nat
  OBVIOUS
<1>2. ASSUME NEW i, NEW j, SplitAt(s, w, before, after, i, j)
      PROVE  Placing(s, w, i) /\ (before \/ i = 0) /\ (after \/ i + Len(w) = Len(s))
  <2>1. /\ i \in 0..Len(s) /\ j \in 0..Len(s) /\ 1 \in 1..(Len(s) + 1)
        /\ i + 1 \in 1..(Len(s) + 1) /\ j + 1 \in 1..(Len(s) + 1) /\ Len(s) \in 0..Len(s)
    BY <1>1, <1>2 DEF SplitAt
  <2>2. PICK a, b, c : a = Piece(s, 1, i) /\ b = Piece(s, i + 1, j) /\ c = Piece(s, j + 1, Len(s))
    OBVIOUS
  <2>3. a \in Seq(S) /\ Len(a) = i
    <3>1. a \in Seq(S) /\ Len(a) = IF 1 <= i THEN i - 1 + 1 ELSE 0
      BY <2>1, <2>2, PieceIs
    <3> QED  BY <2>1, <3>1
  <2>4. b \in Seq(S) /\ Len(b) = IF i + 1 <= j THEN j - (i + 1) + 1 ELSE 0
    BY <2>1, <2>2, PieceIs
  <2>5. c \in Seq(S) /\ Len(c) = Len(s) - j
    <3>1. c \in Seq(S) /\ Len(c) = IF j + 1 <= Len(s) THEN Len(s) - (j + 1) + 1 ELSE 0
      BY <2>1, <2>2, PieceIs
    <3> QED  BY <1>1, <2>1, <3>1
  <2>6. Cat(Cat(a, b), c) = s /\ b = w /\ (before \/ a = <<>>) /\ (after \/ c = <<>>)
    BY <1>2, <2>2 DEF SplitAt
  <2>7. Len(s) = Len(a) + Len(b) + Len(c)
    <3>1. PICK d : d = Cat(a, b)
      OBVIOUS
    <3>2. d \in Seq(S) /\ Len(d) = Len(a) + Len(b)
      BY <2>3, <2>4, <3>1, CatIs
    <3>3. Len(Cat(d, c)) = Len(d) + Len(c)
      BY <2>5, <3>2, CatIs
    <3> QED  BY <2>6, <3>1, <3>2, <3>3
  <2>8. j = i + Len(w) /\ i \in 0..(Len(s) - Len(w))
    <3>1. PICK l, m : l = Len(s) /\ m = Len(w)
      OBVIOUS
    <3>2. l \in Nat /\ m \in Nat /\ i \in 0..l /\ j \in 0..l
      BY <1>1, <2>1, <3>1
    <3>3. m = IF i + 1 <= j THEN j - (i + 1) + 1 ELSE 0
      BY <2>4, <2>6, <3>1
    <3>4. l = i + m + (l - j)
      BY <2>3, <2>5, <2>6, <2>7, <3>1
    <3>5. j = i + m /\ i \in 0..(l - m)
      BY <3>2, <3>4
    <3> QED  BY <3>1, <3>5
  <2>9. Piece(s, i + 1, i + Len(w)) = w
    BY <2>2, <2>6, <2>8
  <2>10. Placing(s, w, i)
    BY <2>8, <2>9, PieceEquals
  <2>11. a = <<>> => i = 0
    BY <2>3
  <2>12. c = <<>> => i + Len(w) = Len(s)
    BY <1>1, <2>1, <2>5, <2>8
  <2> QED  BY <2>6, <2>10, <2>11, <2>12
<1>3. ASSUME NEW i, Placing(s, w, i), before \/ i = 0, after \/ i + Len(w) = Len(s)
      PROVE  SplitAt(s, w, before, after, i, i + Len(w))
  <2>1. PICK j : j = i + Len(w)
    OBVIOUS
  <2>2. i \in 0..(Len(s) - Len(w)) /\ i \in 0..Len(s) /\ j \in 0..Len(s) /\ i <= j
    BY <1>1, <1>3, <2>1 DEF Placing
  <2>3. Piece(s, i + 1, j) = w
    BY <1>3, <2>1, <2>2, PieceEquals
  <2>4. Cat(Cat(Piece(s, 1, i), Piece(s, i + 1, j)), Piece(s, j + 1, Len(s))) = s
    BY <2>2, CutInThree
  <2>5. i = 0 => Piece(s, 1, i) = <<>>
    BY SubSeqEmpty DEF Piece
  <2>6. j = Len(s) => Piece(s, j + 1, Len(s)) = <<>>
    <3>1. Len(s) + 1 \in Int /\ Len(s) \in Int /\ Len(s) < Len(s) + 1
      BY <1>1
    <3> QED  BY <3>1, SubSeqEmpty DEF Piece
  <2> QED  BY <1>3, <2>1, <2>2, <2>3, <2>4, <2>5, <2>6 DEF SplitAt
<1> QED  BY <1>2, <1>3, OccursSplits

\* What a text is prefixed by is placed first in it.
LEMMA PrefixPlaced ==
  ASSUME NEW S, NEW s \in Seq(S), NEW w \in Seq(S)
  PROVE  /\ IsPrefix(w, s) <=> Placing(s, w, 0)
         /\ Len(w) <= Len(s) => (SubSeq(s, 1, Len(w)) = w <=> Placing(s, w, 0))
<1>1. Len(s) \in Nat /\ Len(w) \in Nat
  OBVIOUS
<1>2. IsPrefix(w, s) <=> Len(w) <= Len(s) /\ Piece(w, 1, Len(w)) = Piece(s, 1, Len(w))
  BY DEF IsPrefix, Piece
<1>3. Piece(w, 1, Len(w)) = w
  BY SubSeqFull DEF Piece
<1>4. ASSUME Len(w) <= Len(s)
      PROVE  Piece(s, 1, Len(w)) = w <=> Placing(s, w, 0)
  <2>1. PICK i : i = 0
    OBVIOUS
  <2>2. i \in 0..(Len(s) - Len(w)) /\ i + 1 = 1 /\ i + Len(w) = Len(w)
    BY <1>1, <1>4, <2>1
  <2>3. Piece(s, i + 1, i + Len(w)) = w <=> Placing(s, w, i)
    BY <2>2, PieceEquals
  <2> QED  BY <2>1, <2>2, <2>3
<1>5. Placing(s, w, 0) => Len(w) <= Len(s)
  BY <1>1 DEF Placing
<1>6. Len(w) <= Len(s) => (SubSeq(s, 1, Len(w)) = w <=> Placing(s, w, 0))
  BY <1>4 DEF Piece
<1> QED  BY <1>2, <1>3, <1>4, <1>5, <1>6

\* What a text is prefixed by occurs first in it.
LEMMA PrefixOccurs ==
  ASSUME NEW S, NEW s \in Seq(S), NEW w \in Seq(S)
  PROVE  Occurs(s, w, FALSE, TRUE) <=> Placing(s, w, 0)
<1>1. PICK f, t : f = FALSE /\ t = TRUE
  OBVIOUS
<1>2. Occurs(s, w, f, t) <=> \E i : Placing(s, w, i) /\ (f \/ i = 0) /\ (t \/ i + Len(w) = Len(s))
  BY <1>1, OccursPlaced
<1> QED  BY <1>1, <1>2

\* A sequence backwards.
LEMMA ReverseIs ==
  ASSUME NEW S, NEW s \in Seq(S)
  PROVE  /\ Reverse(s) \in Seq(S) /\ Len(Reverse(s)) = Len(s)
         /\ \A i \in 1..Len(s) : Reverse(s)[i] = s[Len(s) - i + 1]
<1>1. PICK n : n = Len(s)
  OBVIOUS
<1>2. n \in Nat /\ \A i \in 1..n : n - i + 1 \in 1..n /\ s[n - i + 1] \in S
  BY <1>1
<1>3. PICK r : r = Reverse(s)
  OBVIOUS
<1>4. r = [i \in 1..n |-> s[n - i + 1]]
  BY <1>1, <1>3 DEF Reverse
<1>5. r \in [1..n -> S]
  BY <1>2, <1>4
<1>6. r \in Seq(S) /\ Len(r) = n
  BY <1>2, <1>5
<1> QED  BY <1>1, <1>3, <1>4, <1>6

\* What a text is suffixed by occurs last in it.
LEMMA SuffixOccurs ==
  ASSUME NEW S, NEW s \in Seq(S), NEW w \in Seq(S)
  PROVE  IsSuffix(w, s) <=> Occurs(s, w, TRUE, FALSE)
<1>1. PICK n, m : n = Len(s) /\ m = Len(w)
  OBVIOUS
<1>2. n \in Nat /\ m \in Nat
  BY <1>1
<1>3. PICK x, y : x = Reverse(s) /\ y = Reverse(w)
  OBVIOUS
<1>4. /\ x \in Seq(S) /\ Len(x) = n /\ \A k \in 1..n : x[k] = s[n - k + 1]
      /\ y \in Seq(S) /\ Len(y) = m /\ \A k \in 1..m : y[k] = w[m - k + 1]
  BY <1>1, <1>3, ReverseIs
<1>5. IsSuffix(w, s) <=> Placing(x, y, 0)
  BY <1>3, <1>4, PrefixPlaced DEF IsSuffix
<1>6. Placing(x, y, 0) <=> m <= n /\ \A k \in 1..m : x[k] = y[k]
  <2>1. 0 \in 0..(n - m) <=> m <= n
    BY <1>2
  <2>2. \A k \in 1..m : 0 + k = k
    BY <1>2
  <2>3. Placing(x, y, 0) <=> 0 \in 0..(n - m) /\ \A k \in 1..m : x[0 + k] = y[k]
    BY <1>4 DEF Placing
  <2> QED  BY <2>1, <2>2, <2>3
<1>7. ASSUME m <= n
      PROVE  (\A k \in 1..m : x[k] = y[k]) <=> (\A k \in 1..m : s[(n - m) + k] = w[k])
  <2>1. ASSUME NEW k \in 1..m
        PROVE  /\ m - k + 1 \in 1..m
               /\ x[k] = y[k] <=> s[(n - m) + (m - k + 1)] = w[m - k + 1]
    <3>1. k \in 1..n /\ m - k + 1 \in 1..m /\ n - k + 1 = (n - m) + (m - k + 1)
      BY <1>2, <1>7
    <3> QED  BY <1>4, <3>1
  <2>2. ASSUME \A k \in 1..m : x[k] = y[k], NEW k \in 1..m
        PROVE  s[(n - m) + k] = w[k]
    <3>1. m - k + 1 \in 1..m /\ m - (m - k + 1) + 1 = k
      BY <1>2
    <3> QED  BY <2>1, <2>2, <3>1
  <2>3. ASSUME \A k \in 1..m : s[(n - m) + k] = w[k], NEW k \in 1..m
        PROVE  x[k] = y[k]
    BY <2>1, <2>3
  <2> QED  BY <2>2, <2>3
<1>8. Placing(s, w, n - m) <=> m <= n /\ \A k \in 1..m : s[(n - m) + k] = w[k]
  BY <1>1, <1>2 DEF Placing
<1>9. Occurs(s, w, TRUE, FALSE) <=> Placing(s, w, n - m)
  <2>1. PICK f, t : f = FALSE /\ t = TRUE
    OBVIOUS
  <2>2. Occurs(s, w, t, f) <=> \E i : Placing(s, w, i) /\ (t \/ i = 0) /\ (f \/ i + Len(w) = Len(s))
    BY <2>1, OccursPlaced
  <2>3. \A i : Placing(s, w, i) => (i + Len(w) = Len(s) <=> i = n - m)
    BY <1>1, <1>2 DEF Placing
  <2>4. (n - m) + m = n
    BY <1>2
  <2> QED  BY <1>1, <2>1, <2>2, <2>3, <2>4
<1> QED  BY <1>5, <1>6, <1>7, <1>8, <1>9

\* The window finds a text wherever it occurs.
LEMMA WindowOccurs ==
  ASSUME NEW S, NEW s \in Seq(S), NEW w \in Seq(S)
  PROVE  HasWindow(s, w) <=> Occurs(s, w, TRUE, TRUE)
<1>1. Len(s) \in Nat /\ Len(w) \in Nat
  OBVIOUS
<1>2. Occurs(s, w, TRUE, TRUE) <=> \E i : Placing(s, w, i)
  <2>1. PICK t : t = TRUE
    OBVIOUS
  <2>2. Occurs(s, w, t, t) <=> \E i : Placing(s, w, i) /\ (t \/ i = 0) /\ (t \/ i + Len(w) = Len(s))
    BY <2>1, OccursPlaced
  <2> QED  BY <2>1, <2>2
<1>3. HasWindow(s, w) <=>
        w = <<>> \/ \E i \in 1..(Len(s) - Len(w) + 1) : Piece(s, i, i + Len(w) - 1) = w
  BY DEF HasWindow, Piece
<1>4. ASSUME NEW i \in 1..(Len(s) - Len(w) + 1)
      PROVE  Piece(s, i, i + Len(w) - 1) = w <=> Placing(s, w, i - 1)
  <2>1. PICK j : j = i - 1
    OBVIOUS
  <2>2. j \in 0..(Len(s) - Len(w)) /\ j + 1 = i /\ j + Len(w) = i + Len(w) - 1
    BY <1>1, <2>1
  <2>3. Piece(s, j + 1, j + Len(w)) = w <=> Placing(s, w, j)
    BY <2>2, PieceEquals
  <2> QED  BY <2>1, <2>2, <2>3
<1>5. ASSUME NEW i, Placing(s, w, i)
      PROVE  HasWindow(s, w)
  <2>1. PICK j : j = i + 1
    OBVIOUS
  <2>2. j \in 1..(Len(s) - Len(w) + 1) /\ j - 1 = i
    BY <1>1, <1>5, <2>1 DEF Placing
  <2>3. Piece(s, j, j + Len(w) - 1) = w
    BY <1>4, <1>5, <2>2
  <2> QED  BY <1>3, <2>2, <2>3
<1>6. w = <<>> => Placing(s, w, 0)
  BY <1>1 DEF Placing
<1> QED  BY <1>2, <1>3, <1>4, <1>5, <1>6

\* A path is covered by a list that has it, or that has what it is below.
LEMMA CoveredOccurs ==
  ASSUME NEW S, NEW p \in Seq(S), NEW list, \A f \in list : f \in Seq(S)
  PROVE  CoveredBy(list, p) <=>
           p \in list \/ \E f \in list : Len(f) < Len(p) /\ Occurs(p, f, FALSE, TRUE)
<1>1. ASSUME NEW f \in list
      PROVE  /\ f \in Seq(S) /\ Len(f) \in Nat /\ Len(p) \in Nat
             /\ Occurs(p, f, FALSE, TRUE) <=> Placing(p, f, 0)
             /\ Len(f) <= Len(p) => (SubSeq(p, 1, Len(f)) = f <=> Placing(p, f, 0))
  <2>1. f \in Seq(S)
    BY <1>1
  <2>2. Len(f) \in Nat /\ Len(p) \in Nat
    BY <2>1
  <2>3. Occurs(p, f, FALSE, TRUE) <=> Placing(p, f, 0)
    BY <2>1, PrefixOccurs
  <2>4. Len(f) <= Len(p) => (SubSeq(p, 1, Len(f)) = f <=> Placing(p, f, 0))
    BY <2>1, PrefixPlaced
  <2> QED  BY <2>1, <2>2, <2>3, <2>4
<1>2. ASSUME NEW f \in list
      PROVE  (Len(f) < Len(p) /\ SubSeq(p, 1, Len(f)) = f)
               <=> (Len(f) < Len(p) /\ Occurs(p, f, FALSE, TRUE))
  <2>1. Len(f) < Len(p) => Len(f) <= Len(p)
    BY <1>1
  <2> QED  BY <1>1, <2>1
<1> QED  BY <1>2 DEF CoveredBy

----------------------------------------------------------------------------
(* The rules of each kind.                                                  *)

\* The n rules d are declared, each once; their checks p are placed in that
\* order, and perhaps the format's after them.
Declares(d, p, n) ==
  /\ n \in Nat /\ DOMAIN d = 1..n /\ Len(d) = n
  /\ \A i, j \in 1..n : d[i] = d[j] => i = j
  /\ \A i \in 1..n : p[i] = d[i] /\ d[i] # "well_known"
  /\ DOMAIN p = 1..n \/ (DOMAIN p = 1..(n + 1) /\ p[n + 1] = "well_known")

\* What each rule is about.
OfLengths == {"len", "min_len", "max_len"}
OfTexts ==
  OfLengths \cup TextParts \cup {"len_bytes", "min_bytes", "max_bytes", "pattern", "well_known"}
OfSizes == {"min_items", "max_items", "min_pairs", "max_pairs"}
RuleNames == OfTexts \cup OfSizes \cup {"const", "in", "not_in", "defined_only"}
Concerns(kind, rule) ==
  /\ rule \in RuleNames
  /\ rule \in OfTexts => kind \in {"string", "bytes"}
  /\ rule \in OfSizes => kind \in {"repeated", "map"}

\* The rules of texts.
LEMMA StringRules ==
  /\ Declares(DeclaredRules["string"], Placed["string"], 14)
  /\ \A rule \in ToSet(Placed["string"]) : Concerns("string", rule)
<1>1. PICK d, p : d = DeclaredRules["string"] /\ p = Placed["string"]
  OBVIOUS
<1>2. d = <<"const", "len", "min_len", "max_len", "len_bytes", "min_bytes", "max_bytes",
            "pattern", "prefix", "suffix", "contains", "not_contains", "in", "not_in">>
  BY <1>1 DEF DeclaredRules
<1>3. p = <<"const", "len", "min_len", "max_len", "len_bytes", "min_bytes", "max_bytes",
            "pattern", "prefix", "suffix", "contains", "not_contains", "in", "not_in",
            "well_known">>
  BY <1>1 DEF Placed
<1>4. /\ d[1] = "const" /\ d[2] = "len" /\ d[3] = "min_len" /\ d[4] = "max_len"
      /\ d[5] = "len_bytes" /\ d[6] = "min_bytes" /\ d[7] = "max_bytes" /\ d[8] = "pattern"
      /\ d[9] = "prefix" /\ d[10] = "suffix" /\ d[11] = "contains" /\ d[12] = "not_contains"
      /\ d[13] = "in" /\ d[14] = "not_in"
  BY <1>2
<1>5. \A i \in 1..14 : i \in {1, 2, 3, 4, 5, 6, 7, 8, 9, 10, 11, 12, 13, 14}
  OBVIOUS
<1>6. \A i, j \in 1..14 : d[i] = d[j] => i = j
  BY <1>4, <1>5
<1>7. \A i \in 1..14 : p[i] = d[i]
  BY <1>2, <1>3, <1>5
<1>8. \A i \in 1..14 : d[i] # "well_known"
  BY <1>4, <1>5
<1>9. DOMAIN d = 1..14 /\ Len(d) = 14 /\ DOMAIN p = 1..15 /\ p[15] = "well_known"
  BY <1>2, <1>3
<1>10. Declares(d, p, 14)
  BY <1>6, <1>7, <1>8, <1>9 DEF Declares
<1>11. ASSUME NEW i \in 1..15
       PROVE  p[i] \in OfTexts \cup {"const", "in", "not_in"}
  <2>1. i = 15 \/ i \in 1..14
    OBVIOUS
  <2> QED  BY <1>4, <1>5, <1>7, <1>9, <2>1 DEF OfTexts, OfLengths, TextParts
<1>12. ASSUME NEW rule \in ToSet(p) PROVE Concerns("string", rule)
  <2>1. rule \in OfTexts \cup {"const", "in", "not_in"}
    BY <1>9, <1>11 DEF ToSet
  <2>2. rule \notin OfSizes /\ rule \in RuleNames
    BY <2>1 DEF OfTexts, OfLengths, TextParts, OfSizes, RuleNames
  <2> QED  BY <2>2 DEF Concerns
<1> QED  BY <1>1, <1>10, <1>12

\* The rules of bytes.
LEMMA BytesRules ==
  /\ Declares(DeclaredRules["bytes"], Placed["bytes"], 10)
  /\ \A rule \in ToSet(Placed["bytes"]) : Concerns("bytes", rule)
<1>1. PICK d, p : d = DeclaredRules["bytes"] /\ p = Placed["bytes"]
  OBVIOUS
<1>2. d = <<"const", "len", "min_len", "max_len", "pattern", "prefix", "suffix", "contains",
            "in", "not_in">>
  BY <1>1 DEF DeclaredRules
<1>3. p = <<"const", "len", "min_len", "max_len", "pattern", "prefix", "suffix", "contains",
            "in", "not_in", "well_known">>
  BY <1>1 DEF Placed
<1>4. /\ d[1] = "const" /\ d[2] = "len" /\ d[3] = "min_len" /\ d[4] = "max_len"
      /\ d[5] = "pattern" /\ d[6] = "prefix" /\ d[7] = "suffix" /\ d[8] = "contains"
      /\ d[9] = "in" /\ d[10] = "not_in"
  BY <1>2
<1>5. \A i \in 1..10 : i \in {1, 2, 3, 4, 5, 6, 7, 8, 9, 10}
  OBVIOUS
<1>6. \A i, j \in 1..10 : d[i] = d[j] => i = j
  BY <1>4, <1>5
<1>7. \A i \in 1..10 : p[i] = d[i]
  BY <1>2, <1>3, <1>5
<1>8. \A i \in 1..10 : d[i] # "well_known"
  BY <1>4, <1>5
<1>9. DOMAIN d = 1..10 /\ Len(d) = 10 /\ DOMAIN p = 1..11 /\ p[11] = "well_known"
  BY <1>2, <1>3
<1>10. Declares(d, p, 10)
  BY <1>6, <1>7, <1>8, <1>9 DEF Declares
<1>11. ASSUME NEW i \in 1..11
       PROVE  p[i] \in OfTexts \cup {"const", "in", "not_in"}
  <2>1. i = 11 \/ i \in 1..10
    OBVIOUS
  <2> QED  BY <1>4, <1>5, <1>7, <1>9, <2>1 DEF OfTexts, OfLengths, TextParts
<1>12. ASSUME NEW rule \in ToSet(p) PROVE Concerns("bytes", rule)
  <2>1. rule \in OfTexts \cup {"const", "in", "not_in"}
    BY <1>9, <1>11 DEF ToSet
  <2>2. rule \notin OfSizes /\ rule \in RuleNames
    BY <2>1 DEF OfTexts, OfLengths, TextParts, OfSizes, RuleNames
  <2> QED  BY <2>2 DEF Concerns
<1> QED  BY <1>1, <1>10, <1>12

\* The rules of the other kinds, which have no formats.
LEMMA OtherRules ==
  ASSUME NEW kind \in {"enum", "repeated", "map", "field_mask", "any"}
  PROVE  /\ \E n : Declares(DeclaredRules[kind], Placed[kind], n)
         /\ \A rule \in ToSet(Placed[kind]) : Concerns(kind, rule)
<1>1. PICK p : p = Placed[kind] /\ p = DeclaredRules[kind]
  BY DEF Placed, DeclaredRules
<1>2. CASE kind = "enum"
  <2>1. p = <<"const", "defined_only", "in", "not_in">>
    BY <1>1, <1>2 DEF Placed
  <2>2. Len(p) = 4 /\ DOMAIN p = 1..4 /\ \A i \in 1..4 : i \in {1, 2, 3, 4}
    BY <2>1
  <2>3. p[1] = "const" /\ p[2] = "defined_only" /\ p[3] = "in" /\ p[4] = "not_in"
    BY <2>1
  <2>4. Declares(p, p, 4)
    BY <2>2, <2>3 DEF Declares
  <2>5. \A rule \in ToSet(p) : Concerns(kind, rule)
    BY <2>2, <2>3 DEF ToSet, Concerns, OfTexts, OfLengths, TextParts, OfSizes, RuleNames
  <2> QED  BY <1>1, <2>4, <2>5
<1>3. CASE kind = "repeated"
  <2>1. p = <<"min_items", "max_items">>
    BY <1>1, <1>3 DEF Placed
  <2>2. Len(p) = 2 /\ DOMAIN p = 1..2 /\ \A i \in 1..2 : i \in {1, 2}
    BY <2>1
  <2>3. p[1] = "min_items" /\ p[2] = "max_items"
    BY <2>1
  <2>4. Declares(p, p, 2)
    BY <2>2, <2>3 DEF Declares
  <2>5. \A rule \in ToSet(p) : Concerns(kind, rule)
    BY <1>3, <2>2, <2>3 DEF ToSet, Concerns, OfTexts, OfLengths, TextParts, OfSizes, RuleNames
  <2> QED  BY <1>1, <2>4, <2>5
<1>4. CASE kind = "map"
  <2>1. p = <<"min_pairs", "max_pairs">>
    BY <1>1, <1>4 DEF Placed
  <2>2. Len(p) = 2 /\ DOMAIN p = 1..2 /\ \A i \in 1..2 : i \in {1, 2}
    BY <2>1
  <2>3. p[1] = "min_pairs" /\ p[2] = "max_pairs"
    BY <2>1
  <2>4. Declares(p, p, 2)
    BY <2>2, <2>3 DEF Declares
  <2>5. \A rule \in ToSet(p) : Concerns(kind, rule)
    BY <1>4, <2>2, <2>3 DEF ToSet, Concerns, OfTexts, OfLengths, TextParts, OfSizes, RuleNames
  <2> QED  BY <1>1, <2>4, <2>5
<1>5. CASE kind = "field_mask"
  <2>1. p = <<"const", "in", "not_in">>
    BY <1>1, <1>5 DEF Placed
  <2>2. Len(p) = 3 /\ DOMAIN p = 1..3 /\ \A i \in 1..3 : i \in {1, 2, 3}
    BY <2>1
  <2>3. p[1] = "const" /\ p[2] = "in" /\ p[3] = "not_in"
    BY <2>1
  <2>4. Declares(p, p, 3)
    BY <2>2, <2>3 DEF Declares
  <2>5. \A rule \in ToSet(p) : Concerns(kind, rule)
    BY <2>2, <2>3 DEF ToSet, Concerns, OfTexts, OfLengths, TextParts, OfSizes, RuleNames
  <2> QED  BY <1>1, <2>4, <2>5
<1>6. CASE kind = "any"
  <2>1. p = <<"in", "not_in">>
    BY <1>1, <1>6 DEF Placed
  <2>2. Len(p) = 2 /\ DOMAIN p = 1..2 /\ \A i \in 1..2 : i \in {1, 2}
    BY <2>1
  <2>3. p[1] = "in" /\ p[2] = "not_in"
    BY <2>1
  <2>4. Declares(p, p, 2)
    BY <2>2, <2>3 DEF Declares
  <2>5. \A rule \in ToSet(p) : Concerns(kind, rule)
    BY <2>2, <2>3 DEF ToSet, Concerns, OfTexts, OfLengths, TextParts, OfSizes, RuleNames
  <2> QED  BY <1>1, <2>4, <2>5
<1> QED  BY <1>2, <1>3, <1>4, <1>5, <1>6

\* The checks of each kind are placed in the order its rules are declared.
LEMMA KindRules ==
  ASSUME NEW kind \in DOMAIN Placed
  PROVE  /\ \E n : Declares(DeclaredRules[kind], Placed[kind], n)
         /\ \A rule \in ToSet(Placed[kind]) : Concerns(kind, rule)
<1>1. kind \in {"string", "bytes", "enum", "repeated", "map", "field_mask", "any"}
  BY DEF Placed
<1>2. CASE kind = "string"
  BY <1>2, StringRules
<1>3. CASE kind = "bytes"
  BY <1>3, BytesRules
<1>4. CASE kind \notin {"string", "bytes"}
  BY <1>1, <1>4, OtherRules
<1> QED  BY <1>2, <1>3, <1>4

----------------------------------------------------------------------------
(* What the checks find is what CEL finds.                                  *)

\* The argument of a rule of a kind.
Suits(kind, rule, arg) ==
  /\ rule \in Lengths => arg \in Nat
  /\ rule \in TextParts => arg \in Seq(DOMAIN Width)
  /\ rule = "defined_only" => arg \in BOOLEAN
  /\ rule \in {"in", "not_in"} /\ kind = "field_mask" => \A f \in arg : f \in Seq(STRING)
  /\ rule = "well_known" => /\ arg.enabled \in BOOLEAN
                            /\ arg.format \notin ToSet(Placed[kind])
                            /\ (arg.format \in ByteFormats) <=> (kind = "bytes")

\* The size of a value is a number.
LEMMA SizeIs ==
  ASSUME NEW kind, NEW v, ValueOfTexts(kind, v), kind \in {"string", "bytes"}
  PROVE  /\ v \in Seq(DOMAIN Width) /\ Bytes(v) \in Nat /\ Len(v) \in Nat /\ Size(kind, v) \in Nat
         /\ Size(kind, v) = IF kind = "bytes" THEN Bytes(v) ELSE Len(v)
<1>1. v \in Seq(DOMAIN Width)
  BY DEF ValueOfTexts
<1>2. Bytes(v) \in Nat
  BY <1>1, BytesAreCounted
<1> QED  BY <1>1, <1>2 DEF Size

\* A check finds wrong what the expression of its rule finds wrong.
LEMMA CheckMeans ==
  ASSUME NEW kind, NEW rule, Concerns(kind, rule), rule # "well_known",
         NEW arg, Suits(kind, rule, arg), rule = "defined_only" => arg, Applies(rule, arg),
         NEW v, ValueOfTexts(kind, v), NEW c, c.rule = rule, c.arg = arg
  PROVE  TextFails(kind, c, v) <=> CelFindsOf(kind, rule, arg, v)
<1>1. CASE rule = "const"
  BY <1>1 DEF TextFails, CelFindsOf
<1>2. CASE rule \in {"len", "min_len", "max_len"}
  <2>1. arg \in Nat /\ kind \in {"string", "bytes"}
    BY <1>2 DEF Suits, Lengths, Concerns, OfTexts, OfLengths
  <2>2. /\ Size(kind, v) \in Nat
        /\ Size(kind, v) = IF kind = "bytes" THEN Bytes(v) ELSE Len(v)
    BY <2>1, SizeIs
  <2>3. CASE rule = "len"
    BY <2>1, <2>2, <2>3 DEF TextFails, CelFindsOf
  <2>4. CASE rule = "min_len"
    BY <2>1, <2>2, <2>4 DEF TextFails, CelFindsOf
  <2>5. CASE rule = "max_len"
    BY <2>1, <2>2, <2>5 DEF TextFails, CelFindsOf
  <2> QED  BY <1>2, <2>3, <2>4, <2>5
<1>3. CASE rule \in {"len_bytes", "min_bytes", "max_bytes"}
  <2>1. arg \in Nat /\ kind \in {"string", "bytes"}
    BY <1>3 DEF Suits, Lengths, Concerns, OfTexts, OfLengths
  <2>2. Bytes(v) \in Nat
    BY <2>1, SizeIs
  <2>3. CASE rule = "len_bytes"
    BY <2>1, <2>2, <2>3 DEF TextFails, CelFindsOf
  <2>4. CASE rule = "min_bytes"
    BY <2>1, <2>2, <2>4 DEF TextFails, CelFindsOf
  <2>5. CASE rule = "max_bytes"
    BY <2>1, <2>2, <2>5 DEF TextFails, CelFindsOf
  <2> QED  BY <1>3, <2>3, <2>4, <2>5
<1>4. CASE rule = "pattern"
  BY <1>4 DEF TextFails, CelFindsOf
<1>5. CASE rule \in TextParts
  <2>1. arg \in Seq(DOMAIN Width) /\ kind \in {"string", "bytes"}
    BY <1>5 DEF Suits, Concerns, OfTexts
  <2>2. v \in Seq(DOMAIN Width)
    BY <2>1, SizeIs
  <2>3. CASE rule = "prefix"
    <3>1. IsPrefix(arg, v) <=> Occurs(v, arg, FALSE, TRUE)
      BY <2>1, <2>2, PrefixPlaced, PrefixOccurs
    <3> QED  BY <2>3, <3>1 DEF TextFails, CelFindsOf
  <2>4. CASE rule = "suffix"
    <3>1. IsSuffix(arg, v) <=> Occurs(v, arg, TRUE, FALSE)
      BY <2>1, <2>2, SuffixOccurs
    <3> QED  BY <2>4, <3>1 DEF TextFails, CelFindsOf
  <2>5. HasWindow(v, arg) <=> Occurs(v, arg, TRUE, TRUE)
    BY <2>1, <2>2, WindowOccurs
  <2>6. CASE rule = "contains"
    BY <2>5, <2>6 DEF TextFails, CelFindsOf
  <2>7. CASE rule = "not_contains"
    BY <2>5, <2>7 DEF TextFails, CelFindsOf
  <2> QED  BY <1>5, <2>3, <2>4, <2>6, <2>7 DEF TextParts
<1>6. CASE rule = "defined_only"
  BY <1>6 DEF TextFails, CelFindsOf
<1>7. CASE rule \in OfSizes
  <2>1. rule \in {"min_items", "max_items", "min_pairs", "max_pairs"}
    BY <1>7 DEF OfSizes
  <2> QED  BY <2>1 DEF TextFails, CelFindsOf
<1>8. CASE rule \in {"in", "not_in"} /\ kind # "field_mask"
  <2>1. arg # {}
    BY <1>8 DEF Applies
  <2> QED  BY <1>8, <2>1 DEF TextFails, CelFindsOf
<1>9. CASE rule \in {"in", "not_in"} /\ kind = "field_mask"
  <2>1. /\ arg # {} /\ v \in Seq(Seq(STRING)) /\ \A f \in arg : f \in Seq(STRING)
    BY <1>9 DEF Applies, Suits, ValueOfTexts
  <2>2. ASSUME NEW p \in ToSet(v)
        PROVE  CoveredBy(arg, p) <=>
                 p \in arg \/ \E f \in arg : Len(f) < Len(p) /\ Occurs(p, f, FALSE, TRUE)
    <3>1. p \in Seq(STRING)
      BY <2>1 DEF ToSet
    <3> QED  BY <2>1, <3>1, CoveredOccurs
  <2>3. CASE rule = "in"
    <3>1. TextFails(kind, c, v) <=> \E p \in ToSet(v) : ~CoveredBy(arg, p)
      BY <1>9, <2>3 DEF TextFails
    <3>2. CelFindsOf(kind, rule, arg, v) <=>
            ~\A p \in ToSet(v) :
               p \in arg \/ \E f \in arg : Len(f) < Len(p) /\ Occurs(p, f, FALSE, TRUE)
      BY <1>9, <2>1, <2>3 DEF CelFindsOf
    <3> QED  BY <2>2, <3>1, <3>2
  <2>4. CASE rule = "not_in"
    <3>1. TextFails(kind, c, v) <=> \E p \in ToSet(v) : CoveredBy(arg, p)
      BY <1>9, <2>4 DEF TextFails
    <3>2. CelFindsOf(kind, rule, arg, v) <=>
            \E p \in ToSet(v) :
               p \in arg \/ \E f \in arg : Len(f) < Len(p) /\ Occurs(p, f, FALSE, TRUE)
      BY <1>9, <2>4 DEF CelFindsOf
    <3> QED  BY <2>2, <3>1, <3>2
  <2> QED  BY <1>9, <2>3, <2>4
<1> QED
  BY <1>1, <1>2, <1>3, <1>4, <1>5, <1>6, <1>7, <1>8, <1>9
    DEF Concerns, RuleNames, OfTexts, OfLengths

\* Where a rule has no check, its expression finds nothing wrong.
LEMMA NoCheckMeans ==
  ASSUME NEW kind, NEW rule, NEW arg, NEW v, Concerns(kind, rule),
         Suits(kind, rule, arg),
         rule = "well_known" \/ (rule = "defined_only" /\ ~arg) \/ ~Applies(rule, arg)
  PROVE  ~CelFindsOf(kind, rule, arg, v)
<1>1. CASE rule = "well_known"
  BY <1>1 DEF CelFindsOf
<1>2. CASE rule = "defined_only" /\ ~arg
  BY <1>2 DEF CelFindsOf
<1>3. CASE ~Applies(rule, arg)
  <2>1. rule \in {"in", "not_in"} /\ arg = {}
    BY <1>3 DEF Applies
  <2>2. CASE kind = "field_mask"
    <3>1. CASE rule = "in"
      BY <2>1, <2>2, <3>1 DEF CelFindsOf
    <3>2. CASE rule = "not_in"
      <4>1. CelFindsOf(kind, rule, arg, v) <=>
              \E p \in ToSet(v) :
                 p \in arg \/ \E f \in arg : Len(f) < Len(p) /\ Occurs(p, f, FALSE, TRUE)
        BY <2>2, <3>2 DEF CelFindsOf
      <4> QED  BY <2>1, <4>1
    <3> QED  BY <2>1, <3>1, <3>2
  <2>3. CASE kind # "field_mask"
    BY <2>1, <2>3 DEF CelFindsOf
  <2> QED  BY <2>2, <2>3
<1> QED  BY <1>1, <1>2, <1>3

\* The check of a format finds what the format's expression finds.
LEMMA FormatMeans ==
  ASSUME NEW kind \in {"string", "bytes"}, NEW format, (format \in ByteFormats) <=> kind = "bytes",
         NEW r, r.kind = kind, NEW v, ValueOfTexts(kind, v)
  PROVE  LacksFormat(format, v) <=> CelLacksFormat(r, format, v)
<1>1. Bytes(v) \in Nat /\ v \in Seq(DOMAIN Width)
  BY SizeIs
<1>2. CASE format \in ByteFormats
  BY <1>1, <1>2 DEF LacksFormat, CelLacksFormat, ByteFormats, LengthsOf
<1>3. CASE format \in {"uri_ref", "header_value"}
  BY <1>3 DEF LacksFormat, CelLacksFormat, ByteFormats, AllowsEmpty
<1>4. CASE format \notin ByteFormats \cup {"uri_ref", "header_value"}
  <2>1. format \notin {"bytes_ip", "bytes_ipv4", "bytes_uuid", "uri_ref", "header_value"}
    BY <1>4 DEF ByteFormats
  <2> QED  BY <1>4, <2>1 DEF LacksFormat, CelLacksFormat, AllowsEmpty
<1> QED  BY <1>2, <1>3, <1>4

----------------------------------------------------------------------------
(* The checks of a rules message, and their ranks.                          *)

\* One check, and two checks one after the other.
Lone(a) == <<a>>
Pair(a, b) == <<a, b>>

\* One check is a sequence of it.
LEMMA LoneIs ==
  ASSUME NEW a, NEW s, s = Lone(a)
  PROVE  s \in Seq({a}) /\ DOMAIN s = {1} /\ s[1] = a /\ ToSet(s) = {a}
<1>1. s \in Seq({a}) /\ DOMAIN s = 1..1 /\ s[1] = a
  BY DEF Lone
<1>2. 1..1 = {1}
  OBVIOUS
<1> QED  BY <1>1, <1>2 DEF ToSet

\* Two checks are a sequence of both.
LEMMA PairIs ==
  ASSUME NEW a, NEW b, NEW s, s = Pair(a, b)
  PROVE  s \in Seq({a, b}) /\ DOMAIN s = {1, 2} /\ s[1] = a /\ s[2] = b /\ ToSet(s) = {a, b}
<1>1. s \in Seq({a, b}) /\ DOMAIN s = 1..2 /\ s[1] = a /\ s[2] = b
  BY DEF Pair
<1>2. 1..2 = {1, 2}
  OBVIOUS
<1> QED  BY <1>1, <1>2 DEF ToSet

\* A rules message and a value of its kind.
Considered(r, v) ==
  r.kind \in DOMAIN Placed /\ RulesOfTexts(r.kind, r) /\ ValueOfTexts(r.kind, v)

\* What each rule that is set is set to.
LEMMA ConsideredIs ==
  ASSUME NEW r, NEW v, Considered(r, v)
  PROVE  /\ r.kind \in DOMAIN Placed /\ ValueOfTexts(r.kind, v)
         /\ \A rule \in DOMAIN r.set :
              rule \in ToSet(Placed[r.kind]) /\ Concerns(r.kind, rule)
              /\ Suits(r.kind, rule, r.set[rule])
<1>1. \A rule \in ToSet(Placed[r.kind]) : Concerns(r.kind, rule)
  BY KindRules DEF Considered
<1>2. ASSUME NEW rule \in DOMAIN r.set
      PROVE  rule \in ToSet(Placed[r.kind]) /\ Suits(r.kind, rule, r.set[rule])
  BY <1>2 DEF Considered, RulesOfTexts, Suits
<1> QED  BY <1>1, <1>2 DEF Considered

\* A rule that is set has one check, or none; the format has its own, and
\* perhaps the companion.
Plain(r, rule) ==
  /\ rule \in DOMAIN r.set /\ rule # "well_known"
  /\ rule = "defined_only" => r.set[rule]
  /\ Applies(rule, r.set[rule])
Formatted(r) == "well_known" \in DOMAIN r.set /\ r.set["well_known"].enabled
Format(r) == r.set["well_known"].format
OfFormat(r) == TextCheck(<<Format(r)>>, "well_known", Format(r))
OfEmpty(r) == TextCheck(<<Format(r), "empty">>, "empty", Format(r))

\* Which of them a rule has.
LEMMA ChecksForIs ==
  ASSUME NEW r, NEW rule
  PROVE  /\ Plain(r, rule) => ChecksFor(r, rule) = Lone(TextCheck(<<rule>>, rule, r.set[rule]))
         /\ rule = "well_known" /\ Formatted(r) =>
              ChecksFor(r, rule) = IF AllowsEmpty(Format(r)) THEN Pair(OfFormat(r), OfEmpty(r))
                                   ELSE Lone(OfFormat(r))
         /\ ~Plain(r, rule) /\ ~(rule = "well_known" /\ Formatted(r)) => ChecksFor(r, rule) = <<>>
<1>1. ASSUME Plain(r, rule)
      PROVE  ChecksFor(r, rule) = Lone(TextCheck(<<rule>>, rule, r.set[rule]))
  BY <1>1 DEF Plain, ChecksFor, Lone
<1>2. ASSUME rule = "well_known", Formatted(r)
      PROVE  ChecksFor(r, rule) = IF AllowsEmpty(Format(r)) THEN Pair(OfFormat(r), OfEmpty(r))
                                  ELSE Lone(OfFormat(r))
  <2>1. ChecksFor(r, rule) = WellKnownChecks(r.set["well_known"])
    BY <1>2 DEF ChecksFor, Formatted
  <2>2. CASE AllowsEmpty(Format(r))
    BY <1>2, <2>1, <2>2 DEF WellKnownChecks, Formatted, Format, OfFormat, OfEmpty, Pair
  <2>3. CASE ~AllowsEmpty(Format(r))
    BY <1>2, <2>1, <2>3 DEF WellKnownChecks, Formatted, Format, OfFormat, OfEmpty, Lone
  <2> QED  BY <2>2, <2>3
<1>3. ASSUME ~Plain(r, rule), ~(rule = "well_known" /\ Formatted(r))
      PROVE  ChecksFor(r, rule) = <<>>
  <2>1. CASE rule \notin DOMAIN r.set
    BY <2>1 DEF ChecksFor
  <2>2. CASE rule \in DOMAIN r.set /\ rule = "well_known"
    BY <1>3, <2>2 DEF ChecksFor, WellKnownChecks, Formatted
  <2>3. CASE rule \in DOMAIN r.set /\ rule # "well_known"
    BY <1>3, <2>3 DEF ChecksFor, Plain
  <2> QED  BY <2>1, <2>2, <2>3
<1> QED  BY <1>1, <1>2, <1>3

\* The members of a sequence are at its places.
LEMMA MembersAre ==
  ASSUME NEW s
  PROVE  \A x : x \in ToSet(s) <=> \E i \in DOMAIN s : s[i] = x
BY DEF ToSet

\* The rank of a rule is its place; a format comes last, and its companion
\* after it.
LEMMA RankIs ==
  ASSUME NEW kind, NEW n, Declares(DeclaredRules[kind], Placed[kind], n)
  PROVE  /\ \A i \in 1..n : \A id : id[1] = Placed[kind][i] => Rank(kind, id) = i
         /\ \A id : id[1] \notin ToSet(Placed[kind]) => Rank(kind, id) = n + Len(id)
<1>1. PICK d, p : d = DeclaredRules[kind] /\ p = Placed[kind]
  OBVIOUS
<1>2. Declares(d, p, n)
  BY <1>1
<1>3. /\ DOMAIN d = 1..n /\ Len(d) = n /\ \A i, j \in 1..n : d[i] = d[j] => i = j
      /\ \A i \in 1..n : p[i] = d[i]
      /\ n \in Nat /\ (DOMAIN p = 1..n \/ DOMAIN p = 1..(n + 1))
  BY <1>2 DEF Declares
<1>4. ASSUME NEW i \in 1..n, NEW id, id[1] = p[i] PROVE Rank(kind, id) = i
  <2>1. PICK q : q = id[1]
    OBVIOUS
  <2>2. q = d[i] /\ i \in DOMAIN d
    BY <1>3, <1>4, <2>1
  <2>3. q \in ToSet(d)
    BY <2>2, MembersAre
  <2>4. Rank(kind, id) = CHOOSE j \in DOMAIN d : d[j] = q
    BY <1>1, <2>1, <2>3 DEF Rank
  <2>5. \A j \in DOMAIN d : d[j] = q <=> j = i
    BY <1>3, <2>2
  <2> QED  BY <2>2, <2>4, <2>5
<1>5. ASSUME NEW id, id[1] \notin ToSet(p) PROVE Rank(kind, id) = n + Len(id)
  <2>1. PICK q : q = id[1]
    OBVIOUS
  <2>2. q \notin ToSet(d)
    <3>1. SUFFICES ASSUME NEW i \in DOMAIN d, d[i] = q PROVE FALSE
      BY MembersAre
    <3>2. i \in 1..n /\ i \in DOMAIN p
      BY <1>3
    <3>3. p[i] = q
      BY <1>3, <3>1, <3>2
    <3>4. q \in ToSet(p)
      BY <3>2, <3>3, MembersAre
    <3> QED  BY <1>5, <2>1, <3>4
  <2>3. Rank(kind, id) = Len(d) + Len(id)
    BY <1>1, <2>1, <2>2 DEF Rank
  <2> QED  BY <1>3, <2>3
<1> QED  BY <1>1, <1>4, <1>5

\* A check a of the rule at place i: of that rank, or of a higher one than all
\* n rules if it is the format's.
Ranks(kind, n, i, a) ==
  Rank(kind, a.id) \in Int
  /\ (i \in 1..n => Rank(kind, a.id) = i) /\ (i = n + 1 => Rank(kind, a.id) > n)

\* The checks of a rule have the ranks of its place, and are in order.
LEMMA RanksOfRule ==
  ASSUME NEW r, NEW v, Considered(r, v), NEW n,
         Declares(DeclaredRules[r.kind], Placed[r.kind], n), NEW i \in DOMAIN Placed[r.kind],
         NEW s, s = ChecksFor(r, Placed[r.kind][i])
  PROVE  /\ s \in Seq(ToSet(s)) /\ \A a \in ToSet(s) : Ranks(r.kind, n, i, a)
         /\ \A j, k \in DOMAIN s : j < k => Rank(r.kind, s[j].id) < Rank(r.kind, s[k].id)
<1>1. PICK kind, rule : kind = r.kind /\ rule = Placed[r.kind][i]
  OBVIOUS
<1>2. PICK p : p = Placed[kind]
  OBVIOUS
<1>3. Declares(DeclaredRules[kind], p, n) /\ i \in DOMAIN p /\ rule = p[i]
  BY <1>1, <1>2
<1>4. /\ i \in Nat /\ n \in Nat /\ (i \in 1..n => rule # "well_known")
      /\ i \in 1..n \/ (i = n + 1 /\ rule = "well_known")
  <2>1. /\ n \in Nat /\ \A k \in 1..n : p[k] # "well_known"
        /\ DOMAIN p = 1..n \/ (DOMAIN p = 1..(n + 1) /\ p[n + 1] = "well_known")
    BY <1>3 DEF Declares
  <2>2. i \in 1..n \/ (i \in 1..(n + 1) /\ p[n + 1] = "well_known")
    BY <1>3, <2>1
  <2>3. i \in Nat /\ (i \in 1..n \/ (i = n + 1 /\ p[n + 1] = "well_known"))
    BY <2>1, <2>2
  <2> QED  BY <1>3, <2>1, <2>3
<1>5. CASE Plain(r, rule)
  <2>1. PICK a : a = TextCheck(<<rule>>, rule, r.set[rule])
    OBVIOUS
  <2>2. s = Lone(a)
    BY <1>1, <1>5, <2>1, ChecksForIs
  <2>3. i \in 1..n
    BY <1>4, <1>5 DEF Plain
  <2>4. a.id[1] = p[i]
    BY <1>3, <2>1 DEF TextCheck
  <2>5. Rank(kind, a.id) = i
    BY <1>1, <1>2, <1>3, <2>3, <2>4, RankIs
  <2>6. s \in Seq({a}) /\ DOMAIN s = {1} /\ ToSet(s) = {a}
    BY <2>2, LoneIs
  <2> QED  BY <1>1, <1>4, <2>3, <2>5, <2>6 DEF Ranks
<1>6. CASE rule = "well_known" /\ Formatted(r)
  <2>1. PICK a, b : a = OfFormat(r) /\ b = OfEmpty(r)
    OBVIOUS
  <2>2. Format(r) \notin ToSet(p)
    BY <1>1, <1>2, <1>6, ConsideredIs DEF Formatted, Format, Suits
  <2>3. i = n + 1
    BY <1>4, <1>6
  <2>4. /\ a.id[1] = Format(r) /\ Len(a.id) = 1
        /\ b.id[1] = Format(r) /\ Len(b.id) = 2
    BY <2>1 DEF OfFormat, OfEmpty, TextCheck
  <2>5. Rank(kind, a.id) = n + 1 /\ Rank(kind, b.id) = n + 2
    <3>1. \A id : id[1] \notin ToSet(p) => Rank(kind, id) = n + Len(id)
      BY <1>2, <1>3, RankIs
    <3>2. PICK x, y : x = a.id /\ y = b.id
      OBVIOUS
    <3>3. x[1] \notin ToSet(p) /\ y[1] \notin ToSet(p) /\ Len(x) = 1 /\ Len(y) = 2
      BY <2>2, <2>4, <3>2
    <3>4. Rank(kind, x) = n + 1 /\ Rank(kind, y) = n + 2
      BY <3>1, <3>3
    <3> QED  BY <3>2, <3>4
  <2>6. Ranks(kind, n, i, a) /\ Ranks(kind, n, i, b)
    BY <1>4, <2>3, <2>5 DEF Ranks
  <2>7. CASE AllowsEmpty(Format(r))
    <3>1. s = Pair(a, b)
      BY <1>1, <1>6, <2>1, <2>7, ChecksForIs
    <3>2. s \in Seq({a, b}) /\ DOMAIN s = {1, 2} /\ s[1] = a /\ s[2] = b /\ ToSet(s) = {a, b}
      BY <3>1, PairIs
    <3>3. Rank(kind, a.id) < Rank(kind, b.id)
      BY <1>4, <2>5
    <3>4. ASSUME NEW j \in DOMAIN s, NEW k \in DOMAIN s, j < k
          PROVE  Rank(kind, s[j].id) < Rank(kind, s[k].id)
      <4>1. j = 1 /\ k = 2
        BY <3>2, <3>4
      <4> QED  BY <3>2, <3>3, <4>1
    <3> QED  BY <1>1, <2>6, <3>2, <3>4
  <2>8. CASE ~AllowsEmpty(Format(r))
    <3>1. s = Lone(a)
      BY <1>1, <1>6, <2>1, <2>8, ChecksForIs
    <3>2. s \in Seq({a}) /\ DOMAIN s = {1} /\ ToSet(s) = {a}
      BY <3>1, LoneIs
    <3> QED  BY <1>1, <2>6, <3>2
  <2> QED  BY <2>7, <2>8
<1>7. CASE ~Plain(r, rule) /\ ~(rule = "well_known" /\ Formatted(r))
  <2>1. s = <<>>
    BY <1>1, <1>7, ChecksForIs
  <2>2. DOMAIN s = {} /\ s \in Seq(ToSet(s))
    BY <2>1
  <2> QED  BY <2>2 DEF ToSet
<1> QED  BY <1>5, <1>6, <1>7

\* The checks of a rules message; they are in the order of their ranks.
Checks(r) == UNION {ToSet(ChecksFor(r, rule)) : rule \in ToSet(Placed[r.kind])}
InRank(kind, t) == \A i, j \in DOMAIN t : i < j => Rank(kind, t[i].id) < Rank(kind, t[j].id)

\* The checks built are all of those, in the order validate.proto declares
\* their rules, the format's last.
LEMMA TextChecksAre ==
  ASSUME NEW r, NEW v, Considered(r, v)
  PROVE  /\ TextChecksOf(r) \in Seq(Checks(r)) /\ ToSet(TextChecksOf(r)) = Checks(r)
         /\ InRank(r.kind, TextChecksOf(r)) /\ \A c \in Checks(r) : Rank(r.kind, c.id) \in Int
<1>1. PICK kind, p, S : kind = r.kind /\ p = Placed[kind] /\ S = Checks(r)
  OBVIOUS
<1>2. kind \in DOMAIN Placed
  BY <1>1 DEF Considered
<1>3. PICK n : Declares(DeclaredRules[kind], p, n)
  BY <1>1, <1>2, KindRules
<1>4. PICK m \in {n, n + 1} : DOMAIN p = 1..m /\ m \in Nat /\ n \in Nat
  BY <1>3 DEF Declares
<1>5. PICK s : s = [i \in 1..m |-> ChecksFor(r, p[i])]
  OBVIOUS
<1>6. TextChecksOf(r) = FlattenSeq(s)
  BY <1>1, <1>4, <1>5 DEF TextChecksOf
<1>7. ASSUME NEW i \in 1..m
      PROVE  /\ s[i] \in Seq(S) /\ ToSet(s[i]) \subseteq S /\ InRank(kind, s[i])
             /\ \A a \in ToSet(s[i]) : Ranks(kind, n, i, a)
  <2>1. PICK x : x = s[i]
    OBVIOUS
  <2>2. x = ChecksFor(r, p[i]) /\ i \in DOMAIN p
    BY <1>4, <1>5, <2>1
  <2>3. /\ x \in Seq(ToSet(x)) /\ InRank(kind, x)
        /\ \A a \in ToSet(x) : Ranks(kind, n, i, a)
    <3>1. /\ i \in DOMAIN Placed[r.kind] /\ x = ChecksFor(r, Placed[r.kind][i])
          /\ Declares(DeclaredRules[r.kind], Placed[r.kind], n)
      BY <1>1, <1>3, <2>2
    <3>2. /\ x \in Seq(ToSet(x)) /\ \A a \in ToSet(x) : Ranks(r.kind, n, i, a)
          /\ \A j, k \in DOMAIN x : j < k => Rank(r.kind, x[j].id) < Rank(r.kind, x[k].id)
      BY <3>1, RanksOfRule
    <3> QED  BY <1>1, <3>2 DEF InRank
  <2>4. p[i] \in ToSet(p)
    BY <2>2, MembersAre
  <2>5. ToSet(x) \subseteq S
    BY <1>1, <2>2, <2>4 DEF Checks
  <2>6. x \in Seq(S)
    BY <2>3, <2>5, SeqMonotonic
  <2> QED  BY <2>1, <2>3, <2>5, <2>6
<1>8. s \in Seq(Seq(S)) /\ Len(s) = m
  BY <1>4, <1>5, <1>7
<1>9. PICK rank : rank = [c \in S |-> Rank(kind, c.id)]
  OBVIOUS
<1>10. ASSUME NEW c \in S
       PROVE  \E i \in 1..m : c \in ToSet(s[i])
  <2>1. PICK rule \in ToSet(p) : c \in ToSet(ChecksFor(r, rule))
    BY <1>1 DEF Checks
  <2>2. PICK i \in 1..m : p[i] = rule
    BY <1>4, <2>1, MembersAre
  <2>3. s[i] = ChecksFor(r, rule)
    BY <1>5, <2>2
  <2> QED  BY <2>1, <2>2, <2>3
<1>11. Ranked(S, rank) /\ \A c \in S : Rank(kind, c.id) \in Int
  <2>1. \A c \in S : Rank(kind, c.id) \in Int
    BY <1>7, <1>10 DEF Ranks
  <2> QED  BY <1>9, <2>1 DEF Ranked
<1>12. ASSUME NEW i \in 1..Len(s)
       PROVE  Rising(s[i], rank)
  <2>1. i \in 1..m
    BY <1>8
  <2>2. PICK x : x = s[i]
    OBVIOUS
  <2>3. InRank(kind, x) /\ \A k \in DOMAIN x : x[k] \in S
    BY <1>7, <2>1, <2>2
  <2>4. Rising(x, rank)
    BY <1>9, <2>3 DEF Rising, InRank
  <2> QED  BY <2>2, <2>4
<1>13. ASSUME NEW i \in 1..Len(s), NEW j \in 1..Len(s), i < j,
              NEW a \in ToSet(s[i]), NEW b \in ToSet(s[j])
       PROVE  rank[a] < rank[b]
  <2>1. i \in 1..m /\ j \in 1..m
    BY <1>8
  <2>2. a \in S /\ b \in S /\ Ranks(kind, n, i, a) /\ Ranks(kind, n, j, b)
    BY <1>7, <2>1
  <2>3. i \in 1..n /\ (j \in 1..n \/ j = n + 1)
    BY <1>4, <1>13, <2>1
  <2>4. Rank(kind, a.id) = i /\ Rank(kind, b.id) \in Int /\ Rank(kind, b.id) > i
    BY <1>4, <1>13, <2>2, <2>3 DEF Ranks
  <2> QED  BY <1>9, <2>2, <2>4
<1>14. PICK t : t = FlattenSeq(s)
  OBVIOUS
<1>15. t \in Seq(S) /\ Rising(t, rank) /\ ToSet(t) = UNION {ToSet(s[i]) : i \in 1..Len(s)}
  BY <1>8, <1>11, <1>12, <1>13, <1>14, Flattened
<1>16. ToSet(t) = S
  <2>1. \A i \in 1..Len(s) : ToSet(s[i]) \subseteq S
    BY <1>7, <1>8
  <2>2. \A c \in S : \E i \in 1..Len(s) : c \in ToSet(s[i])
    BY <1>8, <1>10
  <2> QED  BY <1>15, <2>1, <2>2
<1>17. InRank(kind, t)
  <2>1. \A k \in DOMAIN t : t[k] \in S
    BY <1>15
  <2> QED  BY <1>9, <1>15, <2>1 DEF Rising, InRank
<1> QED  BY <1>1, <1>6, <1>11, <1>14, <1>15, <1>16, <1>17

\* A rules message has the checks of the rules that are set and, of a format
\* that is asked for, the format's and perhaps the companion.
LEMMA ChecksAre ==
  ASSUME NEW r, NEW v, Considered(r, v)
  PROVE  \A c : c \in Checks(r) <=>
           \/ \E rule : Plain(r, rule) /\ c = TextCheck(<<rule>>, rule, r.set[rule])
           \/ Formatted(r) /\ c = OfFormat(r)
           \/ Formatted(r) /\ AllowsEmpty(Format(r)) /\ c = OfEmpty(r)
<1>1. ASSUME NEW c \in Checks(r)
      PROVE  \/ \E rule : Plain(r, rule) /\ c = TextCheck(<<rule>>, rule, r.set[rule])
             \/ Formatted(r) /\ c = OfFormat(r)
             \/ Formatted(r) /\ AllowsEmpty(Format(r)) /\ c = OfEmpty(r)
  <2>1. PICK rule \in ToSet(Placed[r.kind]) : c \in ToSet(ChecksFor(r, rule))
    BY DEF Checks
  <2>2. PICK s : s = ChecksFor(r, rule)
    OBVIOUS
  <2>3. CASE Plain(r, rule)
    <3>1. PICK a : a = TextCheck(<<rule>>, rule, r.set[rule])
      OBVIOUS
    <3>2. s = Lone(a)
      BY <2>2, <2>3, <3>1, ChecksForIs
    <3>3. c = a
      <4>1. ToSet(s) = {a}
        BY <3>2, LoneIs
      <4> QED  BY <2>1, <2>2, <4>1
    <3> QED  BY <2>3, <3>1, <3>3
  <2>4. CASE rule = "well_known" /\ Formatted(r)
    <3>1. PICK a, b : a = OfFormat(r) /\ b = OfEmpty(r)
      OBVIOUS
    <3>2. CASE AllowsEmpty(Format(r))
      <4>1. s = Pair(a, b)
        BY <2>2, <2>4, <3>1, <3>2, ChecksForIs
      <4>2. ToSet(s) = {a, b}
        BY <4>1, PairIs
      <4>3. c = a \/ c = b
        BY <2>1, <2>2, <4>2
      <4> QED  BY <2>4, <3>1, <3>2, <4>3
    <3>3. CASE ~AllowsEmpty(Format(r))
      <4>1. s = Lone(a)
        BY <2>2, <2>4, <3>1, <3>3, ChecksForIs
      <4>2. ToSet(s) = {a}
        BY <4>1, LoneIs
      <4>3. c = a
        BY <2>1, <2>2, <4>2
      <4> QED  BY <2>4, <3>1, <4>3
    <3> QED  BY <3>2, <3>3
  <2>5. CASE ~Plain(r, rule) /\ ~(rule = "well_known" /\ Formatted(r))
    <3>1. s = <<>>
      BY <2>2, <2>5, ChecksForIs
    <3>2. DOMAIN s = {}
      BY <3>1
    <3> QED  BY <2>1, <2>2, <3>2, MembersAre
  <2> QED  BY <2>3, <2>4, <2>5
<1>2. ASSUME NEW rule, Plain(r, rule)
      PROVE  TextCheck(<<rule>>, rule, r.set[rule]) \in Checks(r)
  <2>1. PICK a : a = TextCheck(<<rule>>, rule, r.set[rule])
    OBVIOUS
  <2>2. PICK s : s = ChecksFor(r, rule)
    OBVIOUS
  <2>3. s = Lone(a)
    BY <1>2, <2>1, <2>2, ChecksForIs
  <2>4. a \in ToSet(s)
    BY <2>3, LoneIs
  <2>5. rule \in ToSet(Placed[r.kind])
    BY <1>2, ConsideredIs DEF Plain
  <2> QED  BY <2>1, <2>2, <2>4, <2>5 DEF Checks
<1>3. ASSUME Formatted(r)
      PROVE  OfFormat(r) \in Checks(r) /\ (AllowsEmpty(Format(r)) => OfEmpty(r) \in Checks(r))
  <2>1. PICK a, b : a = OfFormat(r) /\ b = OfEmpty(r)
    OBVIOUS
  <2>2. PICK s : s = ChecksFor(r, "well_known")
    OBVIOUS
  <2>3. "well_known" \in ToSet(Placed[r.kind])
    BY <1>3, ConsideredIs DEF Formatted
  <2>4. ToSet(s) \subseteq Checks(r)
    BY <2>2, <2>3 DEF Checks
  <2>5. s = IF AllowsEmpty(Format(r)) THEN Pair(a, b) ELSE Lone(a)
    BY <1>3, <2>1, <2>2, ChecksForIs
  <2>6. CASE AllowsEmpty(Format(r))
    <3>1. ToSet(s) = {a, b}
      BY <2>5, <2>6, PairIs
    <3> QED  BY <2>1, <2>4, <3>1
  <2>7. CASE ~AllowsEmpty(Format(r))
    <3>1. ToSet(s) = {a}
      BY <2>5, <2>7, LoneIs
    <3> QED  BY <2>1, <2>4, <2>7, <3>1
  <2> QED  BY <2>6, <2>7
<1> QED  BY <1>1, <1>2, <1>3

\* A check finds wrong what the expression with its id finds wrong.
LEMMA CheckAgrees ==
  ASSUME NEW r, NEW v, Considered(r, v), NEW c \in Checks(r)
  PROVE  TextFails(r.kind, c, v) <=> CelFinds(r, c.id, v)
<1>1. PICK kind : kind = r.kind
  OBVIOUS
<1>2. ASSUME NEW rule, Plain(r, rule), c = TextCheck(<<rule>>, rule, r.set[rule])
      PROVE  TextFails(kind, c, v) <=> CelFinds(r, c.id, v)
  <2>1. PICK arg : arg = r.set[rule]
    OBVIOUS
  <2>2. /\ rule \in DOMAIN r.set /\ rule # "well_known" /\ Applies(rule, arg)
        /\ rule = "defined_only" => arg
    BY <1>2, <2>1 DEF Plain
  <2>3. Concerns(kind, rule) /\ Suits(kind, rule, arg) /\ ValueOfTexts(kind, v)
    BY <1>1, <2>1, <2>2, ConsideredIs
  <2>4. /\ c.rule = rule /\ c.arg = arg /\ Len(c.id) = 1 /\ c.id[1] = rule
    BY <1>2, <2>1 DEF TextCheck
  <2>5. TextFails(kind, c, v) <=> CelFindsOf(kind, rule, arg, v)
    BY <2>2, <2>3, <2>4, CheckMeans
  <2>6. ~Asks(r, rule)
    <3>1. SUFFICES ASSUME "well_known" \in DOMAIN r.set, r.set["well_known"].format = rule
                   PROVE  FALSE
      BY DEF Asks
    <3>2. r.set["well_known"].format \notin ToSet(Placed[r.kind])
      BY <3>1, ConsideredIs DEF Suits
    <3>3. rule \in ToSet(Placed[r.kind])
      BY <2>2, ConsideredIs
    <3> QED  BY <3>1, <3>2, <3>3
  <2>7. PICK id : id = c.id
    OBVIOUS
  <2>8. CelFinds(r, id, v) <=> CelFindsOf(kind, rule, arg, v)
    <3>1. Len(id) = 1 /\ id[1] = rule
      BY <2>4, <2>7
    <3>2. CelFinds(r, id, v) <=> (rule \in DOMAIN r.set /\ CelFindsOf(r.kind, rule, r.set[rule], v))
      BY <2>6, <3>1 DEF CelFinds
    <3> QED  BY <1>1, <2>1, <2>2, <3>2
  <2> QED  BY <2>5, <2>7, <2>8
<1>3. ASSUME Formatted(r)
      PROVE  /\ kind \in {"string", "bytes"} /\ ValueOfTexts(kind, v)
             /\ (Format(r) \in ByteFormats) <=> kind = "bytes"
             /\ Asks(r, Format(r))
  <2>1. "well_known" \in DOMAIN r.set
    BY <1>3 DEF Formatted
  <2>2. /\ Concerns(kind, "well_known") /\ Suits(kind, "well_known", r.set["well_known"])
        /\ ValueOfTexts(kind, v)
    BY <1>1, <2>1, ConsideredIs
  <2> QED  BY <1>3, <2>1, <2>2 DEF Concerns, OfTexts, Suits, Format, Formatted, Asks
<1>4. ASSUME Formatted(r), c = OfFormat(r)
      PROVE  TextFails(kind, c, v) <=> CelFinds(r, c.id, v)
  <2>1. PICK f, id : f = Format(r) /\ id = c.id
    OBVIOUS
  <2>2. c.rule = "well_known" /\ c.arg = f /\ Len(id) = 1 /\ id[1] = f
    BY <1>4, <2>1 DEF OfFormat, TextCheck
  <2>3. TextFails(kind, c, v) <=> LacksFormat(f, v)
    BY <2>2 DEF TextFails
  <2>4. CelFinds(r, id, v) <=> CelLacksFormat(r, f, v)
    BY <1>3, <1>4, <2>1, <2>2 DEF CelFinds
  <2>5. LacksFormat(f, v) <=> CelLacksFormat(r, f, v)
    BY <1>1, <1>3, <1>4, <2>1, FormatMeans
  <2> QED  BY <2>1, <2>3, <2>4, <2>5
<1>5. ASSUME Formatted(r), AllowsEmpty(Format(r)), c = OfEmpty(r)
      PROVE  TextFails(kind, c, v) <=> CelFinds(r, c.id, v)
  <2>1. PICK f, id : f = Format(r) /\ id = c.id
    OBVIOUS
  <2>2. c.rule = "empty" /\ Len(id) = 2 /\ id[1] = f
    BY <1>5, <2>1 DEF OfEmpty, TextCheck
  <2>3. TextFails(kind, c, v) <=> v = <<>>
    BY <2>2 DEF TextFails
  <2>4. CelFinds(r, id, v) <=> Len(v) = 0
    BY <1>3, <1>5, <2>1, <2>2 DEF CelFinds
  <2>5. v = <<>> <=> Len(v) = 0
    <3>1. v \in Seq(DOMAIN Width)
      BY <1>3, <1>5, SizeIs
    <3> QED  BY <3>1
  <2> QED  BY <2>1, <2>3, <2>4, <2>5
<1> QED  BY <1>1, <1>2, <1>4, <1>5, ChecksAre

\* What an expression finds wrong has a check.
LEMMA FoundIsChecked ==
  ASSUME NEW r, NEW v, Considered(r, v), NEW id \in IdsOf(r), CelFinds(r, id, v)
  PROVE  \E c \in Checks(r) : c.id = id
<1>1. ASSUME NEW f, Asks(r, f)
      PROVE  Formatted(r) /\ Format(r) = f
  BY <1>1 DEF Asks, Formatted, Format
<1>2. ASSUME NEW rule, id = <<rule>>
      PROVE  \E c \in Checks(r) : c.id = id
  <2>1. Len(id) = 1 /\ id[1] = rule
    BY <1>2
  <2>2. CASE Asks(r, rule)
    <3>1. PICK a : a = OfFormat(r)
      OBVIOUS
    <3>2. a.id = <<rule>> /\ a \in Checks(r)
      BY <1>1, <2>2, <3>1, ChecksAre DEF OfFormat, TextCheck
    <3> QED  BY <1>2, <3>2
  <2>3. CASE ~Asks(r, rule)
    <3>1. rule \in DOMAIN r.set /\ CelFindsOf(r.kind, rule, r.set[rule], v)
      BY <2>1, <2>3 DEF CelFinds
    <3>2. Concerns(r.kind, rule) /\ Suits(r.kind, rule, r.set[rule])
      BY <3>1, ConsideredIs
    <3>3. Plain(r, rule)
      <4>1. ~(rule = "well_known" \/ (rule = "defined_only" /\ ~r.set[rule])
              \/ ~Applies(rule, r.set[rule]))
        BY <3>1, <3>2, NoCheckMeans
      <4> QED  BY <3>1, <4>1 DEF Plain
    <3>4. PICK a : a = TextCheck(<<rule>>, rule, r.set[rule])
      OBVIOUS
    <3>5. a \in Checks(r)
      BY <3>3, <3>4, ChecksAre
    <3>6. a.id = <<rule>>
      BY <3>4 DEF TextCheck
    <3> QED  BY <1>2, <3>5, <3>6
  <2> QED  BY <2>2, <2>3
<1>3. ASSUME NEW f, id = <<f, "empty">>
      PROVE  \E c \in Checks(r) : c.id = id
  <2>1. Len(id) = 2 /\ id[1] = f
    BY <1>3
  <2>2. Asks(r, f) /\ AllowsEmpty(f)
    BY <2>1 DEF CelFinds
  <2>3. PICK a : a = OfEmpty(r)
    OBVIOUS
  <2>4. a \in Checks(r)
    BY <1>1, <2>2, <2>3, ChecksAre
  <2>5. a.id = <<f, "empty">>
    BY <1>1, <2>2, <2>3 DEF OfEmpty, TextCheck
  <2> QED  BY <1>3, <2>4, <2>5
<1>4. (\E rule : id = <<rule>>) \/ (\E f : id = <<f, "empty">>)
  BY DEF IdsOf
<1> QED  BY <1>2, <1>3, <1>4

\* The pattern has a check if there is one, and is the only one that has it.
LEMMA PatternChecked ==
  ASSUME NEW r, NEW v, Considered(r, v)
  PROVE  /\ "pattern" \in DOMAIN r.set => \E c \in Checks(r) : c.rule = "pattern"
         /\ \A c \in Checks(r) : c.rule = "pattern" => "pattern" \in DOMAIN r.set
<1>1. ASSUME "pattern" \in DOMAIN r.set
      PROVE  \E c \in Checks(r) : c.rule = "pattern"
  <2>1. Plain(r, "pattern")
    BY <1>1 DEF Plain, Applies
  <2>2. PICK a : a = TextCheck(<<"pattern">>, "pattern", r.set["pattern"])
    OBVIOUS
  <2>3. a.rule = "pattern" /\ a \in Checks(r)
    BY <2>1, <2>2, ChecksAre DEF TextCheck
  <2> QED  BY <2>3
<1>2. ASSUME NEW c \in Checks(r), c.rule = "pattern"
      PROVE  "pattern" \in DOMAIN r.set
  <2>1. c # OfFormat(r) /\ c # OfEmpty(r)
    BY <1>2 DEF OfFormat, OfEmpty, TextCheck
  <2>2. PICK rule : Plain(r, rule) /\ c = TextCheck(<<rule>>, rule, r.set[rule])
    BY <2>1, ChecksAre
  <2>3. rule = "pattern"
    BY <1>2, <2>2 DEF TextCheck
  <2> QED  BY <2>2, <2>3 DEF Plain
<1> QED  BY <1>1, <1>2

----------------------------------------------------------------------------
(* What has been reported when some checks are left.                        *)

\* What is left is in order; the reports are, and come before what is left; an
\* id is reported if its expression finds something wrong and it is not left.
InOrderSoFar(kind, left, ids) ==
  /\ InRank(kind, left)
  /\ \A i, j \in DOMAIN ids : i < j => Rank(kind, ids[i]) < Rank(kind, ids[j])
  /\ \A i \in DOMAIN ids, c \in ToSet(left) : Rank(kind, ids[i]) < Rank(kind, c.id)
IsLeft(id, left) == \E c \in ToSet(left) : c.id = id
AgreeSoFar(r, v, left, ids) ==
  \A id \in IdsOf(r) : id \in ToSet(ids) <=> CelFinds(r, id, v) /\ ~IsLeft(id, left)
SoFar(r, v, left, ids) ==
  /\ left \in Seq(Checks(r)) /\ ids \in Seq({c.id : c \in Checks(r)})
  /\ InOrderSoFar(r.kind, left, ids) /\ AgreeSoFar(r, v, left, ids)

\* Where a pattern must be matched against bytes that are no text.
Stuck(r, v) == r.kind = "bytes" /\ "pattern" \in DOMAIN r.set /\ ~IsText(v)

TextInv ==
  /\ Considered(rules, textValue)
  /\ textPhase \in {"build", "run", "rejected", "done", "error"}
  /\ textPhase = "build" => reportedIds = <<>>
  /\ textPhase \in {"run", "done", "error"} => SoFar(rules, textValue, checksLeft, reportedIds)
  /\ textPhase \in {"run", "done"} /\ Stuck(rules, textValue) =>
       \E c \in ToSet(checksLeft) : c.rule = "pattern"
  /\ textPhase = "done" => checksLeft = <<>>
  /\ textPhase = "error" => Stuck(rules, textValue)

\* Before the first check nothing is reported.
LEMMA FirstOfAll ==
  ASSUME NEW r, NEW v, Considered(r, v)
  PROVE  SoFar(r, v, TextChecksOf(r), <<>>)
<1>1. PICK t, e : t = TextChecksOf(r) /\ e = <<>>
  OBVIOUS
<1>2. t \in Seq(Checks(r)) /\ ToSet(t) = Checks(r) /\ InRank(r.kind, t)
  BY <1>1, TextChecksAre
<1>3. e \in Seq({c.id : c \in Checks(r)}) /\ DOMAIN e = {}
  BY <1>1
<1>4. ToSet(e) = {}
  BY <1>3, MembersAre
<1>5. InOrderSoFar(r.kind, t, e)
  BY <1>2, <1>3 DEF InOrderSoFar
<1>6. AgreeSoFar(r, v, t, e)
  <2>1. \A id \in IdsOf(r) : CelFinds(r, id, v) => IsLeft(id, t)
    BY <1>2, FoundIsChecked DEF IsLeft
  <2> QED  BY <1>4, <2>1 DEF AgreeSoFar
<1> QED  BY <1>1, <1>2, <1>3, <1>5, <1>6 DEF SoFar

\* The first of what is left, and the rest.
LEMMA FirstAndRest ==
  ASSUME NEW S, NEW s \in Seq(S), s # <<>>
  PROVE  /\ Head(s) \in S /\ Tail(s) \in Seq(S)
         /\ \A x : x \in ToSet(s) <=> x = Head(s) \/ x \in ToSet(Tail(s))
         /\ \A i \in DOMAIN Tail(s) :
              i \in Nat /\ i + 1 \in DOMAIN s /\ Tail(s)[i] = s[i + 1] /\ i + 1 > 1
         /\ 1 \in DOMAIN s /\ s[1] = Head(s)
<1>1. PICK t : t = Tail(s)
  OBVIOUS
<1>2. /\ Head(s) \in S /\ t \in Seq(S) /\ Len(t) = Len(s) - 1 /\ Len(s) \in Nat \ {0}
      /\ \A i \in 1..Len(t) : t[i] = s[i + 1]
      /\ DOMAIN t = 1..Len(t) /\ DOMAIN s = 1..Len(s) /\ s[1] = Head(s)
  BY <1>1
<1>3. \A i \in DOMAIN t : i \in Nat /\ i + 1 \in DOMAIN s /\ t[i] = s[i + 1] /\ i + 1 > 1
  BY <1>2
<1>4. 1 \in DOMAIN s
  BY <1>2
<1>5. ASSUME NEW x \in ToSet(s), x # Head(s) PROVE x \in ToSet(t)
  <2>1. PICK i \in DOMAIN s : s[i] = x
    BY MembersAre
  <2>2. i # 1
    BY <1>2, <1>5, <2>1
  <2>3. i - 1 \in DOMAIN t /\ (i - 1) + 1 = i
    BY <1>2, <2>1, <2>2
  <2>4. t[i - 1] = x
    BY <1>2, <2>1, <2>3
  <2> QED  BY <2>3, <2>4, MembersAre
<1>6. ASSUME NEW x \in ToSet(t) PROVE x \in ToSet(s)
  <2>1. PICK i \in DOMAIN t : t[i] = x
    BY <1>6, MembersAre
  <2> QED  BY <1>3, <2>1, MembersAre
<1>7. Head(s) \in ToSet(s)
  BY <1>2, <1>4, MembersAre
<1> QED  BY <1>1, <1>2, <1>3, <1>4, <1>5, <1>6, <1>7

\* s with x added: t is s, then x.
Added(s, x) == Append(s, x)
EndsIn(s, x, t) ==
  /\ \A y : y \in ToSet(t) <=> y \in ToSet(s) \/ y = x
  /\ \A i \in DOMAIN t : i \in Int /\ ((i \in DOMAIN s /\ t[i] = s[i])
                                      \/ (t[i] = x /\ \A j \in DOMAIN t : j <= i))

\* What is added to a sequence comes last.
LEMMA AddedLast ==
  ASSUME NEW S, NEW s \in Seq(S), NEW x \in S, NEW t, t = Added(s, x)
  PROVE  t \in Seq(S) /\ EndsIn(s, x, t)
<1>1. /\ t \in Seq(S) /\ Len(t) = Len(s) + 1 /\ t[Len(s) + 1] = x
      /\ \A i \in 1..Len(s) : t[i] = s[i]
  BY DEF Added
<1>2. /\ DOMAIN t = 1..(Len(s) + 1) /\ DOMAIN s = 1..Len(s) /\ Len(s) \in Nat
  BY <1>1
<1>3. ASSUME NEW i \in DOMAIN t
      PROVE  i \in Int /\ ((i \in DOMAIN s /\ t[i] = s[i])
                          \/ (t[i] = x /\ \A j \in DOMAIN t : j <= i))
  <2>1. i \in 1..(Len(s) + 1)
    BY <1>2
  <2>2. i \in 1..Len(s) \/ i = Len(s) + 1
    BY <1>2, <2>1
  <2> QED  BY <1>1, <1>2, <2>1, <2>2
<1>4. ASSUME NEW y, y \in ToSet(s) \/ y = x PROVE y \in ToSet(t)
  <2>1. CASE y = x
    <3>1. PICK k : k = Len(s) + 1
      OBVIOUS
    <3>2. k \in DOMAIN t /\ t[k] = y
      BY <1>1, <1>2, <2>1, <3>1
    <3> QED  BY <3>2, MembersAre
  <2>2. CASE y \in ToSet(s)
    <3>1. PICK i \in DOMAIN s : s[i] = y
      BY <2>2, MembersAre
    <3>2. i \in DOMAIN t /\ t[i] = y
      BY <1>1, <1>2, <3>1
    <3> QED  BY <3>2, MembersAre
  <2> QED  BY <1>4, <2>1, <2>2
<1>5. ASSUME NEW y \in ToSet(t) PROVE y \in ToSet(s) \/ y = x
  <2>1. PICK i \in DOMAIN t : t[i] = y
    BY <1>5, MembersAre
  <2> QED  BY <1>3, <2>1, MembersAre
<1> QED  BY <1>1, <1>3, <1>4, <1>5 DEF EndsIn

\* After a check, what it found is reported, and no other check has its id.
LEMMA OneCheckMore ==
  ASSUME NEW r, NEW v, Considered(r, v), NEW left, NEW ids, SoFar(r, v, left, ids), left # <<>>,
         NEW ids2, ids2 = IF TextFails(r.kind, Head(left), v)
                          THEN Append(ids, Head(left).id) ELSE ids
  PROVE  SoFar(r, v, Tail(left), ids2)
<1>1. PICK kind, c, rest : kind = r.kind /\ c = Head(left) /\ rest = Tail(left)
  OBVIOUS
<1>2. PICK I : I = {x.id : x \in Checks(r)}
  OBVIOUS
<1>3. /\ left \in Seq(Checks(r)) /\ ids \in Seq(I) /\ InRank(kind, left)
      /\ \A i, j \in DOMAIN ids : i < j => Rank(kind, ids[i]) < Rank(kind, ids[j])
      /\ \A i \in DOMAIN ids, x \in ToSet(left) : Rank(kind, ids[i]) < Rank(kind, x.id)
  BY <1>1, <1>2 DEF SoFar, InOrderSoFar
<1>4. /\ c \in Checks(r) /\ rest \in Seq(Checks(r))
      /\ \A x : x \in ToSet(left) <=> x = c \/ x \in ToSet(rest)
      /\ \A i \in DOMAIN rest :
           i \in Nat /\ i + 1 \in DOMAIN left /\ rest[i] = left[i + 1] /\ i + 1 > 1
      /\ 1 \in DOMAIN left /\ left[1] = c
  BY <1>1, <1>3, FirstAndRest
<1>5. \A x \in ToSet(rest) : Rank(kind, c.id) < Rank(kind, x.id)
  <2>1. ASSUME NEW i \in DOMAIN rest PROVE Rank(kind, c.id) < Rank(kind, rest[i].id)
    <3>1. i + 1 \in DOMAIN left /\ rest[i] = left[i + 1] /\ 1 < i + 1
      BY <1>4
    <3> QED  BY <1>3, <1>4, <3>1 DEF InRank
  <2> QED  BY <2>1, MembersAre
<1>6. InRank(kind, rest)
  <2>1. ASSUME NEW i \in DOMAIN rest, NEW j \in DOMAIN rest, i < j
        PROVE  Rank(kind, rest[i].id) < Rank(kind, rest[j].id)
    <3>1. PICK k, m : k = i + 1 /\ m = j + 1
      OBVIOUS
    <3>2. k \in DOMAIN left /\ m \in DOMAIN left /\ k < m /\ rest[i] = left[k] /\ rest[j] = left[m]
      BY <1>4, <2>1, <3>1
    <3> QED  BY <1>3, <3>2 DEF InRank
  <2> QED  BY <2>1 DEF InRank
<1>7. ~IsLeft(c.id, rest)
  <2>1. Rank(kind, c.id) \in Int
    BY <1>1, <1>4, TextChecksAre
  <2>2. ASSUME NEW x \in ToSet(rest), x.id = c.id PROVE FALSE
    <3>1. Rank(kind, c.id) < Rank(kind, c.id)
      BY <1>5, <2>2
    <3> QED  BY <2>1, <3>1
  <2> QED  BY <2>2 DEF IsLeft
<1>8. TextFails(kind, c, v) <=> CelFinds(r, c.id, v)
  BY <1>1, <1>4, CheckAgrees
<1>9. \A id : id # c.id => (IsLeft(id, left) <=> IsLeft(id, rest))
  BY <1>4 DEF IsLeft
<1>10. IsLeft(c.id, left)
  BY <1>4 DEF IsLeft
<1>11. \A id \in IdsOf(r) : id \in ToSet(ids) <=> CelFinds(r, id, v) /\ ~IsLeft(id, left)
  BY DEF SoFar, AgreeSoFar
<1>12. CASE ~TextFails(kind, c, v)
  <2>1. ids2 = ids
    BY <1>1, <1>12
  <2>2. InOrderSoFar(kind, rest, ids)
    BY <1>3, <1>4, <1>6 DEF InOrderSoFar
  <2>3. AgreeSoFar(r, v, rest, ids)
    BY <1>7, <1>8, <1>9, <1>10, <1>11, <1>12 DEF AgreeSoFar
  <2> QED  BY <1>1, <1>2, <1>3, <1>4, <2>1, <2>2, <2>3 DEF SoFar
<1>13. CASE TextFails(kind, c, v)
  <2>1. ids2 = Append(ids, c.id) /\ c.id \in I
    BY <1>1, <1>2, <1>4, <1>13
  <2>2. /\ ids2 \in Seq(I) /\ \A y : y \in ToSet(ids2) <=> y \in ToSet(ids) \/ y = c.id
        /\ \A i \in DOMAIN ids2 : i \in Int /\ ((i \in DOMAIN ids /\ ids2[i] = ids[i])
                                          \/ (ids2[i] = c.id /\ \A j \in DOMAIN ids2 : j <= i))
    <3>1. PICK x : x = c.id
      OBVIOUS
    <3>2. x \in I /\ ids2 = Added(ids, x) /\ ids \in Seq(I)
      BY <1>3, <2>1, <3>1 DEF Added
    <3>3. ids2 \in Seq(I) /\ EndsIn(ids, x, ids2)
      BY <3>2, AddedLast
    <3> QED  BY <3>1, <3>3 DEF EndsIn
  <2>3. ASSUME NEW i \in DOMAIN ids2, NEW j \in DOMAIN ids2, i < j
        PROVE  Rank(kind, ids2[i]) < Rank(kind, ids2[j])
    <3>1. i \in DOMAIN ids /\ ids2[i] = ids[i]
      BY <2>2, <2>3
    <3>2. CASE j \in DOMAIN ids /\ ids2[j] = ids[j]
      BY <1>3, <2>3, <3>1, <3>2
    <3>3. CASE ids2[j] = c.id
      BY <1>3, <1>4, <3>1, <3>3
    <3> QED  BY <2>2, <3>2, <3>3
  <2>4. ASSUME NEW i \in DOMAIN ids2, NEW x \in ToSet(rest)
        PROVE  Rank(kind, ids2[i]) < Rank(kind, x.id)
    <3>1. CASE i \in DOMAIN ids /\ ids2[i] = ids[i]
      BY <1>3, <1>4, <3>1
    <3>2. CASE ids2[i] = c.id
      BY <1>5, <3>2
    <3> QED  BY <2>2, <3>1, <3>2
  <2>5. InOrderSoFar(kind, rest, ids2)
    BY <1>6, <2>3, <2>4 DEF InOrderSoFar
  <2>6. AgreeSoFar(r, v, rest, ids2)
    BY <1>7, <1>8, <1>9, <1>10, <1>11, <1>13, <2>2 DEF AgreeSoFar
  <2> QED  BY <1>1, <1>2, <1>4, <2>2, <2>5, <2>6 DEF SoFar
<1> QED  BY <1>12, <1>13

----------------------------------------------------------------------------
(* The invariant and the theorem.                                           *)

\* It holds at the start.
LEMMA TextStart == TextInit => TextInv
<1>1. SUFFICES ASSUME TextInit PROVE TextInv
  OBVIOUS
<1>2. PICK kind \in DOMAIN TextRuleSets :
        rules \in TextRuleSets[kind] /\ textValue \in TextValues[kind]
  BY <1>1 DEF TextInit
<1>3. kind \in DOMAIN Placed /\ RulesOfTexts(kind, rules) /\ ValueOfTexts(kind, textValue)
  BY <1>2, TextRulesAssumption
<1>4. rules.kind = kind
  BY <1>3 DEF RulesOfTexts
<1>5. Considered(rules, textValue)
  BY <1>3, <1>4 DEF Considered
<1> QED  BY <1>1, <1>5 DEF TextInit, TextInv

\* Building the checks keeps it: nothing is reported and all are left.
LEMMA TextBuilt == TextInv /\ BuildTextChecks => TextInv'
<1>1. SUFFICES ASSUME TextInv, BuildTextChecks PROVE TextInv'
  OBVIOUS
<1>2. /\ UNCHANGED <<rules, textValue, reportedIds>> /\ reportedIds = <<>>
      /\ textPhase' = "rejected" \/ (textPhase' = "run" /\ checksLeft' = TextChecksOf(rules))
      /\ Considered(rules, textValue)
  BY <1>1 DEF BuildTextChecks, TextInv
<1>3. CASE textPhase' = "rejected"
  BY <1>2, <1>3 DEF TextInv
<1>4. CASE textPhase' = "run" /\ checksLeft' = TextChecksOf(rules)
  <2>1. SoFar(rules, textValue, TextChecksOf(rules), <<>>)
    BY <1>2, FirstOfAll
  <2>2. ToSet(TextChecksOf(rules)) = Checks(rules)
    BY <1>2, TextChecksAre
  <2>3. Stuck(rules, textValue) => \E c \in Checks(rules) : c.rule = "pattern"
    BY <1>2, PatternChecked DEF Stuck
  <2> QED  BY <1>2, <1>4, <2>1, <2>2, <2>3 DEF TextInv
<1> QED  BY <1>2, <1>3, <1>4

\* A check that is run is reported as its expression says.
LEMMA TextChecked == TextInv /\ RunTextCheck => TextInv'
<1>1. SUFFICES ASSUME TextInv, RunTextCheck PROVE TextInv'
  OBVIOUS
<1>2. /\ UNCHANGED <<rules, textValue, textPhase>> /\ textPhase = "run" /\ checksLeft # <<>>
      /\ ~CannotRun(rules.kind, Head(checksLeft), textValue)
      /\ reportedIds' = IF TextFails(rules.kind, Head(checksLeft), textValue)
                        THEN Append(reportedIds, Head(checksLeft).id) ELSE reportedIds
      /\ checksLeft' = Tail(checksLeft)
  BY <1>1 DEF RunTextCheck
<1>3. /\ Considered(rules, textValue) /\ SoFar(rules, textValue, checksLeft, reportedIds)
      /\ Stuck(rules, textValue) => \E c \in ToSet(checksLeft) : c.rule = "pattern"
  BY <1>1, <1>2 DEF TextInv
<1>4. SoFar(rules, textValue, Tail(checksLeft), reportedIds')
  BY <1>2, <1>3, OneCheckMore
<1>5. ASSUME Stuck(rules, textValue)
      PROVE  \E c \in ToSet(Tail(checksLeft)) : c.rule = "pattern"
  <2>1. PICK c \in ToSet(checksLeft) : c.rule = "pattern"
    BY <1>3, <1>5
  <2>2. Head(checksLeft).rule # "pattern"
    BY <1>2, <1>5 DEF CannotRun, Stuck
  <2>3. checksLeft \in Seq(Checks(rules))
    BY <1>3 DEF SoFar
  <2>4. c = Head(checksLeft) \/ c \in ToSet(Tail(checksLeft))
    BY <1>2, <2>1, <2>3, FirstAndRest
  <2> QED  BY <2>1, <2>2, <2>4
<1>6. /\ textPhase' = "run" /\ checksLeft' = Tail(checksLeft)
      /\ rules' = rules /\ textValue' = textValue
  BY <1>2
<1> QED  BY <1>3, <1>4, <1>5, <1>6 DEF TextInv

\* A check that cannot be run is the pattern's.
LEMMA TextErred == TextInv /\ TextCheckErrs => TextInv'
<1>1. SUFFICES ASSUME TextInv, TextCheckErrs PROVE TextInv'
  OBVIOUS
<1>2. /\ UNCHANGED <<rules, textValue, checksLeft, reportedIds>> /\ textPhase = "run"
      /\ checksLeft # <<>> /\ textPhase' = "error"
      /\ CannotRun(rules.kind, Head(checksLeft), textValue)
  BY <1>1 DEF TextCheckErrs
<1>3. Considered(rules, textValue) /\ SoFar(rules, textValue, checksLeft, reportedIds)
  BY <1>1, <1>2 DEF TextInv
<1>4. Stuck(rules, textValue)
  <2>1. checksLeft \in Seq(Checks(rules))
    BY <1>3 DEF SoFar
  <2>2. Head(checksLeft) \in Checks(rules)
    BY <1>2, <2>1, FirstAndRest
  <2>3. Head(checksLeft).rule = "pattern" /\ rules.kind = "bytes" /\ ~IsText(textValue)
    BY <1>2 DEF CannotRun
  <2>4. "pattern" \in DOMAIN rules.set
    BY <1>3, <2>2, <2>3, PatternChecked
  <2> QED  BY <2>3, <2>4 DEF Stuck
<1> QED  BY <1>2, <1>3, <1>4 DEF TextInv

\* In all that happens the invariant is kept.
LEMMA TextInvariant == TextSpec => []TextInv
<1>1. TextInit => TextInv
  BY TextStart
<1>2. TextInv /\ [TextNext]_textVars => TextInv'
  <2>1. SUFFICES ASSUME TextInv, [TextNext]_textVars PROVE TextInv'
    OBVIOUS
  <2>2. CASE BuildTextChecks
    BY <2>1, <2>2, TextBuilt
  <2>3. CASE RunTextCheck
    BY <2>1, <2>3, TextChecked
  <2>4. CASE TextCheckErrs
    BY <2>1, <2>4, TextErred
  <2>5. CASE FinishTextChecks
    BY <2>1, <2>5 DEF TextInv, FinishTextChecks
  <2>6. CASE UNCHANGED textVars
    BY <2>1, <2>6 DEF TextInv, textVars
  <2> QED  BY <2>1, <2>2, <2>3, <2>4, <2>5, <2>6 DEF TextNext
<1> QED  BY <1>1, <1>2, PTL DEF TextSpec

\* Of any rules that are considered of strings, bytes, enums, lists, maps,
\* masks and Any, and any value of their kind, the native checks report
\* exactly the ids whose expressions find something wrong, each once and in
\* the order validate.proto declares them; and they end in an error only for a
\* pattern of bytes that are no text.
THEOREM TextChecksAgreeWithCel == TextSpec => []TextAgreesWithCel
<1>1. TextInv => TextAgreesWithCel
  <2>1. SUFFICES ASSUME TextInv PROVE TextAgreesWithCel
    OBVIOUS
  <2>2. ASSUME textPhase = "done"
        PROVE  /\ \A id \in IdsOf(rules) :
                    id \in ToSet(reportedIds) <=> CelFinds(rules, id, textValue)
               /\ \A i, j \in DOMAIN reportedIds :
                    i < j => Rank(rules.kind, reportedIds[i]) < Rank(rules.kind, reportedIds[j])
    <3>1. SoFar(rules, textValue, checksLeft, reportedIds) /\ checksLeft = <<>>
      BY <2>1, <2>2 DEF TextInv
    <3>2. ToSet(checksLeft) = {}
      <4>1. DOMAIN checksLeft = {}
        BY <3>1
      <4> QED  BY <4>1, MembersAre
    <3> QED  BY <3>1, <3>2 DEF SoFar, InOrderSoFar, AgreeSoFar, IsLeft
  <2>3. ASSUME textPhase = "done" PROVE ~Stuck(rules, textValue)
    <3>1. checksLeft = <<>>
      BY <2>1, <2>3 DEF TextInv
    <3>2. DOMAIN checksLeft = {}
      BY <3>1
    <3>3. ToSet(checksLeft) = {}
      BY <3>2, MembersAre
    <3> QED  BY <2>1, <2>3, <3>3 DEF TextInv
  <2>4. textPhase = "error" => Stuck(rules, textValue)
    BY <2>1 DEF TextInv
  <2> QED  BY <2>2, <2>3, <2>4 DEF TextAgreesWithCel, Stuck
<1> QED  BY <1>1, TextInvariant, PTL
=============================================================================
