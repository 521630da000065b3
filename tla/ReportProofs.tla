---------------------------- MODULE ReportProofs ----------------------------
(***************************************************************************)
(* Proofs about WalkReport, for any compiled rules and any message whose   *)
(* nesting ends: the walk of rules/eval.rs, a loop over an agenda of       *)
(* tasks, reports what the recursive definition of WalkReport says.        *)
(*                                                                         *)
(* That definition is a recursion over the messages; RightExists and what  *)
(* is before it show that it has a value, for no message is inside itself. *)
(*                                                                         *)
(* The inductive invariant, OrderInv, gives each task left a plan: the     *)
(* path the walk will be at when its turn comes, the path that stands for, *)
(* whether it is about a map key, the subscripts that the map entries      *)
(* around it still owe, and what is to be reported from it on.  The walk   *)
(* records the violations inside a map entry without the entry's key, and  *)
(* writes the key into them when the entry ends: until then what is        *)
(* recorded is the report but for the subscripts owed.  So the invariant   *)
(* says that what is recorded, once the debts are paid, followed by what   *)
(* is planned, is the report.                                              *)
(***************************************************************************)
EXTENDS WalkReport, WalkProofs, FiniteSetTheorems, WellFoundedInduction

\* A set of numbers has a least one.
LEMMA LeastNatural ==
  ASSUME NEW S \in SUBSET Nat, S # {}
  PROVE  \E n \in S : \A m \in S : n <= m
<1> DEFINE R == StrictSubsetOrdering(Nat)
           T == {0..n : n \in S}
<1>1. T \subseteq FiniteSubsetsOf(Nat) /\ T # {}
  <2>1. \A n \in Nat : IsFiniteSet(0..n)
    BY FS_Interval
  <2>2. \A n \in S : 0..n \in FiniteSubsetsOf(Nat)
    BY <2>1 DEF FiniteSubsetsOf
  <2> QED  BY <2>2
<1>2. PICK t \in T : \A u \in T : <<u, t>> \notin R
  BY <1>1, FS_StrictSubsetOrderingWellFounded, WFMin
<1>3. PICK n \in S : t = 0..n
  OBVIOUS
<1>4. ASSUME NEW m \in S, m < n PROVE FALSE
  <2>1. 0..m \in T /\ n \in 0..n /\ n \notin 0..m /\ 0..m \subseteq 0..n
    BY <1>4
  <2>2. <<0..m, 0..n>> \in R
    BY <2>1 DEF StrictSubsetOrdering
  <2> QED  BY <1>2, <1>3, <2>1, <2>2
<1> QED  BY <1>4

\* A sequence is determined by its length and its members.
LEMMA SameSeq ==
  ASSUME NEW S, NEW a \in Seq(S), NEW b \in Seq(S), Len(a) = Len(b),
         \A i \in 1..Len(a) : a[i] = b[i]
  PROVE  a = b
BY SeqEqual

\* Concatenation.
Cat(a, b) == a \o b

\* A concatenation is as long as both, and the empty sequence adds nothing.
LEMMA CatIs ==
  ASSUME NEW S, NEW a \in Seq(S), NEW b \in Seq(S)
  PROVE  /\ Cat(a, b) \in Seq(S) /\ Len(Cat(a, b)) = Len(a) + Len(b)
         /\ Cat(a, <<>>) = a /\ Cat(<<>>, a) = a
BY ConcatProperties, ConcatEmptySeq DEF Cat

\* The members of a concatenation are those of the first, then those of the second.
LEMMA CatMembers ==
  ASSUME NEW S, NEW a \in Seq(S), NEW b \in Seq(S)
  PROVE  /\ \A i \in 1..Len(a) : Cat(a, b)[i] = a[i]
         /\ \A i \in (Len(a) + 1)..(Len(a) + Len(b)) : Cat(a, b)[i] = b[i - Len(a)]
BY ConcatProperties DEF Cat

\* Three sequences are joined alike in either order.
LEMMA CatAssociative ==
  ASSUME NEW S, NEW a \in Seq(S), NEW b \in Seq(S), NEW c \in Seq(S)
  PROVE  Cat(Cat(a, b), c) = Cat(a, Cat(b, c))
BY ConcatAssociative DEF Cat

-----------------------------------------------------------------------------
(* Flattening: what is left of it from its i-th part on.                   *)

\* W[i] is what the parts of s from the i-th on make together.
LeftOf(W, s, S) ==
  /\ W \in [1..(Len(s) + 1) -> Seq(S)] /\ W[Len(s) + 1] = <<>>
  /\ \A i \in 1..Len(s) : W[i] = Cat(s[i], W[i + 1])

\* g[i] is what the first i parts of s make together.
Steps(g, s, k, S) ==
  /\ g \in [1..k -> Seq(S)]
  /\ g = [i \in 1..k |-> IF i = 1 THEN s[i] ELSE Cat(g[i - 1], s[i])]

\* A sequence of sequences can be joined step by step.
LEMMA StepsExist ==
  ASSUME NEW S, NEW s \in Seq(Seq(S)), NEW k \in 0..Len(s)
  PROVE  \E g : Steps(g, s, k, S)
<1> DEFINE Bad == {n \in 0..Len(s) : ~ \E g : Steps(g, s, n, S)}
<1>1. Len(s) \in Nat /\ \A i \in 1..Len(s) : s[i] \in Seq(S)
  OBVIOUS
<1>2. SUFFICES ASSUME Bad # {} PROVE FALSE
  OBVIOUS
<1>3. PICK n \in Bad : \A m \in Bad : n <= m
  <2>1. Bad \in SUBSET Nat  BY <1>1
  <2> QED  BY <1>2, <2>1, LeastNatural
<1>4. n # 0
  <2>1. SUFFICES ASSUME n = 0 PROVE FALSE
    OBVIOUS
  <2>2. PICK g : g = [i \in 1..0 |-> <<>>]
    OBVIOUS
  <2>3. Steps(g, s, 0, S)
    BY <2>2 DEF Steps
  <2> QED  BY <2>1, <2>3
<1>5. n \in Nat /\ n - 1 \in 0..Len(s) /\ n - 1 \notin Bad
  <2>1. n \in 0..Len(s)
    BY <1>3
  <2>2. n \in Nat /\ n - 1 \in 0..Len(s) /\ ~(n <= n - 1)
    BY <1>1, <1>4, <2>1
  <2> HIDE DEF Bad
  <2> QED  BY <1>3, <2>2
<1>6. PICK g : Steps(g, s, n - 1, S)
  BY <1>5
<1>7. PICK h : h = [i \in 1..n |-> IF i \in 1..(n - 1) THEN g[i]
                                   ELSE IF i = 1 THEN s[i] ELSE Cat(g[i - 1], s[i])]
  OBVIOUS
<1>8. h \in [1..n -> Seq(S)]
  <2>1. SUFFICES ASSUME NEW i \in 1..n PROVE h[i] \in Seq(S)
    BY <1>7
  <2>2. CASE i \in 1..(n - 1)
    BY <1>6, <1>7, <2>2 DEF Steps
  <2>3. CASE i \notin 1..(n - 1)
    <3>1. CASE i = 1
      <4>1. s[1] \in Seq(S)
        BY <1>1, <1>5, <3>1
      <4>2. h[1] = s[1]
        BY <1>7, <2>3, <3>1
      <4> QED  BY <3>1, <4>1, <4>2
    <3>2. CASE i # 1
      <4>1. i - 1 \in 1..(n - 1) /\ i \in 1..Len(s)
        BY <1>1, <1>5, <2>3, <3>2
      <4>2. g[i - 1] \in Seq(S) /\ s[i] \in Seq(S)
        <5>1. g \in [1..(n - 1) -> Seq(S)]
          BY <1>6 DEF Steps
        <5>2. g[i - 1] \in Seq(S)
          BY <4>1, <5>1
        <5>3. s[i] \in Seq(S)
          BY <4>1
        <5> QED  BY <5>2, <5>3
      <4>3. h[i] = Cat(g[i - 1], s[i])
        BY <1>7, <2>3, <3>2
      <4>4. PICK a, b : a = g[i - 1] /\ b = s[i]
        OBVIOUS
      <4>5. Cat(a, b) \in Seq(S)
        BY <4>2, <4>4, CatIs
      <4> QED  BY <4>3, <4>4, <4>5
    <3> QED  BY <3>1, <3>2
  <2> QED  BY <2>2, <2>3
<1>9. h = [i \in 1..n |-> IF i = 1 THEN s[i] ELSE Cat(h[i - 1], s[i])]
  <2>1. ASSUME NEW i \in 1..n
        PROVE  h[i] = IF i = 1 THEN s[i] ELSE Cat(h[i - 1], s[i])
    <3>1. CASE i = 1
      <4>1. CASE 1 \in 1..(n - 1)
        BY <1>6, <1>7, <3>1, <4>1 DEF Steps
      <4>2. CASE 1 \notin 1..(n - 1)
        BY <1>7, <3>1, <4>2
      <4> QED  BY <4>1, <4>2
    <3>2. CASE i # 1
      <4>1. i - 1 \in 1..(n - 1) /\ i - 1 \in 1..n
        BY <1>5, <3>2
      <4>2. h[i - 1] = g[i - 1]
        BY <1>7, <4>1
      <4>3. CASE i \in 1..(n - 1)
        <5>1. g[i] = Cat(g[i - 1], s[i])
          BY <1>6, <3>2, <4>3 DEF Steps
        <5> QED  BY <1>7, <3>2, <4>2, <4>3, <5>1
      <4>4. CASE i \notin 1..(n - 1)
        BY <1>7, <3>2, <4>2, <4>4
      <4> QED  BY <4>3, <4>4
    <3> QED  BY <3>1, <3>2
  <2> QED  BY <1>7, <2>1
<1> QED  BY <1>3, <1>8, <1>9 DEF Steps
\* What is left of a sequence of sequences from each part on, all of it at the first.
LEMMA LeftExists ==
  ASSUME NEW S, NEW s \in Seq(Seq(S))
  PROVE  \E W : LeftOf(W, s, S) /\ W[1] = FlattenSeq(s)
<1> DEFINE n == Len(s)
<1>1. n \in Nat /\ DOMAIN s = 1..n /\ \A i \in 1..n : s[i] \in Seq(S)
  OBVIOUS
<1>2. CASE n = 0
  <2>1. PICK W : W = [i \in 1..1 |-> <<>>]
    OBVIOUS
  <2>2. FlattenSeq(s) = <<>>
    <3>1. s = <<>>
      BY <1>2, EmptySeq
    <3> QED  BY <1>2, <3>1 DEF FlattenSeq
  <2>3. LeftOf(W, s, S)
    BY <1>2, <2>1 DEF LeftOf
  <2> QED  BY <2>1, <2>2, <2>3
<1>3. CASE n # 0
  <2>1. PICK g : /\ FlattenSeq(s) = g[n]
                 /\ g = [i \in 1..n |-> IF i = 1 THEN s[i] ELSE Cat(g[i - 1], s[i])]
    <3>1. PICK h : Steps(h, s, n, S)
      BY <1>1, StepsExist
    <3>2. h = [i \in 1..n |-> IF i = 1 THEN s[i] ELSE Cat(h[i - 1], s[i])]
      BY <3>1 DEF Steps
    <3> QED  BY <1>3, <3>2 DEF FlattenSeq, Cat
  <2> DEFINE Upto(W, k) ==
               /\ W \in [1..(k + 1) -> Seq(S)] /\ W[k + 1] = <<>>
               /\ \A i \in 1..k : W[i] = Cat(s[i], W[i + 1])
               /\ W[1] = g[k]
             Bad == {k \in 1..n : ~ \E W : Upto(W, k)}
  <2>2. SUFFICES ASSUME Bad # {} PROVE FALSE
    <3>1. SUFFICES ASSUME Bad = {} PROVE \E W : LeftOf(W, s, S) /\ W[1] = FlattenSeq(s)
      OBVIOUS
    <3>2. n \in 1..n
      BY <1>1, <1>3
    <3>3. PICK W : Upto(W, n)
      BY <3>1, <3>2
    <3> QED  BY <2>1, <3>3 DEF LeftOf
  <2>3. PICK k \in Bad : \A m \in Bad : k <= m
    <3>1. 1..n \subseteq Nat
      BY <1>1
    <3> DEFINE Has(k) == \E W : Upto(W, k)
    <3>2. Bad = {k \in 1..n : ~Has(k)}
      OBVIOUS
    <3> HIDE DEF Has
    <3>3. Bad \in SUBSET Nat
      BY <3>1, <3>2
    <3> HIDE DEF Bad
    <3> QED  BY <2>2, <3>3, LeastNatural
  <2>4. k \in 1..n /\ ~ \E W : Upto(W, k)
    BY <2>3
  <2>5. k # 1
    <3>1. SUFFICES ASSUME k = 1 PROVE FALSE
      OBVIOUS
    <3>2. PICK W : W = [i \in 1..2 |-> IF i = 1 THEN s[1] ELSE <<>>]
      OBVIOUS
    <3>3. s[1] \in Seq(S) /\ <<>> \in Seq(S)
      BY <1>1, <1>3
    <3>4. W \in [1..2 -> Seq(S)] /\ W[1] = s[1] /\ W[2] = <<>>
      BY <3>2, <3>3
    <3>5. W[1] = Cat(s[1], W[2])
      BY <3>3, <3>4, CatIs
    <3>6. W[1] = g[1]
      BY <1>1, <1>3, <2>1, <3>4
    <3>7. Upto(W, 1)
      BY <3>4, <3>5, <3>6
    <3> QED  BY <2>4, <3>1, <3>7
  <2>6. k - 1 \in 1..n /\ k - 1 \notin Bad /\ k \in Nat
    <3>1. k - 1 \in 1..n /\ ~(k <= k - 1) /\ k \in Nat
      BY <1>1, <2>4, <2>5
    <3> HIDE DEF Bad
    <3> QED  BY <2>3, <3>1
  <2>7. PICK V : Upto(V, k - 1)
    BY <2>6
  <2>8. s[k] \in Seq(S) /\ V[k] = <<>> /\ \A i \in 1..k : V[i] \in Seq(S)
    BY <1>1, <2>4, <2>6, <2>7
  <2>9. PICK W : W = [i \in 1..(k + 1) |-> IF i \in 1..k THEN Cat(V[i], s[k]) ELSE <<>>]
    OBVIOUS
  <2>10. W \in [1..(k + 1) -> Seq(S)] /\ W[k + 1] = <<>>
    <3>1. \A i \in 1..k : Cat(V[i], s[k]) \in Seq(S)
      BY <2>8, CatIs
    <3>2. k + 1 \in 1..(k + 1) /\ k + 1 \notin 1..k /\ <<>> \in Seq(S)
      BY <2>6
    <3> QED  BY <2>9, <3>1, <3>2
  <2>11. ASSUME NEW i \in 1..k PROVE W[i] = Cat(s[i], W[i + 1])
    <3>1. CASE i = k
      <4>1. W[k] = Cat(V[k], s[k]) /\ W[k + 1] = <<>>
        <5>1. k \in 1..k /\ k \in 1..(k + 1)
          BY <2>6
        <5> QED  BY <2>9, <2>10, <5>1
      <4>2. Cat(V[k], s[k]) = s[k] /\ Cat(s[k], <<>>) = s[k]
        BY <2>8, CatIs
      <4> QED  BY <3>1, <4>1, <4>2
    <3>2. CASE i # k
      <4>1. i \in 1..(k - 1) /\ i + 1 \in 1..k /\ i \in 1..n
        BY <1>1, <2>4, <2>6, <3>2
      <4>2. W[i] = Cat(V[i], s[k]) /\ W[i + 1] = Cat(V[i + 1], s[k]) /\ V[i] = Cat(s[i], V[i + 1])
        <5>1. i \in 1..k /\ i \in 1..(k + 1) /\ i + 1 \in 1..(k + 1)
          <6>1. k \in Nat
            BY <2>6
          <6>2. i \in 1..(k - 1)
            BY <4>1
          <6> HIDE DEF Bad, Upto
          <6> QED  BY ONLY <6>1, <6>2
        <5>2. W[i] = Cat(V[i], s[k])
          BY <2>9, <5>1
        <5>3. W[i + 1] = Cat(V[i + 1], s[k])
          BY <2>9, <4>1, <5>1
        <5> QED  BY <2>7, <4>1, <5>2, <5>3
      <4>3. Cat(Cat(s[i], V[i + 1]), s[k]) = Cat(s[i], Cat(V[i + 1], s[k]))
        <5>1. s[i] \in Seq(S) /\ V[i + 1] \in Seq(S) /\ s[k] \in Seq(S)
          BY <1>1, <2>8, <4>1
        <5> QED  BY <5>1, CatAssociative
      <4> QED  BY <4>2, <4>3
    <3> QED  BY <3>1, <3>2
  <2>12. W[1] = g[k]
    <3>1. W[1] = Cat(V[1], s[k]) /\ V[1] = g[k - 1]
      <4>1. 1 \in 1..k /\ 1 \in 1..(k + 1)
        BY <2>6
      <4>2. W[1] = Cat(V[1], s[k])
        BY <2>9, <4>1
      <4> QED  BY <2>7, <4>2
    <3>2. g[k] = Cat(g[k - 1], s[k])
      BY <2>1, <2>4, <2>5
    <3> QED  BY <3>1, <3>2
  <2>13. Upto(W, k)
    BY <2>10, <2>11, <2>12
  <2> QED  BY <2>4, <2>13
<1> QED  BY <1>2, <1>3
-----------------------------------------------------------------------------
(* Findings.                                                               *)

\* A path, a reported violation with the path its message gives it, and a report.
Paths == Seq(Elements)
\* (The provers do not know a literal string for one.)
Names == STRING \cup {"broken", "required", "message.oneof"}
Finding == [path : Paths, rule : Names, key : BOOLEAN]
Findings == Seq(Finding)
\* A finding seen from a message further out.
Moved(p, f) == [f EXCEPT !.path = p \o @]

\* Moving a finding extends its path and changes nothing else.
LEMMA MovedIs ==
  ASSUME NEW p \in Paths, NEW f \in Finding
  PROVE  /\ Moved(p, f) \in Finding
         /\ Moved(p, f).path = Cat(p, f.path)
         /\ Moved(p, f).rule = f.rule /\ Moved(p, f).key = f.key
<1>1. f = [path |-> f.path, rule |-> f.rule, key |-> f.key]
      /\ f.path \in Paths /\ f.rule \in Names /\ f.key \in BOOLEAN
  BY DEF Finding
<1>2. PICK q : q = p \o f.path
  OBVIOUS
<1>3. q \in Paths /\ q = Cat(p, f.path)
  BY <1>1, <1>2, CatIs DEF Paths, Cat
<1>4. Moved(p, f) = [f EXCEPT !.path = q]
  BY <1>2 DEF Moved
<1>5. [f EXCEPT !.path = q] = [path |-> q, rule |-> f.rule, key |-> f.key]
  BY <1>1
<1>6. PICK g : g = [path |-> q, rule |-> f.rule, key |-> f.key]
  OBVIOUS
<1>7. g \in Finding /\ g.path = q /\ g.rule = f.rule /\ g.key = f.key
  BY <1>1, <1>3, <1>6 DEF Finding
<1> QED  BY <1>3, <1>4, <1>5, <1>6, <1>7

\* A finding is its path, its rule and whether it is a map key's.
LEMMA FindingParts ==
  ASSUME NEW f \in Finding
  PROVE  /\ f = [path |-> f.path, rule |-> f.rule, key |-> f.key]
         /\ f.path \in Paths /\ f.rule \in Names /\ f.key \in BOOLEAN
BY DEF Finding

\* Findings of one path, rule and key flag are one.
LEMMA SameFinding ==
  ASSUME NEW f \in Finding, NEW g \in Finding, f.path = g.path, f.rule = g.rule, f.key = g.key
  PROVE  f = g
BY FindingParts

\* To move a finding out twice is to move it once, by both paths.
LEMMA MovedTwice ==
  ASSUME NEW p \in Paths, NEW q \in Paths, NEW f \in Finding
  PROVE  Moved(p, Moved(q, f)) = Moved(Cat(p, q), f)
<1>1. Cat(p, q) \in Paths /\ f.path \in Paths
  BY CatIs, FindingParts DEF Paths
<1>2. Cat(Cat(p, q), f.path) = Cat(p, Cat(q, f.path))
  BY <1>1, CatAssociative DEF Paths
<1>3. PICK g : g = Moved(q, f)
  OBVIOUS
<1>4. g \in Finding /\ g.path = Cat(q, f.path) /\ g.rule = f.rule /\ g.key = f.key
  BY <1>3, MovedIs
<1>5. PICK h : h = Moved(p, g)
  OBVIOUS
<1>6. h \in Finding /\ h.path = Cat(p, Cat(q, f.path)) /\ h.rule = f.rule /\ h.key = f.key
  BY <1>4, <1>5, MovedIs
<1>7. PICK k : k = Moved(Cat(p, q), f)
  OBVIOUS
<1>8. k \in Finding /\ k.path = Cat(Cat(p, q), f.path) /\ k.rule = f.rule /\ k.key = f.key
  BY <1>1, <1>7, MovedIs
<1>9. h = k
  BY <1>2, <1>6, <1>8, SameFinding
<1> QED  BY <1>3, <1>5, <1>7, <1>9

\* A report is a sequence of findings.
LEMMA FindingsAre ==
  ASSUME NEW fs \in Findings
  PROVE  Len(fs) \in Nat /\ DOMAIN fs = 1..Len(fs) /\ \A i \in 1..Len(fs) : fs[i] \in Finding
BY DEF Findings

\* A report seen from further out is the report with each finding moved.
LEMMA BelowIs ==
  ASSUME NEW p \in Paths, NEW fs \in Findings
  PROVE  /\ Below(p, fs) \in Findings /\ Len(Below(p, fs)) = Len(fs)
         /\ \A i \in 1..Len(fs) : Below(p, fs)[i] = Moved(p, fs[i])
<1>1. Len(fs) \in Nat /\ DOMAIN fs = 1..Len(fs) /\ \A i \in 1..Len(fs) : fs[i] \in Finding
  BY FindingsAre
<1>2. Below(p, fs) = [i \in 1..Len(fs) |-> Moved(p, fs[i])]
  BY <1>1 DEF Below, Moved
<1>3. PICK b : b = Below(p, fs)
  OBVIOUS
<1>4. \A i \in 1..Len(fs) : b[i] = Moved(p, fs[i]) /\ b[i] \in Finding
  BY <1>1, <1>2, <1>3, MovedIs
<1>5. b \in [1..Len(fs) -> Finding]
  BY <1>2, <1>3, <1>4
<1>6. b \in Findings /\ Len(b) = Len(fs)
  BY <1>1, <1>5, IsASeq DEF Findings
<1> QED  BY <1>3, <1>4, <1>6

\* A report is determined by its length and its findings.
LEMMA SameFindings ==
  ASSUME NEW a \in Findings, NEW b \in Findings, Len(a) = Len(b),
         \A i \in 1..Len(a) : a[i] = b[i]
  PROVE  a = b
BY SameSeq DEF Findings

\* Two reports, one after the other, are a report.
LEMMA FindingsCat ==
  ASSUME NEW a \in Findings, NEW b \in Findings
  PROVE  /\ Cat(a, b) \in Findings /\ Len(Cat(a, b)) = Len(a) + Len(b)
         /\ Cat(a, <<>>) = a /\ Cat(<<>>, a) = a
         /\ \A i \in 1..Len(a) : Cat(a, b)[i] = a[i]
         /\ \A i \in (Len(a) + 1)..(Len(a) + Len(b)) : Cat(a, b)[i] = b[i - Len(a)]
BY CatIs, CatMembers DEF Findings

\* Three reports are joined alike in either order.
LEMMA FindingsAssociative ==
  ASSUME NEW a \in Findings, NEW b \in Findings, NEW c \in Findings
  PROVE  Cat(Cat(a, b), c) = Cat(a, Cat(b, c))
BY CatAssociative DEF Findings

\* Reports may be moved and joined in either order.
LEMMA BelowCat ==
  ASSUME NEW p \in Paths, NEW a \in Findings, NEW b \in Findings
  PROVE  Below(p, Cat(a, b)) = Cat(Below(p, a), Below(p, b))
<1>1. PICK c : c = Cat(a, b)
  OBVIOUS
<1>2. PICK x : x = Below(p, a)
  OBVIOUS
<1>3. PICK y : y = Below(p, b)
  OBVIOUS
<1>4. PICK l : l = Below(p, c)
  OBVIOUS
<1>5. PICK r : r = Cat(x, y)
  OBVIOUS
<1>6. PICK m, n : m = Len(a) /\ n = Len(b)
  OBVIOUS
<1>7. /\ c \in Findings /\ Len(c) = m + n /\ m \in Nat /\ n \in Nat
      /\ \A i \in 1..m : c[i] = a[i]
      /\ \A i \in (m + 1)..(m + n) : c[i] = b[i - m]
  BY <1>1, <1>6, FindingsCat, FindingsAre
<1>8. /\ x \in Findings /\ Len(x) = m /\ \A i \in 1..m : x[i] = Moved(p, a[i])
      /\ y \in Findings /\ Len(y) = n /\ \A i \in 1..n : y[i] = Moved(p, b[i])
  BY <1>2, <1>3, <1>6, BelowIs
<1>9. l \in Findings /\ Len(l) = m + n /\ \A i \in 1..(m + n) : l[i] = Moved(p, c[i])
  BY <1>4, <1>7, BelowIs
<1>10. /\ r \in Findings /\ Len(r) = m + n
       /\ \A i \in 1..m : r[i] = x[i]
       /\ \A i \in (m + 1)..(m + n) : r[i] = y[i - m]
  BY <1>5, <1>8, FindingsCat
<1>11. ASSUME NEW i \in 1..(m + n) PROVE l[i] = r[i]
  <2>1. CASE i \in 1..m
    BY <1>7, <1>8, <1>9, <1>10, <2>1
  <2>2. CASE i \in (m + 1)..(m + n)
    <3>1. i - m \in 1..n
      BY <1>7, <2>2
    <3> QED  BY <1>7, <1>8, <1>9, <1>10, <2>2, <3>1
  <2> QED  BY <1>7, <2>1, <2>2
<1>12. l = r
  BY <1>9, <1>10, <1>11, SameFindings
<1> QED  BY <1>1, <1>2, <1>3, <1>4, <1>5, <1>12

\* To move a report out twice is to move it once, by both paths.
LEMMA BelowBelow ==
  ASSUME NEW p \in Paths, NEW q \in Paths, NEW a \in Findings
  PROVE  Below(p, Below(q, a)) = Below(Cat(p, q), a)
<1>1. PICK x : x = Below(q, a)
  OBVIOUS
<1>2. PICK l : l = Below(p, x)
  OBVIOUS
<1>3. PICK r : r = Below(Cat(p, q), a)
  OBVIOUS
<1>4. x \in Findings /\ Len(x) = Len(a) /\ \A i \in 1..Len(a) : x[i] = Moved(q, a[i])
  BY <1>1, BelowIs
<1>5. l \in Findings /\ Len(l) = Len(a) /\ \A i \in 1..Len(a) : l[i] = Moved(p, x[i])
  BY <1>2, <1>4, BelowIs
<1>6. Cat(p, q) \in Paths
  BY CatIs DEF Paths
<1>7. r \in Findings /\ Len(r) = Len(a) /\ \A i \in 1..Len(a) : r[i] = Moved(Cat(p, q), a[i])
  BY <1>3, <1>6, BelowIs
<1>8. \A i \in 1..Len(a) : l[i] = r[i]
  BY <1>4, <1>5, <1>7, MovedTwice, FindingsAre
<1> QED  BY <1>1, <1>2, <1>3, <1>5, <1>7, <1>8, SameFindings

\* The empty sequence is a report of nothing and the path of the root.
LEMMA NothingIs == <<>> \in Findings /\ <<>> \in Paths /\ Len(<<>>) = 0
BY DEF Findings, Paths

\* A report of nothing stays one when it is moved.
LEMMA BelowNothing ==
  ASSUME NEW p \in Paths
  PROVE  Below(p, <<>>) = <<>>
<1>1. PICK e : e = <<>>
  OBVIOUS
<1>2. PICK b : b = Below(p, e)
  OBVIOUS
<1>3. b \in Findings /\ Len(b) = 0
  BY <1>1, <1>2, BelowIs, NothingIs
<1> QED  BY <1>1, <1>2, <1>3, EmptySeq DEF Findings

\* A report is as seen from the root.
LEMMA BelowTop ==
  ASSUME NEW a \in Findings
  PROVE  Below(<<>>, a) = a
<1>1. PICK e : e = <<>>
  OBVIOUS
<1>2. e \in Paths
  BY <1>1, NothingIs
<1>3. PICK b : b = Below(e, a)
  OBVIOUS
<1>4. b \in Findings /\ Len(b) = Len(a) /\ \A i \in 1..Len(a) : b[i] = Moved(e, a[i])
  BY <1>2, <1>3, BelowIs
<1>5. ASSUME NEW i \in 1..Len(a) PROVE b[i] = a[i]
  <2>1. a[i] \in Finding /\ a[i].path \in Paths
    BY FindingsAre, FindingParts
  <2>2. Cat(e, a[i].path) = a[i].path
    BY <1>1, <2>1, CatIs DEF Paths
  <2>3. PICK g : g = Moved(e, a[i])
    OBVIOUS
  <2>4. g \in Finding /\ g.path = a[i].path /\ g.rule = a[i].rule /\ g.key = a[i].key
    BY <1>2, <2>1, <2>2, <2>3, MovedIs
  <2> QED  BY <1>4, <2>1, <2>3, <2>4, SameFinding
<1> QED  BY <1>1, <1>3, <1>4, <1>5, SameFindings
-----------------------------------------------------------------------------
(* What is to be reported, as findings.                                    *)

\* What is reported of each message, and the subscripts of a path.
Reports == [Nodes -> Findings]
Subs == Keys \cup Nat \cup {NoSub}

\* What is left of a sequence of reports from each on.
Left(s) == CHOOSE W : LeftOf(W, s, Finding) /\ W[1] = FlattenSeq(s)

\* What is left from a report on is that report, then what is left from the next one on.
LEMMA LeftIs ==
  ASSUME NEW s \in Seq(Findings)
  PROVE  /\ Len(s) \in Nat /\ Left(s)[1] = FlattenSeq(s) /\ Left(s)[Len(s) + 1] = <<>>
         /\ \A i \in 1..(Len(s) + 1) : Left(s)[i] \in Findings
         /\ \A i \in 1..Len(s) : Left(s)[i] = Cat(s[i], Left(s)[i + 1])
<1>1. s \in Seq(Seq(Finding))
  BY DEF Findings
<1>2. LeftOf(Left(s), s, Finding) /\ Left(s)[1] = FlattenSeq(s)
  BY <1>1, LeftExists DEF Left
<1>3. PICK W : W = Left(s)
  OBVIOUS
<1>4. /\ W \in [1..(Len(s) + 1) -> Findings] /\ W[1] = FlattenSeq(s) /\ W[Len(s) + 1] = <<>>
      /\ \A i \in 1..Len(s) : W[i] = Cat(s[i], W[i + 1])
  BY <1>2, <1>3 DEF LeftOf, Findings
<1>5. Len(s) \in Nat
  OBVIOUS
<1> QED  BY <1>3, <1>4, <1>5

\* A sequence of reports makes a report.
LEMMA FlattenFindings ==
  ASSUME NEW s \in Seq(Findings)
  PROVE  FlattenSeq(s) \in Findings
<1>1. 1 \in 1..(Len(s) + 1)
  BY LeftIs
<1> QED  BY <1>1, LeftIs

\* A finding alone is a report.
LEMMA OneFinding ==
  ASSUME NEW f \in Finding
  PROVE  <<f>> \in Findings /\ Len(<<f>>) = 1 /\ <<f>>[1] = f
BY DEF Findings

\* The violation of a rule, at the place itself, is a finding.
LEMMA ViolationIs ==
  ASSUME NEW rule \in Names, NEW key \in BOOLEAN
  PROVE  Violation(rule, key) \in Finding /\ <<Violation(rule, key)>> \in Findings
<1>1. Violation(rule, key) \in Finding
  BY NothingIs DEF Violation, Finding
<1> QED  BY <1>1, OneFinding

\* The violations of the walk's own rules are findings.
LEMMA ViolationsAre ==
  /\ <<Violation("broken", FALSE)>> \in Findings
  /\ <<Violation("required", FALSE)>> \in Findings
  /\ <<Violation("message.oneof", FALSE)>> \in Findings
<1>1. FALSE \in BOOLEAN
  OBVIOUS
<1>2. \A rule \in Names : <<Violation(rule, FALSE)>> \in Findings
  BY <1>1, ViolationIs
<1>3. "broken" \in Names /\ "required" \in Names /\ "message.oneof" \in Names
  BY DEF Names
<1> QED  BY <1>2, <1>3, Zenon

\* A report made under a condition is a report.
LEMMA IfFindings ==
  ASSUME NEW test, NEW fs \in Findings
  PROVE  If(test, fs) \in Findings
BY NothingIs DEF If

\* A rule reports its violation or nothing.
LEMMA OfRuleIs ==
  ASSUME NEW r \in STRING, NEW x, NEW key \in BOOLEAN
  PROVE  OfRule(r, x, key) \in Findings
BY ViolationIs, IfFindings DEF OfRule, Names

\* What is reported under a field is a report.
LEMMA UnderIs ==
  ASSUME NEW f \in STRING, NEW sub \in Subs, NEW fs \in Findings
  PROVE  Under(f, sub, fs) \in Findings
<1>1. PICK e : e = Element(f, sub)
  OBVIOUS
<1>2. e \in Elements
  BY <1>1 DEF Element, Elements, Subs
<1>3. <<e>> \in Paths
  BY <1>2 DEF Paths
<1> QED  BY <1>1, <1>3, BelowIs DEF Under

\* A sequence of reports, made one for each member of another.
LEMMA MappedParts ==
  ASSUME NEW S, NEW s \in Seq(S), NEW t, t = [i \in DOMAIN s |-> t[i]],
         \A i \in DOMAIN s : t[i] \in Findings
  PROVE  t \in Seq(Findings) /\ Len(t) = Len(s)
<1>1. Len(s) \in Nat /\ DOMAIN s = 1..Len(s)
  OBVIOUS
<1>2. t \in [1..Len(s) -> Findings]
  BY <1>1
<1> QED  BY <1>1, <1>2, IsASeq

\* The rules of a value are three lists of names.
LEMMA ValidatorIs ==
  ASSUME NEW v \in ValueValidator
  PROVE  /\ v.custom \in Seq(STRING) /\ v.checks \in Seq(STRING) /\ v.predefined \in Seq(STRING)
         /\ v.custom \o v.checks \o v.predefined \in Seq(STRING)
<1>1. v.custom \in Seq(STRING) /\ v.checks \in Seq(STRING) /\ v.predefined \in Seq(STRING)
  BY DEF ValueValidator
<1> QED  BY <1>1, ConcatProperties

\* A value's rules and its message make a report.
LEMMA OfValueIs ==
  ASSUME NEW B \in Reports, NEW v \in ValueValidator, NEW x, NEW key \in BOOLEAN
  PROVE  /\ ValueParts(B, v, x, key) \in Seq(Findings)
         /\ OfValue(B, v, x, key) \in Findings
<1> DEFINE rules == v.custom \o v.checks \o v.predefined
           a == [i \in DOMAIN rules |-> OfRule(rules[i], x, key)]
           b == If(x \in Nodes, <<B[x]>>)
<1>1. rules \in Seq(STRING)
  BY ValidatorIs
<1>2. a \in Seq(Findings)
  <2>1. \A i \in DOMAIN rules : rules[i] \in STRING
    <3> HIDE DEF rules
    <3> QED  BY <1>1
  <2>2. a = [i \in DOMAIN rules |-> a[i]] /\ \A i \in DOMAIN rules : a[i] \in Findings
    <3> HIDE DEF rules
    <3> QED  BY <2>1, OfRuleIs
  <2> HIDE DEF a, rules
  <2> QED  BY <1>1, <2>2, MappedParts
<1>3. b \in Seq(Findings)
  <2>1. CASE x \in Nodes
    BY <2>1 DEF If, Reports
  <2>2. CASE x \notin Nodes
    BY <2>2 DEF If
  <2> QED  BY <2>1, <2>2
<1>4. ValueParts(B, v, x, key) = a \o b
  BY DEF ValueParts
<1> HIDE DEF a, b
<1>5. ValueParts(B, v, x, key) \in Seq(Findings)
  BY <1>2, <1>3, <1>4, ConcatProperties
<1> QED  BY <1>5, FlattenFindings DEF OfValue

\* The rules of items, keys or values make a report, and so does their absence.
LEMMA OfPartIs ==
  ASSUME NEW B \in Reports, NEW item \in ItemValidator \cup {NoItem}, NEW x, NEW key \in BOOLEAN
  PROVE  OfPart(B, item, x, key) \in Findings
<1>1. CASE item = NoItem
  BY <1>1, NothingIs DEF OfPart, If
<1>2. CASE item # NoItem
  <2>1. item.value \in ValueValidator
    BY <1>2 DEF ItemValidator
  <2> QED  BY <2>1, OfValueIs, IfFindings DEF OfPart
<1> QED  BY <1>1, <1>2

\* The parts of a field's rules.
LEMMA FieldIs ==
  ASSUME NEW v \in FieldValidator
  PROVE  /\ v.field \in STRING /\ v.value \in ValueValidator
         /\ v.items \in ItemValidator \cup {NoItem} /\ v.keys \in ItemValidator \cup {NoItem}
         /\ v.values \in ItemValidator \cup {NoItem}
BY DEF FieldValidator

\* The reports of a list's items, and of a map's entries.
ItemParts(B, v, x) == [i \in DOMAIN x |-> OfItem(B, v, x, i)]
EntryParts(B, v, x) == [i \in DOMAIN x |-> OfEntry(B, v, x[i])]

\* The items of a list make a report each.
LEMMA ItemPartsAre ==
  ASSUME NEW B \in Reports, NEW v \in FieldValidator, NEW x, IsSeq(x)
  PROVE  ItemParts(B, v, x) \in Seq(Findings) /\ Len(ItemParts(B, v, x)) = Len(x)
<1> DEFINE t == ItemParts(B, v, x)
<1>1. x \in Seq({x[i] : i \in DOMAIN x})
  BY DEF IsSeq
<1>2. Len(x) \in Nat /\ DOMAIN x = 1..Len(x)
  BY <1>1
<1>3. ASSUME NEW i \in DOMAIN x PROVE OfItem(B, v, x, i) \in Findings
  <2>1. i - 1 \in Subs
    BY <1>2 DEF Subs
  <2>2. FALSE \in BOOLEAN
    OBVIOUS
  <2>3. OfPart(B, v.items, x[i], FALSE) \in Findings
    BY <2>2, OfPartIs, FieldIs
  <2> QED  BY <2>1, <2>3, UnderIs, FieldIs DEF OfItem
<1>4. t = [i \in DOMAIN x |-> t[i]] /\ \A i \in DOMAIN x : t[i] \in Findings
  BY <1>3 DEF ItemParts
<1> HIDE DEF t
<1>5. t \in Seq(Findings) /\ Len(t) = Len(x)
  BY <1>1, <1>4, MappedParts
<1> QED  BY <1>5 DEF t

\* An entry reports its key, then its value, under the key's subscript.
LEMMA OfEntryIs ==
  ASSUME NEW B \in Reports, NEW v \in FieldValidator, NEW e, e.key \in Keys
  PROVE  /\ OfEntry(B, v, e) \in Findings
         /\ OfEntry(B, v, e) = Under(v.field, e.key, Cat(OfPart(B, v.keys, e.key, TRUE),
                                                         OfPart(B, v.values, e.value, FALSE)))
<1> DEFINE a == OfPart(B, v.keys, e.key, TRUE)
           b == OfPart(B, v.values, e.value, FALSE)
<1>1. OfEntry(B, v, e) = Under(v.field, e.key, Cat(a, b))
  BY DEF OfEntry, Cat
<1>2. a \in Findings /\ b \in Findings
  <2>1. TRUE \in BOOLEAN /\ FALSE \in BOOLEAN
    OBVIOUS
  <2> QED  BY <2>1, OfPartIs, FieldIs
<1> HIDE DEF a, b
<1>3. Cat(a, b) \in Findings
  BY <1>2, FindingsCat
<1>4. e.key \in Subs /\ v.field \in STRING
  BY FieldIs DEF Subs
<1>5. Under(v.field, e.key, Cat(a, b)) \in Findings
  BY <1>3, <1>4, UnderIs
<1> QED  BY <1>1, <1>5 DEF a, b

\* The entries of a map make a report each.
LEMMA EntryPartsAre ==
  ASSUME NEW B \in Reports, NEW v \in FieldValidator, NEW x, IsEntries(x)
  PROVE  EntryParts(B, v, x) \in Seq(Findings) /\ Len(EntryParts(B, v, x)) = Len(x)
<1> DEFINE t == EntryParts(B, v, x)
<1>1. x \in Seq({x[i] : i \in DOMAIN x}) /\ \A i \in DOMAIN x : x[i].key \in Keys
  BY DEF IsSeq, IsEntries
<1>2. t = [i \in DOMAIN x |-> t[i]] /\ \A i \in DOMAIN x : t[i] \in Findings
  BY <1>1, OfEntryIs DEF EntryParts
<1> HIDE DEF t
<1>3. t \in Seq(Findings) /\ Len(t) = Len(x)
  BY <1>1, <1>2, MappedParts
<1> QED  BY <1>3 DEF t

\* What the value of a field is, in a message.
Fitting(v, x) ==
  /\ v \in FieldValidator
  /\ v.kind = "list" => x = NoValue \/ IsSeq(x)
  /\ v.kind = "map" => x = NoValue \/ IsEntries(x)

\* What a field holds makes a report.
LEMMA OfContentsIs ==
  ASSUME NEW B \in Reports, NEW v, NEW x, Fitting(v, x), x # NoValue
  PROVE  OfContents(B, v, x) \in Findings
<1>1. CASE v.kind = "list" /\ v.items # NoItem
  <2>1. OfContents(B, v, x) = FlattenSeq(ItemParts(B, v, x))
    BY <1>1 DEF OfContents, ItemParts
  <2>2. ItemParts(B, v, x) \in Seq(Findings)
    BY <1>1, ItemPartsAre DEF Fitting
  <2> QED  BY <2>1, <2>2, FlattenFindings
<1>2. CASE v.kind = "map"
  <2>1. OfContents(B, v, x) = FlattenSeq(EntryParts(B, v, x))
    BY <1>2 DEF OfContents, EntryParts
  <2>2. EntryParts(B, v, x) \in Seq(Findings)
    BY <1>2, EntryPartsAre DEF Fitting
  <2> QED  BY <2>1, <2>2, FlattenFindings
<1>3. CASE ~(v.kind = "list" /\ v.items # NoItem) /\ v.kind # "map"
  BY <1>3, NothingIs DEF OfContents
<1> QED  BY <1>1, <1>2, <1>3

\* A field makes a report.
LEMMA OfFieldIs ==
  ASSUME NEW B \in Reports, NEW n, NEW v, Fitting(v, content[n][v.field])
  PROVE  OfField(B, n, v) \in Findings
<1> DEFINE x == content[n][v.field]
           set == IsSet(n, v.field)
           a == Under(v.field, NoSub, OfValue(B, v.value, x, FALSE))
           b == If(x # NoValue, OfContents(B, v, x))
<1>1. v.field \in STRING /\ v.value \in ValueValidator /\ NoSub \in Subs /\ FALSE \in BOOLEAN
  BY FieldIs DEF Fitting, Subs
<1>2. a \in Findings
  BY <1>1, OfValueIs, UnderIs
<1>3. b \in Findings
  BY NothingIs, OfContentsIs DEF If
<1>4. <<Violation("broken", FALSE)>> \in Findings
  BY ViolationsAre
<1>5. Under(v.field, NoSub, <<Violation("required", FALSE)>>) \in Findings
  <2>1. PICK w : w = <<Violation("required", FALSE)>>
    OBVIOUS
  <2>2. w \in Findings
    BY <2>1, ViolationsAre
  <2> QED  BY <1>1, <2>1, <2>2, UnderIs
<1>6. Cat(a, b) \in Findings
  <2> HIDE DEF a, b
  <2> QED  BY <1>2, <1>3, FindingsCat
<1>7. a \o b \in Findings
  BY <1>6 DEF Cat
<1>8. \/ OfField(B, n, v) = <<Violation("broken", FALSE)>>
      \/ OfField(B, n, v) = Under(v.field, NoSub, <<Violation("required", FALSE)>>)
      \/ OfField(B, n, v) = <<>>
      \/ OfField(B, n, v) = a \o b
  BY DEF OfField
<1> QED  BY <1>4, <1>5, <1>7, <1>8, NothingIs

\* A message oneof makes a report.
LEMMA OfOneofIs ==
  ASSUME NEW n, NEW o
  PROVE  OfOneof(n, o) \in Findings
BY ViolationsAre, NothingIs DEF OfOneof, If

\* A required oneof makes a report.
LEMMA OfRequiredIs ==
  ASSUME NEW n, NEW o, o.name \in STRING
  PROVE  OfRequired(n, o) \in Findings
<1>1. PICK w : w = <<Violation("required", FALSE)>>
  OBVIOUS
<1>2. w \in Findings /\ NoSub \in Subs
  BY <1>1, ViolationsAre DEF Subs
<1>3. Under(o.name, NoSub, w) \in Findings
  BY <1>2, UnderIs
<1> QED  BY <1>1, <1>3, NothingIs DEF OfRequired, If

\* A field of a message holds what its rules are for.
LEMMA FieldsFit ==
  ASSUME content \in Messages, NEW n \in Nodes, NEW i \in DOMAIN Compiled[TypeOf[n]].fields
  PROVE  Fitting(Compiled[TypeOf[n]].fields[i], content[n][Compiled[TypeOf[n]].fields[i].field])
BY RulesOf, MessagesAssumption, ListsAssumption DEF Fitting

\* A message makes a report: its own rules, its oneofs, its fields.
LEMMA OfMessageIs ==
  ASSUME content \in Messages, NEW B \in Reports, NEW n \in Nodes
  PROVE  /\ MessageParts(B, n) \in Seq(Findings)
         /\ OfMessage(B, n) \in Findings
<1> DEFINE r == Compiled[TypeOf[n]]
           cel == [i \in DOMAIN r.cel |-> OfRule(r.cel[i], n, FALSE)]
           oneofs == [i \in DOMAIN r.oneofs |-> OfOneof(n, r.oneofs[i])]
           required == [i \in DOMAIN r.required |-> OfRequired(n, r.required[i])]
           fields == [i \in DOMAIN r.fields |-> OfField(B, n, r.fields[i])]
<1>1. /\ r.cel \in Seq(STRING) /\ r.fields \in Seq(FieldValidator)
      /\ r.oneofs \in Seq([fields : Seq(STRING), required : BOOLEAN])
      /\ r.required \in Seq([name : STRING, members : SUBSET STRING])
  BY RulesOf DEF MessageValidator
<1>2. cel \in Seq(Findings)
  <2>1. FALSE \in BOOLEAN
    OBVIOUS
  <2>2. cel = [i \in DOMAIN r.cel |-> cel[i]] /\ \A i \in DOMAIN r.cel : cel[i] \in Findings
    <3>1. \A i \in DOMAIN r.cel : r.cel[i] \in STRING
      <4> HIDE DEF r
      <4> QED  BY <1>1, MemberIs
    <3> HIDE DEF r
    <3> QED  BY <2>1, <3>1, OfRuleIs
  <2> HIDE DEF cel, r
  <2> QED  BY <1>1, <2>2, MappedParts
<1>3. oneofs \in Seq(Findings)
  <2>1. oneofs = [i \in DOMAIN r.oneofs |-> oneofs[i]]
        /\ \A i \in DOMAIN r.oneofs : oneofs[i] \in Findings
    BY OfOneofIs
  <2> HIDE DEF oneofs, r
  <2> QED  BY <1>1, <2>1, MappedParts
<1>4. required \in Seq(Findings)
  <2>1. \A i \in DOMAIN r.required : r.required[i].name \in STRING
    <3> HIDE DEF r
    <3>1. \A i \in DOMAIN r.required :
            r.required[i] \in [name : STRING, members : SUBSET STRING]
      BY <1>1, MemberIs
    <3> QED  BY <3>1
  <2>2. required = [i \in DOMAIN r.required |-> required[i]]
        /\ \A i \in DOMAIN r.required : required[i] \in Findings
    BY <2>1, OfRequiredIs
  <2> HIDE DEF required, r
  <2> QED  BY <1>1, <2>2, MappedParts
<1>5. fields \in Seq(Findings)
  <2>1. \A i \in DOMAIN r.fields : OfField(B, n, r.fields[i]) \in Findings
    BY FieldsFit, OfFieldIs
  <2>2. fields = [i \in DOMAIN r.fields |-> fields[i]]
        /\ \A i \in DOMAIN r.fields : fields[i] \in Findings
    BY <2>1
  <2> HIDE DEF fields, r
  <2> QED  BY <1>1, <2>2, MappedParts
<1>6. MessageParts(B, n) = cel \o oneofs \o required \o fields
  BY DEF MessageParts
<1> HIDE DEF cel, oneofs, required, fields
<1>7. MessageParts(B, n) \in Seq(Findings)
  BY <1>2, <1>3, <1>4, <1>5, <1>6, ConcatProperties
<1> QED  BY <1>7, FlattenFindings DEF OfMessage
-----------------------------------------------------------------------------
(* The recursion ends: what a message's findings are depends on those of   *)
(* the messages inside it.                                                 *)

\* What a value reports is settled by what the message it may be reports.
LEMMA OfValueSame ==
  ASSUME NEW B, NEW C, NEW v, NEW x, NEW key, x \in Nodes => B[x] = C[x]
  PROVE  OfValue(B, v, x, key) = OfValue(C, v, x, key)
<1>1. If(x \in Nodes, <<B[x]>>) = If(x \in Nodes, <<C[x]>>)
  <2>1. CASE x \in Nodes
    BY <2>1
  <2>2. CASE x \notin Nodes
    BY <2>2 DEF If
  <2> QED  BY <2>1, <2>2
<1>2. ValueParts(B, v, x, key) = ValueParts(C, v, x, key)
  BY <1>1 DEF ValueParts
<1> QED  BY <1>2 DEF OfValue

\* What an item, key or value reports is settled by what the message it may be reports.
LEMMA OfPartSame ==
  ASSUME NEW B, NEW C, NEW item, NEW x, NEW key, x \in Nodes => B[x] = C[x]
  PROVE  OfPart(B, item, x, key) = OfPart(C, item, x, key)
<1>1. OfValue(B, item.value, x, key) = OfValue(C, item.value, x, key)
  BY OfValueSame
<1> QED  BY <1>1 DEF OfPart

\* What a field's contents report is settled by what the messages in it report.
LEMMA OfContentsSame ==
  ASSUME NEW B, NEW C, NEW v, NEW x, x # NoValue, \A y \in Held(v, x) \cap Nodes : B[y] = C[y]
  PROVE  OfContents(B, v, x) = OfContents(C, v, x)
<1>1. CASE v.kind = "list"
  <2>1. ASSUME NEW i \in DOMAIN x
        PROVE  OfItem(B, v, x, i) = OfItem(C, v, x, i)
    <3>1. x[i] \in Nodes => B[x[i]] = C[x[i]]
      BY <1>1 DEF Held
    <3>2. ASSUME NEW key PROVE OfPart(B, v.items, x[i], key) = OfPart(C, v.items, x[i], key)
      BY <3>1, OfPartSame
    <3> QED  BY <3>2 DEF OfItem
  <2>2. [i \in DOMAIN x |-> OfItem(B, v, x, i)] = [i \in DOMAIN x |-> OfItem(C, v, x, i)]
    BY <2>1
  <2> QED  BY <1>1, <2>2 DEF OfContents
<1>2. CASE v.kind = "map"
  <2>1. ASSUME NEW i \in DOMAIN x
        PROVE  OfEntry(B, v, x[i]) = OfEntry(C, v, x[i])
    <3>1. /\ x[i].key \in Nodes => B[x[i].key] = C[x[i].key]
          /\ x[i].value \in Nodes => B[x[i].value] = C[x[i].value]
      BY <1>2 DEF Held
    <3>2. ASSUME NEW key PROVE OfPart(B, v.keys, x[i].key, key) = OfPart(C, v.keys, x[i].key, key)
      BY <3>1, OfPartSame
    <3>3. ASSUME NEW key
          PROVE  OfPart(B, v.values, x[i].value, key) = OfPart(C, v.values, x[i].value, key)
      BY <3>1, OfPartSame
    <3> QED  BY <3>2, <3>3 DEF OfEntry
  <2>2. [i \in DOMAIN x |-> OfEntry(B, v, x[i])] = [i \in DOMAIN x |-> OfEntry(C, v, x[i])]
    BY <2>1
  <2> QED  BY <1>2, <2>2 DEF OfContents
<1>3. CASE v.kind # "list" /\ v.kind # "map"
  BY <1>3 DEF OfContents
<1> QED  BY <1>1, <1>2, <1>3

\* What a field reports is settled by what the messages in it report.
LEMMA OfFieldSame ==
  ASSUME NEW B, NEW C, NEW n, NEW v, NEW x, x = content[n][v.field],
         \A y \in Held(v, x) \cap Nodes : B[y] = C[y]
  PROVE  OfField(B, n, v) = OfField(C, n, v)
<1>1. x \in Held(v, x)
  BY DEF Held
<1>2. ASSUME NEW key PROVE OfValue(B, v.value, x, key) = OfValue(C, v.value, x, key)
  BY <1>1, OfValueSame
<1>3. If(x # NoValue, OfContents(B, v, x)) = If(x # NoValue, OfContents(C, v, x))
  <2>1. CASE x = NoValue
    BY <2>1 DEF If
  <2>2. CASE x # NoValue
    BY <2>2, OfContentsSame
  <2> QED  BY <2>1, <2>2
<1> QED  BY <1>2, <1>3 DEF OfField

\* What a message reports is settled by what the messages inside it report.
LEMMA OfMessageSame ==
  ASSUME NEW B, NEW C, NEW n,
         \A i \in DOMAIN Compiled[TypeOf[n]].fields :
           \A y \in Held(Compiled[TypeOf[n]].fields[i],
                         content[n][Compiled[TypeOf[n]].fields[i].field]) \cap Nodes : B[y] = C[y]
  PROVE  OfMessage(B, n) = OfMessage(C, n)
<1> DEFINE r == Compiled[TypeOf[n]]
<1>1. \A i \in DOMAIN r.fields : OfField(B, n, r.fields[i]) = OfField(C, n, r.fields[i])
  BY OfFieldSame
<1>2. [i \in DOMAIN r.fields |-> OfField(B, n, r.fields[i])]
      = [i \in DOMAIN r.fields |-> OfField(C, n, r.fields[i])]
  BY <1>1
<1>3. MessageParts(B, n) = MessageParts(C, n)
  BY <1>2 DEF MessageParts
<1> QED  BY <1>3 DEF OfMessage

\* A message is deeper than each that it holds: the deepest come first.
InsideBy(depth) ==
  /\ depth \in [Nodes -> Nat]
  /\ \A n \in Nodes : \A B, C :
       (\A y \in Nodes : depth[y] < depth[n] => B[y] = C[y]) => OfMessage(B, n) = OfMessage(C, n)

\* No message holds itself: each has a depth, and there is a greatest.
LEMMA DepthExists ==
  ASSUME content \in Messages
  PROVE  \E depth : \E last \in Nat : InsideBy(depth) /\ \A n \in Nodes : depth[n] <= last
<1>1. PICK last \in Nat : last = Cardinality(Nodes)
  BY FS_CardinalityType, InsideAssumption
<1>2. PICK depth \in [Nodes -> 0..last] :
        \A n \in Nodes : \A i \in DOMAIN Compiled[TypeOf[n]].fields :
          \A x \in Held(Compiled[TypeOf[n]].fields[i],
                        content[n][Compiled[TypeOf[n]].fields[i].field]) \cap Nodes :
            depth[x] < depth[n]
  BY <1>1, InsideAssumption
<1>3. depth \in [Nodes -> Nat] /\ \A n \in Nodes : depth[n] <= last
  BY <1>1, <1>2
<1>4. ASSUME NEW n \in Nodes, NEW B, NEW C,
             \A y \in Nodes : depth[y] < depth[n] => B[y] = C[y]
      PROVE  OfMessage(B, n) = OfMessage(C, n)
  BY <1>2, <1>4, OfMessageSame
<1>5. \A n \in Nodes : \A B, C :
        (\A y \in Nodes : depth[y] < depth[n] => B[y] = C[y]) => OfMessage(B, n) = OfMessage(C, n)
  BY <1>4
<1> QED  BY <1>3, <1>5 DEF InsideBy

\* Right(B, depth, k): right as far as depth k.
Right(B, depth, k) ==
  B \in Reports /\ \A n \in Nodes : depth[n] < k => B[n] = OfMessage(B, n)

\* What is right of the messages up to a depth can be made right of the next.
LEMMA RightFurther ==
  ASSUME content \in Messages, NEW depth, InsideBy(depth), NEW k \in Nat, NEW B, Right(B, depth, k)
  PROVE  \E C : Right(C, depth, k + 1)
<1>1. PICK C : C = [n \in Nodes |-> IF depth[n] < k THEN B[n] ELSE OfMessage(B, n)]
  OBVIOUS
<1>2. C \in Reports
  <2>1. \A n \in Nodes : B[n] \in Findings /\ OfMessage(B, n) \in Findings
    BY OfMessageIs DEF Right, Reports
  <2> QED  BY <1>1, <2>1 DEF Reports
<1>3. ASSUME NEW n \in Nodes, depth[n] < k + 1
      PROVE  C[n] = OfMessage(C, n)
  <2>1. depth[n] \in Nat /\ depth[n] <= k
    BY <1>3 DEF InsideBy
  <2>2. ASSUME NEW y \in Nodes, depth[y] < depth[n]
        PROVE  B[y] = C[y]
    <3>1. depth[y] \in Nat
      BY DEF InsideBy
    <3>2. depth[y] < k
      BY <2>1, <2>2, <3>1
    <3> QED  BY <1>1, <3>2
  <2>3. OfMessage(B, n) = OfMessage(C, n)
    BY <2>2 DEF InsideBy
  <2>4. C[n] = OfMessage(B, n)
    BY <1>1, <2>1 DEF Right
  <2> QED  BY <2>3, <2>4
<1> QED  BY <1>2, <1>3 DEF Right

\* There is a table that is right of all messages up to a depth.
LEMMA RightExists ==
  ASSUME content \in Messages, NEW depth, InsideBy(depth), NEW k \in Nat
  PROVE  \E B : Right(B, depth, k)
<1> DEFINE Has(j) == \E B : Right(B, depth, j)
           Bad == {j \in Nat : ~Has(j)}
<1>1. Has(0)
  <2>1. PICK B : B = [n \in Nodes |-> <<>>]
    OBVIOUS
  <2>2. B \in Reports
    BY <2>1, NothingIs DEF Reports
  <2>3. \A n \in Nodes : ~(depth[n] < 0)
    BY DEF InsideBy
  <2> QED  BY <2>2, <2>3 DEF Right
<1>2. \A j \in Nat : Has(j) => Has(j + 1)
  BY RightFurther
<1> HIDE DEF Has
<1>3. SUFFICES ASSUME k \in Bad PROVE FALSE
  BY DEF Has
<1>4. PICK j \in Bad : \A i \in Bad : j <= i
  <2>1. Bad \in SUBSET Nat /\ Bad # {}
    BY <1>3
  <2> HIDE DEF Bad
  <2> QED  BY <2>1, LeastNatural
<1>5. j \in Nat /\ ~Has(j) /\ j # 0
  BY <1>1
<1>6. j - 1 \in Nat /\ j - 1 \notin Bad
  <2>1. j - 1 \in Nat /\ ~(j <= j - 1)
    BY <1>5
  <2> HIDE DEF Bad
  <2> QED  BY <1>4, <2>1
<1>7. Has(j - 1)
  BY <1>6
<1>8. Has((j - 1) + 1)
  BY <1>2, <1>6, <1>7
<1>9. (j - 1) + 1 = j
  BY <1>5
<1> QED  BY <1>5, <1>8, <1>9

\* What each message reports.
Found == LET found[n \in Nodes] == OfMessage(found, n) IN found

\* What a message's findings are: what its parts say of the messages inside.
LEMMA FoundIs ==
  ASSUME content \in Messages
  PROVE  /\ Found \in Reports /\ \A n \in Nodes : Found[n] = OfMessage(Found, n)
         /\ Report = Found[Root]
<1>0. PICK depth : \E last \in Nat : InsideBy(depth) /\ \A n \in Nodes : depth[n] <= last
  BY DepthExists
<1>1. PICK last \in Nat : InsideBy(depth) /\ \A n \in Nodes : depth[n] <= last
  BY <1>0
<1>2. PICK B : Right(B, depth, last + 1)
  BY <1>1, RightExists
<1>3. B \in Reports /\ \A n \in Nodes : B[n] = OfMessage(B, n)
  <2>1. \A n \in Nodes : depth[n] \in Nat /\ depth[n] < last + 1
    BY <1>1 DEF InsideBy
  <2> QED  BY <1>2, <2>1 DEF Right
<1>4. B = [n \in Nodes |-> OfMessage(B, n)]
  BY <1>3 DEF Reports
<1>5. Found = [n \in Nodes |-> OfMessage(Found, n)]
  BY <1>4 DEF Found
<1>6. Report = Found[Root]
  BY DEF Report, Found
<1> HIDE DEF Found
<1> DEFINE Same(n) == Found[n] = B[n]
           Bad == {n \in Nodes : ~Same(n)}
           S == {depth[n] : n \in Bad}
<1>7. \A n \in Nodes : Same(n)
  <2>1. SUFFICES ASSUME NEW m \in Bad PROVE FALSE
    OBVIOUS
  <2>2. S \in SUBSET Nat /\ depth[m] \in S
    BY <1>1, <2>1 DEF InsideBy
  <2>3. PICK k \in S : \A j \in S : k <= j
    <3> HIDE DEF S, Bad
    <3> QED  BY <2>2, LeastNatural
  <2>4. PICK n \in Bad : k = depth[n]
    BY <2>3
  <2>5. ASSUME NEW y \in Nodes, depth[y] < depth[n]
        PROVE  Found[y] = B[y]
    <3>1. depth[y] \notin S
      <4>1. depth[y] \in Nat /\ depth[n] \in Nat
        BY <1>1, <2>4 DEF InsideBy
      <4> HIDE DEF S
      <4> QED  BY <2>3, <2>4, <2>5, <4>1
    <3> QED  BY <3>1
  <2>6. OfMessage(Found, n) = OfMessage(B, n)
    BY <1>1, <2>4, <2>5 DEF InsideBy
  <2> QED  BY <1>3, <1>5, <2>4, <2>6
<1>8. Found \in Reports
  BY <1>3, <1>5, <1>7 DEF Reports
<1> QED  BY <1>5, <1>6, <1>8
-----------------------------------------------------------------------------
(* Paths.                                                                  *)

\* The path of a field's message, the path of a field, the path with a subscript, and
\* a path one of whose elements got its subscript.
Up(p) == SubSeq(p, 1, Len(p) - 1)
Into(p, f) == Append(p, Element(f, NoSub))
Onto(p, f, sub) == Cat(p, <<Element(f, sub)>>)
Marked(p, d, sub) == [p EXCEPT ![d].sub = sub]

\* A path is a sequence of elements.
LEMMA PathsAre ==
  ASSUME NEW p \in Paths
  PROVE  /\ Len(p) \in Nat /\ DOMAIN p = 1..Len(p)
         /\ \A d \in 1..Len(p) : p[d] \in Elements
BY DEF Paths

\* An element is a field and its subscript.
LEMMA ElementIs ==
  ASSUME NEW f \in STRING, NEW sub \in Subs
  PROVE  /\ Element(f, sub) \in Elements
         /\ Element(f, sub).field = f /\ Element(f, sub).sub = sub
BY DEF Element, Elements, Subs

\* A path is determined by the fields and the subscripts along it.
LEMMA SamePath ==
  ASSUME NEW p \in Paths, NEW q \in Paths, Len(p) = Len(q),
         \A d \in 1..Len(p) : p[d].field = q[d].field /\ p[d].sub = q[d].sub
  PROVE  p = q
<1>1. \A e1, e2 \in Elements : e1.field = e2.field /\ e1.sub = e2.sub => e1 = e2
  BY DEF Elements
<1>2. \A d \in 1..Len(p) : p[d] = q[d]
  BY <1>1, PathsAre
<1> QED  BY <1>2, SameSeq DEF Paths

\* The path of a field's message is that of the field but for its end.
LEMMA UpIs ==
  ASSUME NEW p \in Paths, p # <<>>
  PROVE  /\ Up(p) \in Paths /\ Len(p) \in Nat \ {0} /\ Len(Up(p)) = Len(p) - 1
         /\ \A d \in 1..Len(Up(p)) : Up(p)[d] = p[d]
<1>1. Len(p) \in Nat /\ p \in Seq(Elements)
  BY DEF Paths
<1>2. Len(p) # 0
  BY <1>1, EmptySeq
<1>3. PICK n \in Nat : Len(p) = n + 1
  <2>1. Len(p) - 1 \in Nat /\ Len(p) = (Len(p) - 1) + 1
    BY <1>1, <1>2
  <2> QED  BY <2>1
<1>4. PICK u : u = SubSeq(p, 1, n)
  OBVIOUS
<1>5. u \in Seq(Elements) /\ Len(u) = n /\ \A d \in 1..n : u[d] = p[d]
  BY <1>1, <1>3, <1>4
<1>6. Up(p) = u
  <2>1. Len(p) - 1 = n
    BY <1>3
  <2> QED  BY <1>4, <2>1 DEF Up
<1> QED  BY <1>1, <1>2, <1>3, <1>5, <1>6 DEF Paths

\* To go into a field adds the field, without a subscript, to the path.
LEMMA IntoIs ==
  ASSUME NEW p \in Paths, NEW f \in STRING
  PROVE  /\ Into(p, f) \in Paths /\ Into(p, f) # <<>>
         /\ Len(Into(p, f)) = Len(p) + 1
         /\ \A d \in 1..Len(p) : Into(p, f)[d] = p[d]
         /\ Into(p, f)[Len(p) + 1].field = f /\ Into(p, f)[Len(p) + 1].sub = NoSub
         /\ Up(Into(p, f)) = p
<1>1. PICK e : e = Element(f, NoSub)
  OBVIOUS
<1>2. e \in Elements /\ e.field = f /\ e.sub = NoSub
  BY <1>1, ElementIs DEF Subs
<1>3. PICK q : q = Into(p, f)
  OBVIOUS
<1>4. p \in Seq(Elements) /\ Len(p) \in Nat /\ q = Append(p, e)
  BY <1>1, <1>3 DEF Paths, Into
<1>5. /\ q \in Seq(Elements) /\ Len(q) = Len(p) + 1
      /\ \A d \in 1..Len(p) : q[d] = p[d]
      /\ q[Len(p) + 1] = e
  BY <1>2, <1>4, AppendProperties
<1>6. q # <<>>
  BY <1>4, <1>5, EmptySeq
<1>7. Up(q) = p
  <2>1. q \in Paths
    BY <1>5 DEF Paths
  <2>2. PICK u : u = Up(q)
    OBVIOUS
  <2>3. u \in Paths /\ Len(u) = Len(q) - 1 /\ \A d \in 1..Len(u) : u[d] = q[d]
    BY <1>6, <2>1, <2>2, UpIs
  <2>4. Len(u) = Len(p)
    BY <1>4, <1>5, <2>3
  <2>5. \A d \in 1..Len(p) : u[d] = p[d]
    BY <1>5, <2>3, <2>4
  <2> QED  BY <2>2, <2>3, <2>4, <2>5, SameSeq DEF Paths
<1> QED  BY <1>2, <1>3, <1>5, <1>6, <1>7 DEF Paths

\* What is reported under a field is reported at the field's path.
LEMMA OntoIs ==
  ASSUME NEW p \in Paths, NEW f \in STRING, NEW sub \in Subs
  PROVE  /\ Onto(p, f, sub) \in Paths /\ Len(Onto(p, f, sub)) = Len(p) + 1
         /\ \A d \in 1..Len(p) : Onto(p, f, sub)[d] = p[d]
         /\ Onto(p, f, sub)[Len(p) + 1].field = f /\ Onto(p, f, sub)[Len(p) + 1].sub = sub
         /\ \A fs \in Findings : Below(p, Under(f, sub, fs)) = Below(Onto(p, f, sub), fs)
<1>1. PICK e : e = Element(f, sub)
  OBVIOUS
<1>2. e \in Elements /\ e.field = f /\ e.sub = sub
  BY <1>1, ElementIs
<1>3. PICK w : w = <<e>>
  OBVIOUS
<1>4. w \in Paths /\ Len(w) = 1 /\ w[1] = e
  BY <1>2, <1>3 DEF Paths
<1>5. PICK q : q = Cat(p, w)
  OBVIOUS
<1>6. Len(p) \in Nat /\ p \in Seq(Elements) /\ w \in Seq(Elements)
  BY <1>4 DEF Paths
<1>7. q \in Seq(Elements) /\ Len(q) = Len(p) + 1
  <2>1. Cat(p, w) \in Seq(Elements) /\ Len(Cat(p, w)) = Len(p) + Len(w)
    BY <1>6, CatIs
  <2> QED  BY <1>4, <1>5, <2>1
<1>8. \A d \in 1..Len(p) : q[d] = p[d]
  BY <1>5, <1>6, CatMembers
<1>9. q[Len(p) + 1] = e
  <2>1. Len(p) + 1 \in (Len(p) + 1)..(Len(p) + Len(w)) /\ Len(p) + 1 - Len(p) = 1
    BY <1>4, <1>6
  <2>2. q[Len(p) + 1] = w[Len(p) + 1 - Len(p)]
    BY <1>5, <1>6, <2>1, CatMembers
  <2> QED  BY <1>4, <2>1, <2>2
<1>10. ASSUME NEW fs \in Findings
       PROVE  Below(p, Under(f, sub, fs)) = Below(q, fs)
  BY <1>1, <1>3, <1>4, <1>5, BelowBelow DEF Under
<1> QED  BY <1>1, <1>2, <1>3, <1>5, <1>7, <1>8, <1>9, <1>10 DEF Onto, Paths

\* Giving an element its subscript changes no other and no field.
LEMMA MarkedIs ==
  ASSUME NEW p \in Paths, NEW d \in 1..Len(p), NEW sub \in Subs
  PROVE  /\ Marked(p, d, sub) \in Paths /\ Len(Marked(p, d, sub)) = Len(p)
         /\ \A i \in 1..Len(p) : Marked(p, d, sub)[i].field = p[i].field
         /\ Marked(p, d, sub)[d].sub = sub
         /\ \A i \in 1..Len(p) : i # d => Marked(p, d, sub)[i] = p[i]
<1>1. PICK e : e = [p[d] EXCEPT !.sub = sub]
  OBVIOUS
<1>2. p \in [1..Len(p) -> Elements] /\ Len(p) \in Nat
  BY DEF Paths
<1>3. p[d] \in Elements
  BY <1>2
<1>4. e \in Elements /\ e.field = p[d].field /\ e.sub = sub
  BY <1>1, <1>3 DEF Elements, Subs
<1>5. PICK q : q = [p EXCEPT ![d] = e]
  OBVIOUS
<1>6. q \in [1..Len(p) -> Elements] /\ q[d] = e /\ \A i \in 1..Len(p) : i # d => q[i] = p[i]
  BY <1>2, <1>4, <1>5
<1>7. q \in Paths /\ Len(q) = Len(p)
  BY <1>2, <1>6, IsASeq DEF Paths
<1>8. Marked(p, d, sub) = q
  BY <1>1, <1>5 DEF Marked
<1> QED  BY <1>4, <1>6, <1>7, <1>8

-----------------------------------------------------------------------------
(* The walk's path and the path it stands for: the map entries the walk is *)
(* in owe it their subscripts.                                             *)

\* What a map entry owes: its subscript, at its depth, to what is recorded from there on.
Owes == [depth : Nat, key : Keys, recorded : Nat]
\* The walk's path is the path it stands for but for the subscripts owed.
Agree(p, q, owed) ==
  /\ Len(p) = Len(q)
  /\ \A d \in 1..Len(p) :
       p[d].field = q[d].field /\ (p[d].sub = q[d].sub \/ \E o \in owed : o.depth = d)
  /\ \A o \in owed : o.depth \in 1..Len(p) /\ q[o.depth].sub = o.key

\* Both paths may go into a field.
LEMMA AgreeInto ==
  ASSUME NEW p \in Paths, NEW q \in Paths, NEW owed, Agree(p, q, owed), NEW f \in STRING
  PROVE  Agree(Into(p, f), Onto(q, f, NoSub), owed)
<1>1. PICK a : a = Into(p, f)
  OBVIOUS
<1>2. PICK b : b = Onto(q, f, NoSub)
  OBVIOUS
<1>3. PICK n \in Nat : n = Len(p)
  BY PathsAre
<1>4. Len(q) = n /\ \A o \in owed : o.depth \in 1..n /\ q[o.depth].sub = o.key
  BY <1>3 DEF Agree
<1>5. \A d \in 1..n :
       p[d].field = q[d].field /\ (p[d].sub = q[d].sub \/ \E o \in owed : o.depth = d)
  BY <1>3 DEF Agree
<1>6. Len(a) = n + 1 /\ (\A d \in 1..n : a[d] = p[d]) /\ a[n + 1].field = f /\ a[n + 1].sub = NoSub
  BY <1>1, <1>3, IntoIs
<1>7. Len(b) = n + 1 /\ (\A d \in 1..n : b[d] = q[d]) /\ b[n + 1].field = f /\ b[n + 1].sub = NoSub
  BY <1>2, <1>4, OntoIs DEF Subs
<1>8. \A d \in 1..(n + 1) : d \in 1..n \/ d = n + 1
  BY <1>3
<1>9. \A d \in 1..(n + 1) :
        a[d].field = b[d].field /\ (a[d].sub = b[d].sub \/ \E o \in owed : o.depth = d)
  BY <1>5, <1>6, <1>7, <1>8
<1>10. \A o \in owed : o.depth \in 1..(n + 1) /\ b[o.depth].sub = o.key
  BY <1>4, <1>7
<1> QED  BY <1>1, <1>2, <1>6, <1>7, <1>9, <1>10 DEF Agree

\* At a list or a map: the path but for its last subscript.
LEMMA AgreeMarked ==
  ASSUME NEW p \in Paths, p # <<>>, NEW q \in Paths, NEW owed, Agree(Up(p), q, owed),
         NEW f \in STRING, p[Len(p)].field = f, NEW sub \in Subs
  PROVE  /\ Agree(Marked(p, Len(p), sub), Onto(q, f, sub), owed)
         /\ Up(Marked(p, Len(p), sub)) = Up(p) /\ Marked(p, Len(p), sub) # <<>>
         /\ Marked(p, Len(p), sub) \in Paths
         /\ Marked(p, Len(p), sub)[Len(Marked(p, Len(p), sub))].field = f
<1>1. PICK a : a = Marked(p, Len(p), sub)
  OBVIOUS
<1>2. PICK b : b = Onto(q, f, sub)
  OBVIOUS
<1>3. PICK n \in Nat : Len(p) = n + 1
  <2>1. Len(p) - 1 \in Nat /\ Len(p) = (Len(p) - 1) + 1
    BY UpIs
  <2> QED  BY <2>1
<1>4. PICK u : u = Up(p)
  OBVIOUS
<1>5. u \in Paths /\ Len(u) = n /\ \A d \in 1..n : u[d] = p[d]
  <2>1. u \in Paths /\ Len(u) = Len(p) - 1 /\ \A d \in 1..Len(u) : u[d] = p[d]
    BY <1>4, UpIs
  <2>2. Len(u) = n
    BY <1>3, <2>1
  <2> QED  BY <2>1, <2>2
<1>6. Len(q) = n /\ \A o \in owed : o.depth \in 1..n /\ q[o.depth].sub = o.key
  BY <1>4, <1>5 DEF Agree
<1>7. \A d \in 1..n :
       u[d].field = q[d].field /\ (u[d].sub = q[d].sub \/ \E o \in owed : o.depth = d)
  BY <1>4, <1>5 DEF Agree
<1>8. /\ a \in Paths /\ Len(a) = n + 1 /\ a[n + 1].sub = sub /\ a[n + 1].field = f
      /\ \A d \in 1..n : a[d] = p[d]
  <2>1. n + 1 \in 1..Len(p) /\ \A d \in 1..n : d \in 1..Len(p) /\ d # n + 1
    BY <1>3
  <2>2. PICK d : d = n + 1
    OBVIOUS
  <2>3. a = Marked(p, d, sub) /\ d \in 1..Len(p)
    BY <1>1, <1>3, <2>1, <2>2
  <2>4. /\ a \in Paths /\ Len(a) = Len(p) /\ a[d].sub = sub
        /\ \A i \in 1..Len(p) : a[i].field = p[i].field
        /\ \A i \in 1..Len(p) : i # d => a[i] = p[i]
    BY <2>3, MarkedIs
  <2> QED  BY <1>3, <2>1, <2>2, <2>3, <2>4
<1>9. Len(b) = n + 1 /\ (\A d \in 1..n : b[d] = q[d]) /\ b[n + 1].field = f /\ b[n + 1].sub = sub
  BY <1>2, <1>6, OntoIs
<1>10. \A d \in 1..(n + 1) : d \in 1..n \/ d = n + 1
  BY <1>3
<1>11. \A d \in 1..(n + 1) :
         a[d].field = b[d].field /\ (a[d].sub = b[d].sub \/ \E o \in owed : o.depth = d)
  BY <1>5, <1>7, <1>8, <1>9, <1>10
<1>12. \A o \in owed : o.depth \in 1..(n + 1) /\ b[o.depth].sub = o.key
  BY <1>6, <1>9
<1>13. Agree(a, b, owed)
  BY <1>8, <1>9, <1>11, <1>12 DEF Agree
<1>14. a # <<>>
  BY <1>8
<1>15. Up(a) = u
  <2>1. PICK v : v = Up(a)
    OBVIOUS
  <2>2. v \in Paths /\ Len(v) = Len(a) - 1 /\ \A d \in 1..Len(v) : v[d] = a[d]
    BY <1>8, <1>14, <2>1, UpIs
  <2>3. Len(v) = n
    BY <1>8, <2>2
  <2>4. \A d \in 1..n : v[d] = u[d]
    BY <1>5, <1>8, <2>2, <2>3
  <2> QED  BY <1>5, <2>1, <2>2, <2>3, <2>4, SameSeq DEF Paths
<1> QED  BY <1>1, <1>2, <1>4, <1>8, <1>13, <1>14, <1>15

\* An entry that owes its key stands for a path that has it.
LEMMA AgreeOwing ==
  ASSUME NEW p \in Paths, p # <<>>, NEW q \in Paths, NEW owed, Agree(Up(p), q, owed),
         NEW f \in STRING, p[Len(p)].field = f, NEW key \in Keys,
         NEW o, o.depth = Len(p), o.key = key
  PROVE  Agree(p, Onto(q, f, key), owed \cup {o})
<1>2. PICK b : b = Onto(q, f, key)
  OBVIOUS
<1>3. PICK n \in Nat : Len(p) = n + 1
  <2>1. Len(p) - 1 \in Nat /\ Len(p) = (Len(p) - 1) + 1
    BY UpIs
  <2> QED  BY <2>1
<1>4. PICK u : u = Up(p)
  OBVIOUS
<1>5. u \in Paths /\ Len(u) = n /\ \A d \in 1..n : u[d] = p[d]
  <2>1. u \in Paths /\ Len(u) = Len(p) - 1 /\ \A d \in 1..Len(u) : u[d] = p[d]
    BY <1>4, UpIs
  <2>2. Len(u) = n
    BY <1>3, <2>1
  <2> QED  BY <2>1, <2>2
<1>6. Len(q) = n /\ \A w \in owed : w.depth \in 1..n /\ q[w.depth].sub = w.key
  BY <1>4, <1>5 DEF Agree
<1>7. \A d \in 1..n :
       u[d].field = q[d].field /\ (u[d].sub = q[d].sub \/ \E w \in owed : w.depth = d)
  BY <1>4, <1>5 DEF Agree
<1>9. Len(b) = n + 1 /\ (\A d \in 1..n : b[d] = q[d]) /\ b[n + 1].field = f /\ b[n + 1].sub = key
  BY <1>2, <1>6, OntoIs DEF Subs
<1>10. \A d \in 1..(n + 1) : d \in 1..n \/ d = n + 1
  BY <1>3
<1>11. \A d \in 1..(n + 1) :
         p[d].field = b[d].field /\ (p[d].sub = b[d].sub \/ \E w \in owed \cup {o} : w.depth = d)
  BY <1>3, <1>5, <1>7, <1>9, <1>10
<1>12. \A w \in owed \cup {o} : w.depth \in 1..(n + 1) /\ b[w.depth].sub = w.key
  BY <1>3, <1>6, <1>9
<1> QED  BY <1>2, <1>3, <1>9, <1>11, <1>12 DEF Agree

\* A debt is paid by the subscript written into the path.
LEMMA AgreePaid ==
  ASSUME NEW p \in Paths, NEW q \in Paths, NEW all, Agree(p, q, all), NEW o \in all,
         NEW rest, all = rest \cup {o}, o.key \in Keys
  PROVE  Marked(p, o.depth, o.key) \in Paths /\ Agree(Marked(p, o.depth, o.key), q, rest)
<1>1. PICK k, d : k = o.key /\ d = o.depth
  OBVIOUS
<1>2. PICK a : a = Marked(p, d, k)
  OBVIOUS
<1>3. d \in 1..Len(p) /\ k \in Subs /\ q[d].sub = k /\ Len(p) = Len(q)
  BY <1>1 DEF Agree, Subs
<1>4. /\ a \in Paths /\ Len(a) = Len(p) /\ a[d].sub = k
      /\ \A i \in 1..Len(p) : a[i].field = p[i].field
      /\ \A i \in 1..Len(p) : i # d => a[i] = p[i]
  BY <1>2, <1>3, MarkedIs
<1>5. \A i \in 1..Len(p) :
        p[i].field = q[i].field /\ (p[i].sub = q[i].sub \/ \E w \in all : w.depth = i)
  BY DEF Agree
<1>6. \A i \in 1..Len(p) :
        a[i].field = q[i].field /\ (a[i].sub = q[i].sub \/ \E w \in rest : w.depth = i)
  BY <1>1, <1>3, <1>4, <1>5
<1>7. \A w \in rest : w.depth \in 1..Len(p) /\ q[w.depth].sub = w.key
  BY DEF Agree
<1> QED  BY <1>1, <1>2, <1>3, <1>4, <1>6, <1>7 DEF Agree

\* With nothing owed the walk's path is what it stands for.
LEMMA AgreeAll ==
  ASSUME NEW p \in Paths, NEW q \in Paths, Agree(p, q, {})
  PROVE  p = q
BY SamePath DEF Agree
-----------------------------------------------------------------------------
(* The agenda and what is planned: for each task left, where it is, whose  *)
(* subscripts are owed, and what it and the tasks after it are to report.  *)

\* A plan: the walk's path when the task's turn comes, the path it stands for, whether
\* it is about a map key, whether the field is left after it, the debts of the entries
\* around it, and what is to be reported from it on.
Plan == [real : Paths, at : Paths, key : BOOLEAN, leaves : BOOLEAN,
         owed : SUBSET Owes, rest : Findings]

\* What a task is to report, of itself.
Says(B, t, key) ==
  CASE t.op = "check" -> OfRule(t.rule, t.value, key)
    [] t.op = "oneof" -> OfOneof(t.node, t.oneof)
    [] t.op = "required" -> OfRequired(t.node, t.oneof)
    [] t.op = "message" -> OfMessage(B, t.node)
    [] t.op = "field" -> OfField(B, t.node, t.rules)
    [] t.op = "value" -> OfValue(B, t.rules, t.value, key)
    [] t.op = "inside" -> OfContents(B, t.rules, t.value)
    [] t.op = "items" -> Left(ItemParts(B, t.rules, t.value))[t.next]
    [] t.op = "entries" -> Left(EntryParts(B, t.rules, t.value))[t.next]
    [] t.op = "key" -> OfPart(B, t.item, t.value, TRUE)
    [] t.op = "entryValue" -> OfPart(B, t.item, t.value, FALSE)
    [] OTHER -> <<>>

\* What a task carries, besides what IsTask says.
Shape(t) ==
  /\ t.op = "check" => t.rule \in STRING
  /\ t.op = "inside" => Fitting(t.rules, t.value) /\ t.value # NoValue
  /\ t.op \in {"items", "entries"} => IsSeq(t.value) /\ t.next \in 1..(Len(t.value) + 1)
  /\ t.op = "key" => t.value \in Keys

\* The tasks that are about the value at the path, and leave the path as they find it.
Inner == {"check", "oneof", "required", "message", "field", "value", "inside", "key", "entryValue"}

\* A task agrees with its plan.
Level(t, g) ==
  /\ g \in Plan /\ Shape(t)
  /\ g.leaves <=> t.op = "leave"
  /\ g.key => t.op \in {"check", "value", "keyDone"} /\ (t.op = "value" => t.value \notin Nodes)
  /\ t.op \in {"items", "entries"} =>
       /\ g.real # <<>> /\ g.real[Len(g.real)].field = t.rules.field
       /\ Agree(Up(g.real), g.at, g.owed)
  /\ t.op \in Inner => Agree(g.real, g.at, g.owed)

\* The walk is at path p where what is planned is g.
Reaches(p, g) == IF g.leaves THEN p # <<>> /\ g.real = Up(p) ELSE g.real = p

\* The debt of the entry that a subscript task ends.
Owing(t, p) == [depth |-> Len(p), key |-> t.key, recorded |-> t.recorded]

\* Where task t leaves what was planned with it, g, what is planned next is h.
Link(B, t, g, h) ==
  /\ g.rest = Cat(Below(g.at, Says(B, t, g.key)), h.rest)
  /\ t.op = "subscript" => g.owed = h.owed \cup {Owing(t, g.real)}
  /\ t.op # "subscript" => g.owed = h.owed
  /\ t.op = "keyDone" => h.key = FALSE
  /\ t.op # "keyDone" => h.key = g.key
  /\ Reaches(g.real, h)
  /\ t.op \in {"items", "entries"} => h.leaves

\* G[j] is planned when j tasks are left.
Stacked(B, s, G) ==
  /\ G \in [0..Len(s) -> Plan] /\ G[0].rest = <<>>
  /\ \A j \in 1..Len(s) :
       Level(s[Len(s) + 1 - j], G[j]) /\ Link(B, s[Len(s) + 1 - j], G[j], G[j - 1])
  /\ \A j \in 0..Len(s) :
       G[j].owed # {} => \E i \in 1..Len(s) : i > Len(s) - j /\ s[i].op = "subscript"
\* An agenda stands for a plan: each of its tasks has one and leads to the next.
Stands(B, s, g) == \E G : Stacked(B, s, G) /\ G[Len(s)] = g

\* A sequence has a length.
LEMMA SeqsAre ==
  ASSUME NEW s, IsSeq(s)
  PROVE  Len(s) \in Nat /\ DOMAIN s = 1..Len(s)
BY DEF IsSeq

\* An agenda stands for a plan, owes nothing outside entries, and reports no more at its end.
LEMMA StandsIs ==
  ASSUME NEW B, NEW s, IsSeq(s), NEW g, Stands(B, s, g)
  PROVE  /\ g \in Plan
         /\ (\A i \in DOMAIN s : s[i].op # "subscript") => g.owed = {}
         /\ s = <<>> => g.rest = <<>>
<1>1. PICK G : Stacked(B, s, G) /\ G[Len(s)] = g
  BY DEF Stands
<1>2. PICK n : n = Len(s)
  OBVIOUS
<1>3. n \in Nat /\ DOMAIN s = 1..n
  BY <1>2, SeqsAre
<1>4. n \in 0..n
  BY <1>3
<1>5. G \in [0..n -> Plan] /\ G[n] = g
  BY <1>1, <1>2 DEF Stacked
<1>6. g.owed # {} => \E i \in 1..n : s[i].op = "subscript"
  BY <1>1, <1>2, <1>4, <1>5 DEF Stacked
<1>7. s = <<>> => g.rest = <<>>
  BY <1>1, <1>2, <1>5 DEF Stacked
<1> QED  BY <1>3, <1>4, <1>5, <1>6, <1>7

\* The agenda without its first task.
LEMMA TailOf ==
  ASSUME NEW s, IsSeq(s), s # <<>>, NEW u, u = Tail(s)
  PROVE  /\ IsSeq(u) /\ Len(u) \in Nat /\ Len(s) = Len(u) + 1 /\ Head(s) = s[1]
         /\ \A i \in 1..Len(u) : u[i] = s[i + 1]
<1> DEFINE S == {s[i] : i \in DOMAIN s}
<1>1. s \in Seq(S)
  BY DEF IsSeq
<1>2. /\ u \in Seq(S) /\ Len(u) = Len(s) - 1 /\ Len(s) \in Nat \ {0}
      /\ \A i \in 1..Len(u) : u[i] = s[i + 1]
      /\ Head(s) = s[1]
  BY <1>1, HeadTailProperties
<1> HIDE DEF S
<1>3. IsSeq(u)
  BY <1>2, SeqIs
<1> QED  BY <1>2, <1>3

\* Without its first task an agenda stands for the plan that comes after it.
LEMMA PopOne ==
  ASSUME NEW B, NEW s, IsSeq(s), s # <<>>, NEW g, Stands(B, s, g)
  PROVE  \E h : Stands(B, Tail(s), h) /\ Level(Head(s), g) /\ Link(B, Head(s), g, h)
<1>1. PICK G : Stacked(B, s, G) /\ G[Len(s)] = g
  BY DEF Stands
<1>2. PICK u : u = Tail(s)
  OBVIOUS
<1>3. PICK n : n = Len(u)
  OBVIOUS
<1>4. /\ IsSeq(u) /\ n \in Nat /\ Len(s) = n + 1 /\ Head(s) = s[1]
      /\ \A i \in 1..n : u[i] = s[i + 1]
  BY <1>2, <1>3, TailOf
<1>5. PICK m : m = n + 1
  OBVIOUS
<1>6. /\ G \in [0..m -> Plan] /\ G[0].rest = <<>> /\ G[m] = g
      /\ \A j \in 1..m : Level(s[m + 1 - j], G[j]) /\ Link(B, s[m + 1 - j], G[j], G[j - 1])
      /\ \A j \in 0..m : G[j].owed # {} => \E i \in 1..m : i > m - j /\ s[i].op = "subscript"
  BY <1>1, <1>4, <1>5 DEF Stacked
<1>7. PICK H : H = [j \in 0..n |-> G[j]]
  OBVIOUS
<1>8. H \in [0..n -> Plan] /\ H[0].rest = <<>> /\ \A j \in 0..n : H[j] = G[j]
  BY <1>4, <1>5, <1>6, <1>7
<1>9. ASSUME NEW j \in 1..n
      PROVE  Level(u[n + 1 - j], H[j]) /\ Link(B, u[n + 1 - j], H[j], H[j - 1])
  <2>1. /\ n + 1 - j \in 1..n /\ (n + 1 - j) + 1 = m + 1 - j
        /\ j \in 1..m /\ j - 1 \in 0..n /\ j \in 0..n
    BY <1>4, <1>5
  <2>2. u[n + 1 - j] = s[m + 1 - j]
    BY <1>4, <2>1
  <2> QED  BY <1>6, <1>8, <2>1, <2>2
<1>10. ASSUME NEW j \in 0..n, H[j].owed # {}
       PROVE  \E i \in 1..n : i > n - j /\ u[i].op = "subscript"
  <2>1. j \in 0..m /\ H[j] = G[j]
    BY <1>4, <1>5, <1>8
  <2>2. PICK i \in 1..m : i > m - j /\ s[i].op = "subscript"
    BY <1>6, <1>10, <2>1
  <2>3. i - 1 \in 1..n /\ i - 1 > n - j /\ (i - 1) + 1 = i
    BY <1>4, <1>5, <2>2
  <2>4. u[i - 1] = s[i]
    BY <1>4, <2>3
  <2> QED  BY <2>2, <2>3, <2>4
<1>11. Stacked(B, u, H)
  BY <1>3, <1>8, <1>9, <1>10 DEF Stacked
<1>12. Stands(B, u, H[n])
  BY <1>3, <1>11 DEF Stands
<1>13. Level(s[1], G[m]) /\ Link(B, s[1], G[m], G[n])
  <2>1. m \in 1..m /\ m + 1 - m = 1 /\ m - 1 = n
    BY <1>4, <1>5
  <2> QED  BY <1>6, <2>1
<1>14. H[n] = G[n]
  BY <1>4, <1>8
<1> QED  BY <1>2, <1>4, <1>6, <1>12, <1>13, <1>14

\* The tasks of two agendas, one after the other.
LEMMA JoinedIs ==
  ASSUME NEW s, NEW u, IsSeq(s), IsSeq(u), NEW w, w = Cat(s, u)
  PROVE  /\ IsSeq(w) /\ Len(w) = Len(s) + Len(u) /\ Len(s) \in Nat /\ Len(u) \in Nat
         /\ \A i \in 1..Len(s) : w[i] = s[i]
         /\ \A i \in 1..Len(u) : w[Len(s) + i] = u[i]
<1> DEFINE S == {s[i] : i \in DOMAIN s} \cup {u[i] : i \in DOMAIN u}
<1>1. s \in Seq(S) /\ u \in Seq(S)
  BY DEF IsSeq
<1> HIDE DEF S
<1>2. w = Cat(s, u)
  OBVIOUS
<1>3. PICK k, m : k = Len(s) /\ m = Len(u)
  OBVIOUS
<1>4. k \in Nat /\ m \in Nat /\ w \in Seq(S) /\ Len(w) = k + m
  BY <1>1, <1>2, <1>3, CatIs
<1>5. /\ \A i \in 1..k : w[i] = s[i]
      /\ \A i \in (k + 1)..(k + m) : w[i] = u[i - k]
  BY <1>1, <1>2, <1>3, CatMembers
<1>6. ASSUME NEW i \in 1..m PROVE w[k + i] = u[i]
  <2>1. k + i \in (k + 1)..(k + m) /\ (k + i) - k = i
    BY <1>4
  <2> QED  BY <1>5, <2>1
<1>7. IsSeq(w)
  BY <1>4, SeqIs
<1> QED  BY <1>3, <1>4, <1>5, <1>6, <1>7

\* Tasks with plans that lead to that of an agenda may be put before it.
LEMMA PushAll ==
  ASSUME NEW B, NEW u, IsSeq(u), NEW h, Stands(B, u, h), NEW s, IsSeq(s),
         NEW N \in [1..(Len(s) + 1) -> Plan], N[Len(s) + 1] = h,
         \A i \in 1..Len(s) : Level(s[i], N[i]) /\ Link(B, s[i], N[i], N[i + 1]),
         \A i \in 1..Len(s) : N[i].owed = h.owed \/ \E l \in i..Len(s) : s[l].op = "subscript"
  PROVE  Stands(B, Cat(s, u), N[1])
<1>1. PICK G : Stacked(B, u, G) /\ G[Len(u)] = h
  BY DEF Stands
<1>2. PICK w : w = Cat(s, u)
  OBVIOUS
<1>3. PICK k, m : k = Len(s) /\ m = Len(u)
  OBVIOUS
<1>4. PICK n : n = k + m
  OBVIOUS
<1>5. /\ IsSeq(w) /\ Len(w) = n /\ k \in Nat /\ m \in Nat /\ n \in Nat
      /\ \A i \in 1..k : w[i] = s[i]
      /\ \A i \in 1..m : w[k + i] = u[i]
  <2>1. /\ IsSeq(w) /\ Len(w) = k + m /\ k \in Nat /\ m \in Nat
        /\ \A i \in 1..k : w[i] = s[i]
        /\ \A i \in 1..m : w[k + i] = u[i]
    BY <1>2, <1>3, JoinedIs
  <2> QED  BY <1>4, <2>1
<1>6. /\ G \in [0..m -> Plan] /\ G[0].rest = <<>> /\ G[m] = h
      /\ \A j \in 1..m : Level(u[m + 1 - j], G[j]) /\ Link(B, u[m + 1 - j], G[j], G[j - 1])
      /\ \A j \in 0..m : G[j].owed # {} => \E i \in 1..m : i > m - j /\ u[i].op = "subscript"
  BY <1>1, <1>3 DEF Stacked
<1>7. PICK H : H = [j \in 0..n |-> IF j \in 0..m THEN G[j] ELSE N[n + 1 - j]]
  OBVIOUS
<1>8. ASSUME NEW j \in 1..n, j \notin 0..m
      PROVE  /\ n + 1 - j \in 1..k /\ w[n + 1 - j] = s[n + 1 - j] /\ n + 1 - j > n - j
             /\ H[j] = N[n + 1 - j] /\ H[j - 1] = N[(n + 1 - j) + 1]
  <2>1. PICK i : i = n + 1 - j
    OBVIOUS
  <2>2. i \in 1..k /\ i > n - j /\ j \in 0..n /\ j - 1 \in 0..n
    BY <1>4, <1>5, <1>8, <2>1
  <2>3. H[j] = N[i]
    BY <1>7, <1>8, <2>1, <2>2
  <2>4. H[j - 1] = N[i + 1]
    <3>1. CASE j - 1 \in 0..m
      <4>1. j - 1 = m /\ i + 1 = k + 1
        BY <1>4, <1>5, <1>8, <2>1, <3>1
      <4>2. H[j - 1] = G[j - 1]
        BY <1>7, <2>2, <3>1
      <4> QED  BY <1>3, <1>6, <4>1, <4>2
    <3>2. CASE j - 1 \notin 0..m
      <4>1. n + 1 - (j - 1) = i + 1
        BY <1>5, <2>1
      <4> QED  BY <1>7, <2>2, <3>2, <4>1
    <3> QED  BY <3>1, <3>2
  <2> QED  BY <1>5, <2>1, <2>2, <2>3, <2>4
<1>9. ASSUME NEW j \in 0..m
      PROVE  j \in 0..n /\ H[j] = G[j]
  BY <1>4, <1>5, <1>7
<1>10. H \in [0..n -> Plan] /\ H[0].rest = <<>>
  <2>1. ASSUME NEW j \in 0..n PROVE H[j] \in Plan
    <3>1. CASE j \in 0..m
      BY <1>6, <1>9, <3>1
    <3>2. CASE j \notin 0..m
      <4>1. j \in 1..n
        BY <1>5, <3>2
      <4>2. n + 1 - j \in 1..k
        BY <1>8, <3>2, <4>1
      <4>3. n + 1 - j \in 1..(k + 1)
        BY <1>5, <4>2
      <4> QED  BY <1>3, <1>8, <3>2, <4>1, <4>3
    <3> QED  BY <3>1, <3>2
  <2>2. 0 \in 0..m
    BY <1>5
  <2> QED  BY <1>6, <1>7, <1>9, <2>1, <2>2
<1>11. ASSUME NEW j \in 1..n
       PROVE  Level(w[n + 1 - j], H[j]) /\ Link(B, w[n + 1 - j], H[j], H[j - 1])
  <2>1. CASE j \in 0..m
    <3>1. j \in 1..m /\ m + 1 - j \in 1..m /\ k + (m + 1 - j) = n + 1 - j /\ j - 1 \in 0..m
      BY <1>4, <1>5, <2>1
    <3>2. w[n + 1 - j] = u[m + 1 - j]
      BY <1>5, <3>1
    <3>3. H[j] = G[j] /\ H[j - 1] = G[j - 1]
      BY <1>9, <2>1, <3>1
    <3> QED  BY <1>6, <3>1, <3>2, <3>3
  <2>2. CASE j \notin 0..m
    <3>1. PICK i : i = n + 1 - j
      OBVIOUS
    <3>2. i \in 1..k /\ w[i] = s[i] /\ H[j] = N[i] /\ H[j - 1] = N[i + 1]
      BY <1>8, <2>2, <3>1
    <3> QED  BY <1>3, <3>1, <3>2
  <2> QED  BY <2>1, <2>2
<1>12. ASSUME NEW j \in 0..n, H[j].owed # {}
       PROVE  \E i \in 1..n : i > n - j /\ w[i].op = "subscript"
  <2>0. ASSUME h.owed # {}
        PROVE  \E i \in 1..m : u[i].op = "subscript"
    <3>1. m \in 0..m
      BY <1>5
    <3> QED  BY <1>6, <2>0, <3>1
  <2>1. CASE j \in 0..m
    <3>1. PICK i \in 1..m : i > m - j /\ u[i].op = "subscript"
      BY <1>6, <1>9, <1>12, <2>1
    <3>2. k + i \in 1..n /\ k + i > n - j
      BY <1>4, <1>5, <3>1
    <3> QED  BY <1>5, <3>1, <3>2
  <2>2. CASE j \notin 0..m
    <3>1. j \in 1..n
      BY <1>5, <2>2
    <3>2. PICK i : i = n + 1 - j
      OBVIOUS
    <3>3. i \in 1..k /\ H[j] = N[i] /\ i > n - j
      BY <1>8, <2>2, <3>1, <3>2
    <3>4. CASE N[i].owed = h.owed
      <4>1. PICK l \in 1..m : u[l].op = "subscript"
        BY <1>12, <2>0, <3>3, <3>4
      <4>2. k + l \in 1..n /\ k + l > n - j
        BY <1>4, <1>5, <3>2, <3>3
      <4> QED  BY <1>5, <4>1, <4>2
    <3>5. CASE \E l \in i..k : s[l].op = "subscript"
      <4>1. PICK l \in i..k : s[l].op = "subscript"
        BY <3>5
      <4>2. l \in 1..k /\ l \in 1..n /\ l > n - j
        BY <1>4, <1>5, <3>2, <3>3
      <4> QED  BY <1>5, <4>1, <4>2
    <3> QED  BY <1>3, <3>3, <3>4, <3>5
  <2> QED  BY <2>1, <2>2
<1>13. Stacked(B, w, H)
  BY <1>5, <1>10, <1>11, <1>12 DEF Stacked
<1>14. H[n] = N[1]
  <2>1. CASE k = 0
    <3>1. n = m /\ m \in 0..m
      BY <1>4, <1>5, <2>1
    <3> QED  BY <1>3, <1>6, <1>9, <2>1, <3>1
  <2>2. CASE k # 0
    <3>1. n \in 1..n /\ n \notin 0..m /\ n + 1 - n = 1
      BY <1>4, <1>5, <2>2
    <3> QED  BY <1>8, <3>1
  <2> QED  BY <2>1, <2>2
<1> QED  BY <1>2, <1>5, <1>13, <1>14 DEF Stands
-----------------------------------------------------------------------------
(* The invariant.                                                          *)

\* The violations of l are those of done, but for the subscripts owed.
Recorded(l, done, owed) ==
  /\ l \in Findings /\ done \in Findings /\ Len(l) = Len(done)
  /\ \A o \in owed : o.recorded \in 0..Len(l)
  /\ \A i \in 1..Len(l) :
       /\ l[i].rule = done[i].rule /\ l[i].key = done[i].key
       /\ Agree(l[i].path, done[i].path, {o \in owed : o.recorded < i})

\* What is recorded, patched with the subscripts owed, and what is planned are the report.
Planned(B, R, s, p, k, l, a, done, g) ==
  /\ Stands(B, s, g) /\ Reaches(p, g) /\ k = g.key
  /\ Recorded(l, done, g.owed)
  /\ \E r \in Findings : R = Cat(done, r)
  /\ a = "none" => R = Cat(done, g.rest)

\* The inductive invariant: the walk stands for a plan, and with what it recorded for the report.
OrderInv ==
  \E done, g : Planned(Found, Report, todo, path, forKey, list, abort, done, g)

\* A finding appended to a report.
LEMMA AppendIs ==
  ASSUME NEW l \in Findings, NEW f \in Finding
  PROVE  /\ Append(l, f) \in Findings /\ Len(Append(l, f)) = Len(l) + 1
         /\ \A i \in 1..Len(l) : Append(l, f)[i] = l[i]
         /\ Append(l, f)[Len(l) + 1] = f
BY AppendProperties DEF Findings

\* One more violation.
LEMMA RecordedMore ==
  ASSUME NEW l, NEW done, NEW owed, Recorded(l, done, owed),
         NEW v \in Finding, NEW f \in Finding, v.rule = f.rule, v.key = f.key,
         Agree(v.path, f.path, owed)
  PROVE  Recorded(Append(l, v), Append(done, f), owed)
<1>1. PICK l2, d2 : l2 = Append(l, v) /\ d2 = Append(done, f)
  OBVIOUS
<1>2. PICK n \in Nat : n = Len(l)
  BY FindingsAre DEF Recorded
<1>3. /\ l \in Findings /\ done \in Findings /\ Len(done) = n
      /\ \A o \in owed : o.recorded \in 0..n
      /\ \A i \in 1..n :
           /\ l[i].rule = done[i].rule /\ l[i].key = done[i].key
           /\ Agree(l[i].path, done[i].path, {o \in owed : o.recorded < i})
  BY <1>2 DEF Recorded
<1>4. l2 \in Findings /\ Len(l2) = n + 1 /\ (\A i \in 1..n : l2[i] = l[i]) /\ l2[n + 1] = v
  BY <1>1, <1>2, <1>3, AppendIs
<1>5. d2 \in Findings /\ Len(d2) = n + 1 /\ (\A i \in 1..n : d2[i] = done[i]) /\ d2[n + 1] = f
  BY <1>1, <1>3, AppendIs
<1>6. {o \in owed : o.recorded < n + 1} = owed
  BY <1>3
<1>7. \A o \in owed : o.recorded \in 0..(n + 1)
  BY <1>3
<1>8. ASSUME NEW i \in 1..(n + 1)
      PROVE  /\ l2[i].rule = d2[i].rule /\ l2[i].key = d2[i].key
             /\ Agree(l2[i].path, d2[i].path, {o \in owed : o.recorded < i})
  <2>1. CASE i \in 1..n
    BY <1>3, <1>4, <1>5, <2>1
  <2>2. CASE i = n + 1
    BY <1>4, <1>5, <1>6, <2>2
  <2> QED  BY <1>2, <2>1, <2>2
<1>9. Recorded(l2, d2, owed)
  BY <1>4, <1>5, <1>7, <1>8 DEF Recorded
<1> QED  BY <1>1, <1>9

\* A plan with its parts.
Planning(real, at, key, leaves, owed, rest) ==
  [real |-> real, at |-> at, key |-> key, leaves |-> leaves, owed |-> owed, rest |-> rest]

\* A plan made of its parts has them.
LEMMA PlanningIs ==
  ASSUME NEW real \in Paths, NEW at \in Paths, NEW key \in BOOLEAN, NEW leaves \in BOOLEAN,
         NEW owed \in SUBSET Owes, NEW rest \in Findings, NEW g,
         g = Planning(real, at, key, leaves, owed, rest)
  PROVE  /\ g \in Plan /\ g.real = real /\ g.at = at /\ g.key = key /\ g.leaves = leaves
         /\ g.owed = owed /\ g.rest = rest
BY DEF Planning, Plan

\* The parts of a plan.
LEMMA PlanIs ==
  ASSUME NEW g \in Plan
  PROVE  /\ g.real \in Paths /\ g.at \in Paths /\ g.key \in BOOLEAN /\ g.leaves \in BOOLEAN
         /\ g.owed \in SUBSET Owes /\ g.rest \in Findings
BY DEF Plan

\* Nothing is left to do.
LEMMA NothingPlanned ==
  ASSUME NEW B, NEW g \in Plan, g.rest = <<>>, g.owed = {}
  PROVE  Stands(B, <<>>, g)
<1>1. PICK e : e = <<>>
  OBVIOUS
<1>2. Len(e) = 0
  BY <1>1
<1>3. PICK G : G = [j \in 0..0 |-> g]
  OBVIOUS
<1>4. G \in [0..0 -> Plan] /\ G[0] = g /\ \A j \in 0..0 : G[j] = g
  BY <1>3
<1>5. Stacked(B, e, G)
  BY <1>2, <1>4 DEF Stacked
<1> QED  BY <1>1, <1>2, <1>4, <1>5 DEF Stands

\* One task more.
LEMMA PushOne ==
  ASSUME NEW B, NEW u, IsSeq(u), NEW h, Stands(B, u, h), NEW t, NEW g \in Plan,
         Level(t, g), Link(B, t, g, h)
  PROVE  IsSeq(Cat(<<t>>, u)) /\ Stands(B, Cat(<<t>>, u), g)
<1>1. PICK s : s = <<t>>
  OBVIOUS
<1>2. IsSeq(s) /\ Len(s) = 1 /\ s[1] = t
  <2>1. s = [i \in 1..1 |-> s[i]]
    BY <1>1
  <2> QED  BY <1>1, <2>1, IndexedIs
<1>3. h \in Plan
  BY StandsIs
<1>4. PICK N : N = [i \in 1..2 |-> IF i = 1 THEN g ELSE h]
  OBVIOUS
<1>5. N \in [1..(Len(s) + 1) -> Plan] /\ N[1] = g /\ N[2] = h
  BY <1>2, <1>3, <1>4
<1>6. \A i \in 1..Len(s) : i = 1
  BY <1>2
<1>7. \A i \in 1..Len(s) : Level(s[i], N[i]) /\ Link(B, s[i], N[i], N[i + 1])
  BY <1>2, <1>5, <1>6
<1>8. \A i \in 1..Len(s) : N[i].owed = h.owed \/ \E l \in i..Len(s) : s[l].op = "subscript"
  <2>1. CASE t.op = "subscript"
    BY <1>2, <1>6, <2>1
  <2>2. CASE t.op # "subscript"
    BY <1>5, <1>6, <2>2 DEF Link
  <2> QED  BY <2>1, <2>2
<1>9. N[Len(s) + 1] = h
  BY <1>2, <1>5
<1>10. Stands(B, Cat(s, u), N[1])
  BY <1>2, <1>5, <1>7, <1>8, <1>9, PushAll
<1>11. IsSeq(Cat(s, u))
  BY <1>2, JoinedIs
<1> QED  BY <1>1, <1>5, <1>10, <1>11
-----------------------------------------------------------------------------
(* What a step may do to the agenda, whatever the task.                    *)

\* There is a plan for the tasks after the first.
LEMMA Popped ==
  ASSUME NEW B, NEW R, NEW s, IsSeq(s), s # <<>>, NEW p, NEW k, NEW l, NEW a, NEW done, NEW g,
         Planned(B, R, s, p, k, l, a, done, g)
  PROVE  \E h \in Plan : Stands(B, Tail(s), h) /\ Level(Head(s), g) /\ Link(B, Head(s), g, h)
<1>1. Stands(B, s, g)
  BY DEF Planned
<1>2. PICK h : Stands(B, Tail(s), h) /\ Level(Head(s), g) /\ Link(B, Head(s), g, h)
  BY <1>1, PopOne
<1>3. PICK u : u = Tail(s)
  OBVIOUS
<1>4. IsSeq(u)
  BY <1>3, TailOf
<1>5. h \in Plan
  BY <1>2, <1>3, <1>4, StandsIs
<1> QED  BY <1>2, <1>5

\* A task that reports nothing more, or that aborts the walk.
LEMMA Ending ==
  ASSUME NEW B, NEW R, NEW s, IsSeq(s), s # <<>>, NEW p, NEW k, NEW l, NEW a, NEW done, NEW g,
         Planned(B, R, s, p, k, l, a, done, g), NEW t, t = Head(s), t.op \notin Cleanup,
         NEW a2, a2 # "none" \/ (a2 = a /\ Says(B, t, k) = <<>>)
  PROVE  \E h : Planned(B, R, Tail(s), p, k, l, a2, done, h)
<1>1. PICK h \in Plan : Stands(B, Tail(s), h) /\ Level(t, g) /\ Link(B, t, g, h)
  BY Popped
<1>2. t.op # "leave" /\ t.op # "keyDone" /\ t.op # "subscript"
  BY DEF Cleanup
<1>3. g.real = p /\ k = g.key
  BY <1>1, <1>2 DEF Planned, Level, Reaches
<1>4. Reaches(p, h) /\ k = h.key /\ h.owed = g.owed
  BY <1>1, <1>2, <1>3 DEF Link
<1>5. Recorded(l, done, h.owed) /\ \E r \in Findings : R = Cat(done, r)
  BY <1>4 DEF Planned
<1>6. ASSUME a2 = "none"
      PROVE  R = Cat(done, h.rest)
  <2>1. a = "none" /\ Says(B, t, k) = <<>>
    BY <1>6
  <2>2. g.at \in Paths /\ h.rest \in Findings
    BY <1>1, PlanIs DEF Level
  <2>3. Below(g.at, Says(B, t, g.key)) = <<>>
    BY <1>3, <2>1, <2>2, BelowNothing
  <2>4. g.rest = h.rest
    BY <1>1, <2>2, <2>3, FindingsCat, NothingIs DEF Link
  <2> QED  BY <2>1, <2>4 DEF Planned
<1> QED  BY <1>1, <1>4, <1>5, <1>6 DEF Planned

\* A task that reports a violation.
LEMMA Finds ==
  ASSUME NEW B, NEW R, NEW s, IsSeq(s), s # <<>>, NEW p, NEW k, NEW l, NEW a, NEW done, NEW g,
         Planned(B, R, s, p, k, l, a, done, g), a = "none",
         NEW t, t = Head(s), t.op \notin Cleanup,
         NEW f \in Finding, Says(B, t, k) = <<f>>, NEW v \in Finding,
         v.rule = f.rule, v.key = f.key,
         Agree(v.path, Cat(g.at, f.path), g.owed), NEW a2
  PROVE  \E done2, h : Planned(B, R, Tail(s), p, k, Append(l, v), a2, done2, h)
<1>1. PICK h \in Plan : Stands(B, Tail(s), h) /\ Level(t, g) /\ Link(B, t, g, h)
  BY Popped
<1>2. t.op # "leave" /\ t.op # "keyDone" /\ t.op # "subscript"
  BY DEF Cleanup
<1>3. g.real = p /\ k = g.key
  BY <1>1, <1>2 DEF Planned, Level, Reaches
<1>4. Reaches(p, h) /\ k = h.key /\ h.owed = g.owed
  BY <1>1, <1>2, <1>3 DEF Link
<1>5. g.at \in Paths /\ h.rest \in Findings
  BY <1>1, PlanIs DEF Level
<1>6. PICK m : m = Moved(g.at, f)
  OBVIOUS
<1>7. m \in Finding /\ m.path = Cat(g.at, f.path) /\ m.rule = f.rule /\ m.key = f.key
  BY <1>5, <1>6, MovedIs
<1>8. PICK one : one = <<m>>
  OBVIOUS
<1>9. one \in Findings /\ Len(one) = 1 /\ one[1] = m
  BY <1>7, <1>8, OneFinding
<1>10. Below(g.at, <<f>>) = one
  <2>1. PICK w : w = <<f>>
    OBVIOUS
  <2>2. w \in Findings /\ Len(w) = 1 /\ w[1] = f
    BY <2>1, OneFinding
  <2>3. PICK b : b = Below(g.at, w)
    OBVIOUS
  <2>4. b \in Findings /\ Len(b) = 1 /\ \A i \in 1..1 : b[i] = Moved(g.at, w[i])
    BY <1>5, <2>2, <2>3, BelowIs
  <2>5. \A i \in 1..1 : i = 1
    OBVIOUS
  <2>6. b = one
    BY <1>6, <1>9, <2>2, <2>4, <2>5, SameFindings
  <2> QED  BY <2>1, <2>3, <2>6
<1>11. g.rest = Cat(one, h.rest)
  BY <1>1, <1>3, <1>10 DEF Link
<1>12. done \in Findings /\ R = Cat(done, g.rest)
  BY DEF Planned, Recorded
<1>13. Append(done, m) = Cat(done, one)
  BY <1>7, <1>8, <1>12, AppendIsConcat DEF Cat, Findings
<1>14. R = Cat(Append(done, m), h.rest)
  BY <1>5, <1>9, <1>11, <1>12, <1>13, FindingsAssociative
<1>15. Recorded(Append(l, v), Append(done, m), h.owed)
  <2>1. Recorded(l, done, h.owed)
    BY <1>4 DEF Planned
  <2>2. Agree(v.path, m.path, h.owed) /\ v.rule = m.rule /\ v.key = m.key
    BY <1>4, <1>7
  <2> QED  BY <1>7, <2>1, <2>2, RecordedMore
<1> QED  BY <1>1, <1>4, <1>5, <1>14, <1>15 DEF Planned

\* What is planned next may have another real path, and owe more.
LEMMA Replaces ==
  ASSUME NEW B, NEW R, NEW s, NEW p, NEW k, NEW l, NEW a, NEW done, NEW g,
         Planned(B, R, s, p, k, l, a, done, g),
         NEW s2, NEW g2, Stands(B, s2, g2), g2.rest = g.rest, NEW p2, Reaches(p2, g2),
         NEW k2, k2 = g2.key, Recorded(l, done, g2.owed)
  PROVE  Planned(B, R, s2, p2, k2, l, a, done, g2)
BY DEF Planned

-----------------------------------------------------------------------------
(* A task replaced by the tasks of its parts, at the same place.           *)

\* The tasks u report the parts ps, where g is planned.
Fits(g, x) ==
  /\ x.op \in Inner /\ Shape(x)
  /\ g.key => x.op \in {"check", "value"} /\ (x.op = "value" => x.value \notin Nodes)
\* The tasks u are the parts of a task: each says its part ps[i], where the task is.
Split(B, g, u, ps) ==
  /\ IsSeq(u) /\ ps \in Seq(Findings) /\ Len(u) = Len(ps)
  /\ \A i \in 1..Len(u) : Fits(g, u[i]) /\ Says(B, u[i], g.key) = ps[i]

\* The parts of two splits together.
LEMMA SplitBoth ==
  ASSUME NEW B, NEW g, NEW u1, NEW p1, Split(B, g, u1, p1), NEW u2, NEW p2, Split(B, g, u2, p2)
  PROVE  Split(B, g, Cat(u1, u2), Cat(p1, p2))
<1>1. PICK u, q : u = Cat(u1, u2) /\ q = Cat(p1, p2)
  OBVIOUS
<1>2. PICK k, m : k = Len(u1) /\ m = Len(u2)
  OBVIOUS
<1>3. /\ IsSeq(u) /\ Len(u) = k + m /\ k \in Nat /\ m \in Nat
      /\ \A i \in 1..k : u[i] = u1[i]
      /\ \A i \in 1..m : u[k + i] = u2[i]
  <2>1. IsSeq(u1) /\ IsSeq(u2)
    BY DEF Split
  <2> QED  BY <1>1, <1>2, <2>1, JoinedIs
<1>4. /\ p1 \in Seq(Findings) /\ p2 \in Seq(Findings) /\ Len(p1) = k /\ Len(p2) = m
  BY <1>2 DEF Split
<1>5. /\ q \in Seq(Findings) /\ Len(q) = k + m
      /\ \A i \in 1..k : q[i] = p1[i]
      /\ \A i \in (k + 1)..(k + m) : q[i] = p2[i - k]
  BY <1>1, <1>4, CatIs, CatMembers
<1>6. ASSUME NEW i \in 1..(k + m)
      PROVE  Fits(g, u[i]) /\ Says(B, u[i], g.key) = q[i]
  <2>1. CASE i \in 1..k
    <3>1. Fits(g, u1[i]) /\ Says(B, u1[i], g.key) = p1[i]
      BY <1>2, <2>1 DEF Split
    <3> QED  BY <1>3, <1>5, <2>1, <3>1
  <2>2. CASE i \notin 1..k
    <3>1. PICK j : j = i - k
      OBVIOUS
    <3>2. j \in 1..m /\ i = k + j /\ i \in (k + 1)..(k + m)
      BY <1>3, <2>2, <3>1
    <3>3. Fits(g, u2[j]) /\ Says(B, u2[j], g.key) = p2[j]
      BY <1>2, <3>2 DEF Split
    <3>4. u[i] = u2[j] /\ q[i] = p2[j]
      BY <1>3, <1>5, <3>1, <3>2
    <3> QED  BY <3>3, <3>4
  <2> QED  BY <2>1, <2>2
<1>7. Split(B, g, u, q)
  BY <1>3, <1>5, <1>6 DEF Split
<1> QED  BY <1>1, <1>7

\* No tasks for no parts.
LEMMA SplitNone ==
  ASSUME NEW B, NEW g
  PROVE  Split(B, g, <<>>, <<>>)
<1>1. PICK e : e = <<>>
  OBVIOUS
<1>2. e = [i \in 1..0 |-> e[i]] /\ Len(e) = 0 /\ e \in Seq(Findings)
  BY <1>1
<1>3. IsSeq(e)
  BY <1>2, SeqIs
<1>4. Split(B, g, e, e)
  BY <1>2, <1>3 DEF Split
<1> QED  BY <1>1, <1>4

\* One task for each part.
LEMMA SplitEach ==
  ASSUME NEW B, NEW g, NEW S, NEW r \in Seq(S), NEW u, NEW ps, ps \in Seq(Findings),
         u = [i \in DOMAIN r |-> u[i]], ps = [i \in DOMAIN r |-> ps[i]],
         \A i \in DOMAIN r : Fits(g, u[i]) /\ Says(B, u[i], g.key) = ps[i]
  PROVE  Split(B, g, u, ps)
<1>1. PICK n : n = Len(r)
  OBVIOUS
<1>2. n \in Nat /\ DOMAIN r = 1..n
  BY <1>1
<1>3. IsSeq(u) /\ Len(u) = n
  <2>1. u = [i \in 1..n |-> u[i]]
    BY <1>2
  <2> QED  BY <1>2, <2>1, IndexedIs
<1>4. DOMAIN ps = 1..n /\ Len(ps) = n
  BY <1>2
<1> QED  BY <1>2, <1>3, <1>4 DEF Split

\* A task may be replaced by tasks that say its parts.
LEMMA Spread ==
  ASSUME NEW B, NEW u, IsSeq(u), NEW h \in Plan, Stands(B, u, h), NEW t, NEW g,
         Level(t, g), Link(B, t, g, h), t.op \in Inner,
         NEW w, NEW ps, Split(B, g, w, ps), Says(B, t, g.key) = FlattenSeq(ps)
  PROVE  \E g2 : /\ Stands(B, Cat(w, u), g2) /\ g2.rest = g.rest /\ g2.owed = g.owed
                 /\ g2.key = g.key /\ Reaches(g.real, g2)
<1>1. PICK n : n = Len(w)
  OBVIOUS
<1>2. n \in Nat /\ IsSeq(w) /\ ps \in Seq(Findings) /\ Len(ps) = n
  BY <1>1, SeqsAre DEF Split
<1>3. g \in Plan /\ g.at \in Paths /\ h.rest \in Findings /\ g.leaves = FALSE
      /\ Agree(g.real, g.at, g.owed)
  BY PlanIs DEF Level, Inner
<1>4. /\ g.rest = Cat(Below(g.at, Says(B, t, g.key)), h.rest) /\ g.owed = h.owed
      /\ h.key = g.key /\ Reaches(g.real, h)
  BY DEF Link, Inner
<1>5. PICK L : L = Left(ps)
  OBVIOUS
<1>6. /\ L[1] = Says(B, t, g.key) /\ L[n + 1] = <<>>
      /\ \A i \in 1..(n + 1) : L[i] \in Findings
      /\ \A i \in 1..n : L[i] = Cat(ps[i], L[i + 1])
  BY <1>2, <1>5, LeftIs
<1>7. PICK F : F = [i \in 1..(n + 1) |-> Cat(Below(g.at, L[i]), h.rest)]
  OBVIOUS
<1>8. \A i \in 1..(n + 1) : F[i] = Cat(Below(g.at, L[i]), h.rest) /\ F[i] \in Findings
  BY <1>3, <1>6, <1>7, BelowIs, FindingsCat
<1>9. F[1] = g.rest /\ F[n + 1] = h.rest
  <2>1. 1 \in 1..(n + 1) /\ n + 1 \in 1..(n + 1)
    BY <1>2
  <2>2. Below(g.at, L[n + 1]) = <<>>
    BY <1>3, <1>6, BelowNothing
  <2>3. F[n + 1] = Cat(<<>>, h.rest)
    BY <1>8, <2>1, <2>2
  <2>4. Cat(<<>>, h.rest) = h.rest
    BY <1>3, FindingsCat, NothingIs
  <2>5. F[1] = g.rest
    BY <1>4, <1>6, <1>8, <2>1
  <2> QED  BY <2>3, <2>4, <2>5
<1>10. ASSUME NEW i \in 1..n
       PROVE  F[i] = Cat(Below(g.at, ps[i]), F[i + 1])
  <2>1. i \in 1..(n + 1) /\ i + 1 \in 1..(n + 1) /\ ps[i] \in Findings
    BY <1>2
  <2>2. PICK x, y : x = Below(g.at, ps[i]) /\ y = Below(g.at, L[i + 1])
    OBVIOUS
  <2>3. x \in Findings /\ y \in Findings
    BY <1>3, <1>6, <2>1, <2>2, BelowIs
  <2>4. Below(g.at, L[i]) = Cat(x, y)
    BY <1>3, <1>6, <2>1, <2>2, BelowCat
  <2>5. F[i] = Cat(Cat(x, y), h.rest) /\ F[i + 1] = Cat(y, h.rest)
    BY <1>8, <2>1, <2>2, <2>4
  <2> QED  BY <1>3, <2>2, <2>3, <2>5, FindingsAssociative
<1>11. PICK N : N = [i \in 1..(n + 1) |->
                       IF i = n + 1 THEN h
                       ELSE Planning(g.real, g.at, g.key, FALSE, g.owed, F[i])]
  OBVIOUS
<1>12. ASSUME NEW i \in 1..n
       PROVE  /\ N[i] \in Plan /\ N[i].real = g.real /\ N[i].at = g.at /\ N[i].key = g.key
              /\ N[i].leaves = FALSE /\ N[i].owed = g.owed /\ N[i].rest = F[i]
  <2>1. i \in 1..(n + 1) /\ i # n + 1
    BY <1>2
  <2>2. N[i] = Planning(g.real, g.at, g.key, FALSE, g.owed, F[i])
    BY <1>11, <2>1
  <2>3. F[i] \in Findings
    BY <1>8, <2>1
  <2>4. PICK x : x = N[i]
    OBVIOUS
  <2>5. g.real \in Paths /\ g.key \in BOOLEAN /\ g.owed \in SUBSET Owes
    BY <1>3, PlanIs
  <2>6. x = Planning(g.real, g.at, g.key, g.leaves, g.owed, F[i]) /\ g.leaves \in BOOLEAN
    BY <1>3, <2>2, <2>4
  <2>7. /\ x \in Plan /\ x.real = g.real /\ x.at = g.at /\ x.key = g.key
        /\ x.leaves = g.leaves /\ x.owed = g.owed /\ x.rest = F[i]
    BY <1>3, <2>3, <2>5, <2>6, PlanningIs
  <2> QED  BY <1>3, <2>4, <2>7
<1>13. N[n + 1] = h
  <2>1. n + 1 \in 1..(n + 1)
    BY <1>2
  <2> QED  BY <1>11, <2>1
<1>14. N \in [1..(n + 1) -> Plan]
  <2>1. \A i \in 1..(n + 1) : i \in 1..n \/ i = n + 1
    BY <1>2
  <2>2. \A i \in 1..(n + 1) : N[i] \in Plan
    BY <1>12, <1>13, <2>1
  <2> QED  BY <1>11, <2>2
<1>15. ASSUME NEW i \in 1..n
       PROVE  Level(w[i], N[i]) /\ Link(B, w[i], N[i], N[i + 1])
  <2>1. Fits(g, w[i]) /\ Says(B, w[i], g.key) = ps[i]
    BY <1>1 DEF Split
  <2>2. w[i].op \notin {"leave", "keyDone", "subscript", "items", "entries"}
    BY <2>1 DEF Fits, Inner
  <2>3. Level(w[i], N[i])
    BY <1>3, <1>12, <2>1, <2>2 DEF Level, Fits
  <2>4. /\ N[i + 1].rest = F[i + 1] /\ N[i + 1].owed = g.owed /\ N[i + 1].key = g.key
        /\ Reaches(g.real, N[i + 1])
    <3>1. CASE i = n
      BY <1>4, <1>9, <1>13, <3>1
    <3>2. CASE i # n
      <4>1. i + 1 \in 1..n
        BY <1>2, <3>2
      <4> QED  BY <1>12, <4>1 DEF Reaches
    <3> QED  BY <3>1, <3>2
  <2>5. PICK x, y, q, z : x = N[i] /\ y = N[i + 1] /\ q = w[i] /\ z = ps[i]
    OBVIOUS
  <2>6. /\ x.real = g.real /\ x.at = g.at /\ x.key = g.key /\ x.owed = g.owed /\ x.rest = F[i]
        /\ Says(B, q, g.key) = z
    BY <1>12, <2>1, <2>5
  <2>7. x.rest = Cat(Below(x.at, Says(B, q, x.key)), y.rest)
    BY <1>10, <2>4, <2>5, <2>6
  <2>8. /\ y.owed = x.owed /\ y.key = x.key /\ Reaches(x.real, y)
        /\ q.op \notin {"leave", "keyDone", "subscript", "items", "entries"}
    BY <2>2, <2>4, <2>5, <2>6
  <2>9. Link(B, q, x, y)
    BY <2>7, <2>8 DEF Link
  <2>10. Link(B, w[i], N[i], N[i + 1])
    BY <2>5, <2>9
  <2> QED  BY <2>3, <2>10
<1>16. \A i \in 1..n : N[i].owed = h.owed
  BY <1>4, <1>12
<1>17. Stands(B, Cat(w, u), N[1])
  BY <1>1, <1>2, <1>13, <1>14, <1>15, <1>16, PushAll
<1>18. /\ N[1].rest = g.rest /\ N[1].owed = g.owed /\ N[1].key = g.key /\ Reaches(g.real, N[1])
  <2>1. CASE n = 0
    BY <1>4, <1>9, <1>13, <2>1
  <2>2. CASE n # 0
    <3>1. 1 \in 1..n
      BY <1>2, <2>2
    <3> QED  BY <1>9, <1>12, <3>1 DEF Reaches
  <2> QED  BY <2>1, <2>2
<1> QED  BY <1>17, <1>18
-----------------------------------------------------------------------------
(* What a step must keep, and the steps that go on to the next task.       *)

\* The walk stands for a plan, and after the step it still does.
Now(done, g) == Planned(Found, Report, todo, path, forKey, list, abort, done, g)
Goes == \E done, g : Planned(Found, Report, todo', path', forKey', list', abort', done, g)

\* Some tasks come first, then those that were after the one done.
LEMMA ThenIs ==
  ASSUME TypeOK, todo # <<>>, NEW w, Then(w)
  PROVE  /\ todo' = Cat(w, Tail(todo))
         /\ w = <<>> => todo' = Tail(todo)
<1>1. todo' = Cat(w, Tail(todo))
  BY DEF Then, Cat
<1>2. PICK u : u = Tail(todo)
  OBVIOUS
<1>3. IsSeq(u)
  BY <1>2, TailOf DEF TypeOK
<1>4. ASSUME w = <<>> PROVE Cat(w, u) = u
  <2> DEFINE S == {u[i] : i \in DOMAIN u}
  <2>1. u \in Seq(S)
    BY <1>3 DEF IsSeq
  <2> HIDE DEF S
  <2>2. Cat(<<>>, u) = u
    BY <2>1, CatIs
  <2> QED  BY <1>4, <2>2
<1> QED  BY <1>1, <1>2, <1>4

\* A step that ends its task, which has nothing to report, or the walk.
LEMMA StepEnding ==
  ASSUME TypeOK, todo # <<>>, NEW done, NEW g, Now(done, g), task.op \notin Cleanup,
         Then(<<>>), UNCHANGED <<path, forKey, list>>,
         abort' # "none" \/ (abort' = abort /\ Says(Found, task, forKey) = <<>>)
  PROVE  Goes
<1>1. PICK e : e = <<>>
  OBVIOUS
<1>2. todo' = Tail(todo)
  BY <1>1, ThenIs
<1>3. IsSeq(todo) /\ task = Head(todo)
  BY DEF TypeOK, task
<1>4. Planned(Found, Report, todo, path, forKey, list, abort, done, g)
  BY DEF Now
<1>5. PICK a2 : a2 = abort'
  OBVIOUS
<1>6. \E h : Planned(Found, Report, Tail(todo), path, forKey, list, a2, done, h)
  BY <1>3, <1>4, <1>5, Ending
<1> QED  BY <1>2, <1>5, <1>6 DEF Goes

\* A step that reports what its task says.
LEMMA StepFinding ==
  ASSUME TypeOK, todo # <<>>, abort = "none", NEW done, NEW g, Now(done, g),
         task.op \notin Cleanup, Then(<<>>), UNCHANGED <<path, forKey>>,
         NEW f \in Finding, Says(Found, task, forKey) = <<f>>, f.key = forKey,
         NEW where \in Paths, Agree(where, Cat(g.at, f.path), g.owed),
         NEW rule, rule = f.rule, Record(rule, where)
  PROVE  Goes
<1>1. PICK e : e = <<>>
  OBVIOUS
<1>2. todo' = Tail(todo)
  BY <1>1, ThenIs
<1>3. IsSeq(todo) /\ task = Head(todo)
  BY DEF TypeOK, task
<1>4. Planned(Found, Report, todo, path, forKey, list, abort, done, g)
  BY DEF Now
<1>5. PICK a2 : a2 = abort'
  OBVIOUS
<1>6. PICK v : v = [path |-> where, rule |-> rule, key |-> forKey]
  OBVIOUS
<1>7. list' = Append(list, v)
  BY <1>6 DEF Record
<1>8. v \in Finding /\ v.rule = f.rule /\ v.key = f.key /\ v.path = where
  BY <1>6, FindingParts DEF Finding
<1>9. \E done2, h : Planned(Found, Report, Tail(todo), path, forKey, Append(list, v), a2, done2, h)
  <2>1. PICK t : t = task
    OBVIOUS
  <2>2. PICK s : s = todo
    OBVIOUS
  <2>3. IsSeq(s) /\ s # <<>> /\ t = Head(s) /\ t.op \notin Cleanup
    BY <1>3, <2>1, <2>2
  <2>4. Says(Found, t, forKey) = <<f>>
    BY <2>1
  <2>5. Agree(v.path, Cat(g.at, f.path), g.owed)
    BY <1>8
  <2>6. Planned(Found, Report, s, path, forKey, list, abort, done, g)
    BY <1>4, <2>2
  <2>7. \E done2, h : Planned(Found, Report, Tail(s), path, forKey, Append(list, v), a2, done2, h)
    BY <1>8, <2>3, <2>4, <2>5, <2>6, Finds
  <2> QED  BY <2>2, <2>7
<1> QED  BY <1>2, <1>5, <1>7, <1>9 DEF Goes

\* A step that replaces its task by the tasks of its parts.
LEMMA StepSpread ==
  ASSUME TypeOK, todo # <<>>, NEW done, NEW g, Now(done, g), task.op \in {"message", "value"},
         NEW w, NEW ps, Split(Found, g, w, ps), Says(Found, task, forKey) = FlattenSeq(ps),
         Then(w), UNCHANGED <<path, forKey, list, abort>>
  PROVE  Goes
<1>1. todo' = Cat(w, Tail(todo))
  BY ThenIs
<1>2. IsSeq(todo) /\ task = Head(todo)
  BY DEF TypeOK, task
<1>3. Planned(Found, Report, todo, path, forKey, list, abort, done, g)
  BY DEF Now
<1>4. PICK h \in Plan : Stands(Found, Tail(todo), h) /\ Level(task, g) /\ Link(Found, task, g, h)
  BY <1>2, <1>3, Popped
<1>5. PICK u, t : u = Tail(todo) /\ t = task
  OBVIOUS
<1>6. IsSeq(u)
  BY <1>2, <1>5, TailOf
<1>7. t.op \in Inner
  BY <1>5 DEF Inner
<1>8. forKey = g.key /\ Reaches(path, g)
  BY <1>3 DEF Planned
<1>9. g.real = path
  BY <1>4, <1>5, <1>7, <1>8 DEF Level, Reaches, Inner
<1>10. Says(Found, t, g.key) = FlattenSeq(ps)
  BY <1>5, <1>8
<1>11. PICK g2 : /\ Stands(Found, Cat(w, u), g2) /\ g2.rest = g.rest /\ g2.owed = g.owed
                 /\ g2.key = g.key /\ Reaches(g.real, g2)
  BY <1>4, <1>5, <1>6, <1>7, <1>10, Spread
<1>12. Recorded(list, done, g2.owed)
  BY <1>3, <1>11 DEF Planned
<1>13. PICK s2 : s2 = Cat(w, u)
  OBVIOUS
<1>14. Planned(Found, Report, s2, path, forKey, list, abort, done, g2)
  BY <1>3, <1>8, <1>9, <1>11, <1>12, <1>13, Replaces
<1> QED  BY <1>1, <1>5, <1>13, <1>14 DEF Goes
-----------------------------------------------------------------------------
(* Messages and values.                                                    *)

\* The task at hand, and what is planned for it.
LEMMA AtHand ==
  ASSUME TypeOK, todo # <<>>, NEW done, NEW g, Now(done, g)
  PROVE  /\ g \in Plan /\ Level(task, g) /\ Reaches(path, g) /\ forKey = g.key
         /\ g.at \in Paths /\ IsTask(task)
<1>1. IsSeq(todo) /\ task = Head(todo)
  BY DEF TypeOK, task
<1>2. Planned(Found, Report, todo, path, forKey, list, abort, done, g)
  BY DEF Now
<1>3. Level(task, g)
  BY <1>1, <1>2, Popped
<1> QED  BY <1>2, <1>3, HeadTask, PlanIs DEF Planned, Level

\* One task for each rule.
LEMMA ChecksSplit ==
  ASSUME NEW B, NEW g \in Plan, NEW r \in Seq(STRING), NEW x, NEW frame,
         NEW u, u = [i \in DOMAIN r |-> CheckOf(r[i], x, frame)],
         NEW ps, ps = [i \in DOMAIN r |-> OfRule(r[i], x, g.key)]
  PROVE  Split(B, g, u, ps)
<1>1. \A i \in DOMAIN r : r[i] \in STRING
  BY MemberIs
<1>2. g.key \in BOOLEAN
  BY PlanIs
<1>3. ASSUME NEW i \in DOMAIN r
      PROVE  Fits(g, u[i]) /\ Says(B, u[i], g.key) = ps[i] /\ ps[i] \in Findings
  <2>1. PICK t : t = u[i]
    OBVIOUS
  <2>2. t.op = "check" /\ t.rule = r[i] /\ t.value = x
    BY <2>1 DEF CheckOf
  <2>3. Fits(g, t)
    BY <1>1, <2>2 DEF Fits, Shape, Inner
  <2>4. Says(B, t, g.key) = OfRule(r[i], x, g.key)
    BY <2>2 DEF Says
  <2>5. OfRule(r[i], x, g.key) \in Findings
    BY <1>1, <1>2, OfRuleIs
  <2> QED  BY <2>1, <2>3, <2>4, <2>5
<1>4. u = [i \in DOMAIN r |-> u[i]] /\ ps = [i \in DOMAIN r |-> ps[i]]
  OBVIOUS
<1>5. ps \in Seq(Findings)
  BY <1>3, <1>4, MappedParts
<1>6. PICK S : S = STRING
  OBVIOUS
<1>7. r \in Seq(S) /\ \A i \in DOMAIN r : Fits(g, u[i]) /\ Says(B, u[i], g.key) = ps[i]
  BY <1>3, <1>6
<1> QED  BY <1>4, <1>5, <1>7, SplitEach

\* One task for each oneof, for each required oneof and for each field.
LEMMA OneofsSplit ==
  ASSUME NEW B, NEW g \in Plan, ~g.key, NEW S, NEW r \in Seq(S), NEW n,
         NEW u, u = [i \in DOMAIN r |-> [op |-> "oneof", node |-> n, oneof |-> r[i]]],
         NEW ps, ps = [i \in DOMAIN r |-> OfOneof(n, r[i])]
  PROVE  Split(B, g, u, ps)
<1>1. ASSUME NEW i \in DOMAIN r
      PROVE  Fits(g, u[i]) /\ Says(B, u[i], g.key) = ps[i] /\ ps[i] \in Findings
  <2>1. PICK t : t = u[i]
    OBVIOUS
  <2>2. t.op = "oneof" /\ t.node = n /\ t.oneof = r[i]
    BY <2>1
  <2>3. Fits(g, t)
    BY <2>2 DEF Fits, Shape, Inner
  <2>4. Says(B, t, g.key) = OfOneof(n, r[i])
    BY <2>2 DEF Says
  <2>5. OfOneof(n, r[i]) \in Findings
    BY OfOneofIs
  <2> QED  BY <2>1, <2>3, <2>4, <2>5
<1>2. u = [i \in DOMAIN r |-> u[i]] /\ ps = [i \in DOMAIN r |-> ps[i]]
  OBVIOUS
<1>3. ps \in Seq(Findings)
  BY <1>1, <1>2, MappedParts
<1> QED  BY <1>1, <1>2, <1>3, SplitEach

\* The required oneofs of a message are tasks that say their parts.
LEMMA RequiredSplit ==
  ASSUME NEW B, NEW g \in Plan, ~g.key, NEW S, NEW r \in Seq(S), NEW n,
         \A i \in DOMAIN r : r[i].name \in STRING,
         NEW u, u = [i \in DOMAIN r |-> [op |-> "required", node |-> n, oneof |-> r[i]]],
         NEW ps, ps = [i \in DOMAIN r |-> OfRequired(n, r[i])]
  PROVE  Split(B, g, u, ps)
<1>1. ASSUME NEW i \in DOMAIN r
      PROVE  Fits(g, u[i]) /\ Says(B, u[i], g.key) = ps[i] /\ ps[i] \in Findings
  <2>1. PICK t : t = u[i]
    OBVIOUS
  <2>2. t.op = "required" /\ t.node = n /\ t.oneof = r[i]
    BY <2>1
  <2>3. Fits(g, t)
    BY <2>2 DEF Fits, Shape, Inner
  <2>4. Says(B, t, g.key) = OfRequired(n, r[i])
    BY <2>2 DEF Says
  <2>5. OfRequired(n, r[i]) \in Findings
    BY OfRequiredIs
  <2> QED  BY <2>1, <2>3, <2>4, <2>5
<1>2. u = [i \in DOMAIN r |-> u[i]] /\ ps = [i \in DOMAIN r |-> ps[i]]
  OBVIOUS
<1>3. ps \in Seq(Findings)
  BY <1>1, <1>2, MappedParts
<1> QED  BY <1>1, <1>2, <1>3, SplitEach

\* The fields of a message are tasks that say their parts.
LEMMA FieldsSplit ==
  ASSUME NEW B \in Reports, NEW g \in Plan, ~g.key, NEW S, NEW r \in Seq(S), NEW n,
         \A i \in DOMAIN r : Fitting(r[i], content[n][r[i].field]),
         NEW u, u = [i \in DOMAIN r |-> [op |-> "field", node |-> n, rules |-> r[i]]],
         NEW ps, ps = [i \in DOMAIN r |-> OfField(B, n, r[i])]
  PROVE  Split(B, g, u, ps)
<1>1. ASSUME NEW i \in DOMAIN r
      PROVE  Fits(g, u[i]) /\ Says(B, u[i], g.key) = ps[i] /\ ps[i] \in Findings
  <2>1. PICK t : t = u[i]
    OBVIOUS
  <2>2. t.op = "field" /\ t.node = n /\ t.rules = r[i]
    BY <2>1
  <2>3. Fits(g, t)
    BY <2>2 DEF Fits, Shape, Inner
  <2>4. Says(B, t, g.key) = OfField(B, n, r[i])
    BY <2>2 DEF Says
  <2>5. OfField(B, n, r[i]) \in Findings
    BY OfFieldIs
  <2> QED  BY <2>1, <2>3, <2>4, <2>5
<1>2. u = [i \in DOMAIN r |-> u[i]] /\ ps = [i \in DOMAIN r |-> ps[i]]
  OBVIOUS
<1>3. ps \in Seq(Findings)
  BY <1>1, <1>2, MappedParts
<1> QED  BY <1>1, <1>2, <1>3, SplitEach

\* A message, if there is one.
LEMMA InsideSplit ==
  ASSUME content \in Messages, NEW g \in Plan, NEW x, g.key => x \notin Nodes,
         NEW u, u = IF x \in Nodes THEN <<[op |-> "message", node |-> x]>> ELSE <<>>,
         NEW ps, ps = If(x \in Nodes, <<Found[x]>>)
  PROVE  Split(Found, g, u, ps)
<1>1. CASE x \notin Nodes
  <2>1. u = <<>> /\ ps = <<>>
    BY <1>1 DEF If
  <2> QED  BY <2>1, SplitNone
<1>2. CASE x \in Nodes
  <2>1. PICK t : t = [op |-> "message", node |-> x]
    OBVIOUS
  <2>2. t.op = "message" /\ t.node = x
    BY <2>1
  <2>3. u = [i \in 1..1 |-> u[i]] /\ u[1] = t
    BY <1>2, <2>1
  <2>4. IsSeq(u) /\ Len(u) = 1
    BY <2>3, IndexedIs
  <2>5. Found[x] \in Findings /\ Found[x] = OfMessage(Found, x)
    BY <1>2, FoundIs DEF Reports
  <2>6. ps \in Seq(Findings) /\ Len(ps) = 1 /\ ps[1] = Found[x]
    BY <1>2, <2>5 DEF If
  <2>7. Says(Found, t, g.key) = OfMessage(Found, x)
    BY <2>2 DEF Says
  <2>8. Fits(g, t)
    BY <1>2, <2>2 DEF Fits, Shape, Inner
  <2>9. \A i \in 1..Len(u) : i = 1
    BY <2>4
  <2>10. \A i \in 1..Len(u) : Fits(g, u[i]) /\ Says(Found, u[i], g.key) = ps[i]
    BY <2>3, <2>5, <2>6, <2>7, <2>8, <2>9
  <2> QED  BY <2>4, <2>6, <2>10 DEF Split
<1> QED  BY <1>1, <1>2

\* A value is replaced by its rules and its message.
LEMMA ValueStep ==
  ASSUME TypeOK, NEW done, NEW g, Now(done, g), Value
  PROVE  Goes
<1> DEFINE r == task.rules
           rules == r.custom \o r.checks \o r.predefined
           w1 == [i \in DOMAIN rules |-> CheckOf(rules[i], task.value, task.frame)]
           w2 == IF task.value \in Nodes THEN <<[op |-> "message", node |-> task.value]>> ELSE <<>>
           p1 == [i \in DOMAIN rules |-> OfRule(rules[i], task.value, g.key)]
           p2 == If(task.value \in Nodes, <<Found[task.value]>>)
<1>1. todo # <<>> /\ task.op = "value" /\ task.op \in {"message", "value"}
  BY DEF Value, Doing, task
<1>2. g \in Plan /\ Level(task, g) /\ IsTask(task) /\ forKey = g.key
  BY <1>1, AtHand
<1>3. rules \in Seq(STRING)
  BY <1>1, <1>2, ValidatorIs DEF IsTask
<1>4. g.key => task.value \notin Nodes
  BY <1>1, <1>2 DEF Level
<1>5. Split(Found, g, w1, p1)
  <2> HIDE DEF rules
  <2>1. PICK u, ps : u = w1 /\ ps = p1
    OBVIOUS
  <2>2. Split(Found, g, u, ps)
    BY <1>2, <1>3, <2>1, ChecksSplit
  <2> QED  BY <2>1, <2>2
<1>6. Split(Found, g, w2, p2)
  <2>1. PICK u, ps, x : u = w2 /\ ps = p2 /\ x = task.value
    OBVIOUS
  <2>2. content \in Messages
    BY DEF TypeOK
  <2>3. Split(Found, g, u, ps)
    BY <1>2, <1>4, <2>1, <2>2, InsideSplit
  <2> QED  BY <2>1, <2>3
<1>7. Then(w1 \o w2) /\ UNCHANGED <<path, forKey, list, abort>>
  BY DEF Value
<1>8. ValueParts(Found, r, task.value, g.key) = p1 \o p2
  BY DEF ValueParts
<1>9. Says(Found, task, g.key) = FlattenSeq(ValueParts(Found, r, task.value, g.key))
  BY <1>1 DEF Says, OfValue
<1> HIDE DEF w1, w2, p1, p2
<1>10. PICK w, ps : w = Cat(w1, w2) /\ ps = Cat(p1, p2)
  OBVIOUS
<1>11. Split(Found, g, w, ps)
  BY <1>5, <1>6, <1>10, SplitBoth
<1>12. Then(w)
  BY <1>7, <1>10 DEF Cat
<1>13. Says(Found, task, forKey) = FlattenSeq(ps)
  BY <1>2, <1>8, <1>9, <1>10 DEF Cat
<1> QED  BY <1>1, <1>7, <1>11, <1>12, <1>13, StepSpread
\* A message is replaced by its rules, oneofs and fields.
LEMMA MessageStep ==
  ASSUME TypeOK, NEW done, NEW g, Now(done, g), Message
  PROVE  Goes
<1> DEFINE n == task.node
           r == Compiled[TypeOf[n]]
           w1 == [i \in DOMAIN r.cel |-> CheckOf(r.cel[i], n, n)]
           w2 == [i \in DOMAIN r.oneofs |-> [op |-> "oneof", node |-> n, oneof |-> r.oneofs[i]]]
           w3 == [i \in DOMAIN r.required |->
                    [op |-> "required", node |-> n, oneof |-> r.required[i]]]
           w4 == [i \in DOMAIN r.fields |-> [op |-> "field", node |-> n, rules |-> r.fields[i]]]
           p1 == [i \in DOMAIN r.cel |-> OfRule(r.cel[i], n, FALSE)]
           p2 == [i \in DOMAIN r.oneofs |-> OfOneof(n, r.oneofs[i])]
           p3 == [i \in DOMAIN r.required |-> OfRequired(n, r.required[i])]
           p4 == [i \in DOMAIN r.fields |-> OfField(Found, n, r.fields[i])]
<1>1. todo # <<>> /\ task.op = "message" /\ task.op \in {"message", "value"}
  BY DEF Message, Doing, task
<1>2. g \in Plan /\ Level(task, g) /\ IsTask(task) /\ forKey = g.key
  BY <1>1, AtHand
<1>3. n \in Nodes /\ content \in Messages
  BY <1>1, <1>2 DEF IsTask, TypeOK
<1>4. ~g.key
  BY <1>1, <1>2 DEF Level
<1>5. /\ r.cel \in Seq(STRING) /\ r.fields \in Seq(FieldValidator)
      /\ r.oneofs \in Seq([fields : Seq(STRING), required : BOOLEAN])
      /\ r.required \in Seq([name : STRING, members : SUBSET STRING])
  BY <1>3, RulesOf DEF MessageValidator
<1>6. Split(Found, g, w1, p1)
  <2>1. PICK u, ps : u = w1 /\ ps = [i \in DOMAIN r.cel |-> OfRule(r.cel[i], n, g.key)]
    OBVIOUS
  <2>2. Split(Found, g, u, ps)
    <3> HIDE DEF r, n
    <3> QED  BY <1>2, <1>5, <2>1, ChecksSplit
  <2>3. g.key = FALSE
    BY <1>2, <1>4, PlanIs
  <2>4. ps = p1
    BY <2>1, <2>3
  <2> QED  BY <2>1, <2>2, <2>4
<1>7. Split(Found, g, w2, p2)
  <2>1. PICK u, ps : u = w2 /\ ps = p2
    OBVIOUS
  <2>2. Split(Found, g, u, ps)
    <3> HIDE DEF r, n
    <3> QED  BY <1>2, <1>4, <1>5, <2>1, OneofsSplit
  <2> QED  BY <2>1, <2>2
<1>8. Split(Found, g, w3, p3)
  <2>1. PICK u, ps : u = w3 /\ ps = p3
    OBVIOUS
  <2>2. \A i \in DOMAIN r.required : r.required[i].name \in STRING
    <3> HIDE DEF r
    <3>1. \A i \in DOMAIN r.required :
            r.required[i] \in [name : STRING, members : SUBSET STRING]
      BY <1>5, MemberIs
    <3> QED  BY <3>1
  <2>3. Split(Found, g, u, ps)
    <3> HIDE DEF r, n
    <3> QED  BY <1>2, <1>4, <1>5, <2>1, <2>2, RequiredSplit
  <2> QED  BY <2>1, <2>3
<1>9. Split(Found, g, w4, p4)
  <2>1. PICK u, ps : u = w4 /\ ps = p4
    OBVIOUS
  <2>2. \A i \in DOMAIN r.fields : Fitting(r.fields[i], content[n][r.fields[i].field])
    <3> HIDE DEF n
    <3> QED  BY <1>3, FieldsFit
  <2>3. Found \in Reports
    BY <1>3, FoundIs
  <2>4. Split(Found, g, u, ps)
    <3> HIDE DEF r, n
    <3> QED  BY <1>2, <1>4, <1>5, <2>1, <2>2, <2>3, FieldsSplit
  <2> QED  BY <2>1, <2>4
<1>10. Then(w1 \o w2 \o w3 \o w4) /\ UNCHANGED <<path, forKey, list, abort>>
  BY DEF Message
<1>11. MessageParts(Found, n) = p1 \o p2 \o p3 \o p4
  BY DEF MessageParts
<1>12. Says(Found, task, forKey) = FlattenSeq(MessageParts(Found, n))
  BY <1>1 DEF Says, OfMessage
<1> HIDE DEF w1, w2, w3, w4, p1, p2, p3, p4
<1>13. PICK w, ps : w = Cat(Cat(Cat(w1, w2), w3), w4) /\ ps = Cat(Cat(Cat(p1, p2), p3), p4)
  OBVIOUS
<1>14. Split(Found, g, w, ps)
  <2>1. Split(Found, g, Cat(w1, w2), Cat(p1, p2))
    BY <1>6, <1>7, SplitBoth
  <2>2. Split(Found, g, Cat(Cat(w1, w2), w3), Cat(Cat(p1, p2), p3))
    BY <1>8, <2>1, SplitBoth
  <2> QED  BY <1>9, <1>13, <2>2, SplitBoth
<1>15. Then(w)
  BY <1>10, <1>13 DEF Cat
<1>16. Says(Found, task, forKey) = FlattenSeq(ps)
  BY <1>11, <1>12, <1>13 DEF Cat
<1> QED  BY <1>1, <1>10, <1>14, <1>15, <1>16, StepSpread

-----------------------------------------------------------------------------
(* The steps that record a violation, or none.                             *)

\* The path as the provers know it.
LEMMA PathIs == ASSUME TypeOK PROVE path \in Paths
<1>1. /\ path \in Seq({path[i] : i \in DOMAIN path})
      /\ {path[i] : i \in DOMAIN path} \subseteq Elements
  BY DEF TypeOK, IsPath, IsSeq
<1> QED  BY <1>1, SeqMonotonic DEF Paths

\* A violation of the value the walk is at.
LEMMA RecordHere ==
  ASSUME TypeOK, todo # <<>>, abort = "none", NEW done, NEW g, Now(done, g), task.op \in Inner,
         Then(<<>>), UNCHANGED <<path, forKey>>,
         NEW rule \in Names, Says(Found, task, forKey) = <<Violation(rule, forKey)>>,
         Record(rule, path)
  PROVE  Goes
<1>1. g \in Plan /\ Level(task, g) /\ Reaches(path, g) /\ g.at \in Paths
  BY AtHand
<1>2. Agree(g.real, g.at, g.owed) /\ ~g.leaves /\ task.op \notin Cleanup
  BY <1>1 DEF Level, Inner, Cleanup
<1>3. Agree(path, g.at, g.owed)
  BY <1>1, <1>2 DEF Reaches
<1>4. PICK f : f = Violation(rule, forKey)
  OBVIOUS
<1>5. f \in Finding
  BY <1>4, ViolationIs DEF TypeOK
<1>6. f.path = <<>> /\ f.rule = rule /\ f.key = forKey
  BY <1>4 DEF Violation
<1>7. Cat(g.at, f.path) = g.at
  <2>1. g.at \in Seq(Elements) /\ <<>> \in Seq(Elements)
    BY <1>1 DEF Paths
  <2> QED  BY <1>6, <2>1, CatIs
<1>8. PICK where, r : where = path /\ r = rule
  OBVIOUS
<1>9. where \in Paths /\ r = f.rule /\ Record(r, where) /\ Agree(where, Cat(g.at, f.path), g.owed)
  BY <1>3, <1>6, <1>7, <1>8, PathIs
<1>10. Says(Found, task, forKey) = <<f>>
  BY <1>4
<1> QED  BY <1>2, <1>5, <1>6, <1>9, <1>10, StepFinding

\* A violation of a field of the message the walk is at.
LEMMA RecordBelow ==
  ASSUME TypeOK, todo # <<>>, abort = "none", NEW done, NEW g, Now(done, g), task.op \in Inner,
         Then(<<>>), UNCHANGED <<path, forKey>>, NEW field \in STRING,
         NEW rule \in Names, NEW key, key = forKey,
         Says(Found, task, forKey) = Under(field, NoSub, <<Violation(rule, key)>>),
         Record(rule, Append(path, Element(field, NoSub)))
  PROVE  Goes
<1>1. g \in Plan /\ Level(task, g) /\ Reaches(path, g) /\ g.at \in Paths
  BY AtHand
<1>2. Agree(g.real, g.at, g.owed) /\ ~g.leaves /\ task.op \notin Cleanup
  BY <1>1 DEF Level, Inner, Cleanup
<1>3. Agree(path, g.at, g.owed)
  BY <1>1, <1>2 DEF Reaches
<1>4. PICK e : e = <<Element(field, NoSub)>>
  OBVIOUS
<1>5. e \in Paths
  BY <1>4, ElementIs DEF Paths, Subs
<1>6. PICK m : m = Violation(rule, key)
  OBVIOUS
<1>7. m \in Finding /\ m.path = <<>> /\ m.rule = rule /\ m.key = key
  BY <1>6, ViolationIs DEF TypeOK, Violation
<1>8. PICK f : f = Moved(e, m)
  OBVIOUS
<1>9. f \in Finding /\ f.path = Cat(e, m.path) /\ f.rule = rule /\ f.key = key
  BY <1>5, <1>7, <1>8, MovedIs
<1>10. f.path = e
  <2>1. e \in Seq(Elements) /\ <<>> \in Seq(Elements)
    BY <1>5 DEF Paths
  <2> QED  BY <1>7, <1>9, <2>1, CatIs
<1>11. Below(e, <<m>>) = <<f>>
  <2>1. PICK a, b, c : a = <<m>> /\ b = Below(e, a) /\ c = <<f>>
    OBVIOUS
  <2>2. a \in Findings /\ Len(a) = 1 /\ a[1] = m /\ c \in Findings /\ Len(c) = 1 /\ c[1] = f
    BY <1>7, <1>9, <2>1, OneFinding
  <2>3. b \in Findings /\ Len(b) = 1 /\ \A i \in 1..1 : b[i] = Moved(e, a[i])
    BY <1>5, <2>1, <2>2, BelowIs
  <2>4. \A i \in 1..1 : i = 1
    OBVIOUS
  <2>5. b = c
    BY <1>8, <2>2, <2>3, <2>4, SameFindings
  <2> QED  BY <2>1, <2>5
<1>12. Says(Found, task, forKey) = <<f>>
  BY <1>4, <1>6, <1>11 DEF Under
<1>13. PICK where, r : where = Into(path, field) /\ r = rule
  OBVIOUS
<1>14. where \in Paths
  BY <1>13, PathIs, IntoIs
<1>15. Agree(where, Cat(g.at, f.path), g.owed)
  <2>1. Agree(Into(path, field), Onto(g.at, field, NoSub), g.owed)
    BY <1>1, <1>3, PathIs, AgreeInto
  <2> QED  BY <1>4, <1>10, <1>13, <2>1 DEF Onto
<1>16. Record(r, where) /\ r = f.rule /\ f.key = forKey
  BY <1>9, <1>13 DEF Into
<1> QED  BY <1>2, <1>9, <1>12, <1>14, <1>15, <1>16, StepFinding
\* A rule's check records what the rule reports.
LEMMA CheckStep ==
  ASSUME TypeOK, NEW done, NEW g, Now(done, g), Check
  PROVE  Goes
<1>1. /\ todo # <<>> /\ abort = "none" /\ task.op = "check" /\ Then(<<>>)
      /\ UNCHANGED <<path, forKey>>
  BY DEF Check, Doing, task
<1>2. Level(task, g) /\ task.op \in Inner /\ task.op \notin Cleanup
  BY <1>1, AtHand DEF Inner, Cleanup
<1>3. PICK rule : rule = task.rule
  OBVIOUS
<1>4. rule \in Names
  BY <1>1, <1>2, <1>3 DEF Level, Shape, Names
<1>5. Says(Found, task, forKey) = OfRule(rule, task.value, forKey)
  BY <1>1, <1>3 DEF Says
<1>6. CASE <<rule, task.value>> \in fails
  <2>1. Says(Found, task, forKey) = <<Violation(rule, forKey)>>
    BY <1>5, <1>6 DEF OfRule, If
  <2>2. Record(rule, path)
    BY <1>3, <1>6 DEF Check
  <2> QED  BY <1>1, <1>2, <1>4, <2>1, <2>2, RecordHere
<1>7. CASE <<rule, task.value>> \notin fails
  <2>1. Says(Found, task, forKey) = <<>>
    BY <1>5, <1>7 DEF OfRule, If
  <2>2. UNCHANGED <<list, abort>>
    BY <1>3, <1>7 DEF Check
  <2>3. UNCHANGED <<path, forKey, list>> /\ abort' = abort
    BY <1>1, <2>2
  <2> QED  BY <1>1, <1>2, <2>1, <2>3, StepEnding
<1> QED  BY <1>6, <1>7

\* A message's own findings, and its fields', are not about a key.
LEMMA NotKey ==
  ASSUME TypeOK, todo # <<>>, NEW done, NEW g, Now(done, g),
         task.op \in {"oneof", "required", "field"}
  PROVE  ~forKey /\ task.op \in Inner /\ task.op \notin Cleanup
<1>1. Level(task, g) /\ forKey = g.key
  BY AtHand
<1>2. ~g.key
  BY <1>1 DEF Level
<1> QED  BY <1>1, <1>2 DEF Inner, Cleanup

\* A message oneof's check records what it reports.
LEMMA OneofStep ==
  ASSUME TypeOK, NEW done, NEW g, Now(done, g), Oneof
  PROVE  Goes
<1> DEFINE set == {i \in DOMAIN task.oneof.fields : IsSet(task.node, task.oneof.fields[i])}
           bad == Cardinality(set) > 1 \/ (task.oneof.required /\ set = {})
<1>1. /\ todo # <<>> /\ abort = "none" /\ task.op = "oneof" /\ Then(<<>>)
      /\ UNCHANGED <<path, forKey>>
  BY DEF Oneof, Doing, task
<1>2. ~forKey /\ task.op \in Inner /\ task.op \notin Cleanup
  BY <1>1, NotKey
<1>3. PICK rule : rule = "message.oneof"
  OBVIOUS
<1>4. rule \in Names
  BY <1>3 DEF Names
<1>5. Says(Found, task, forKey) = If(bad, <<Violation(rule, FALSE)>>)
  BY <1>1, <1>3 DEF Says, OfOneof
<1>6. IF bad THEN Record(rule, path) ELSE UNCHANGED <<list, abort>>
  BY <1>3 DEF Oneof
<1> HIDE DEF bad
<1>7. CASE bad
  <2>1. forKey = FALSE
    BY <1>2 DEF TypeOK
  <2>2. Says(Found, task, forKey) = <<Violation(rule, forKey)>>
    <3>1. Says(Found, task, forKey) = <<Violation(rule, FALSE)>>
      BY <1>5, <1>7 DEF If
    <3>2. Violation(rule, FALSE) = Violation(rule, forKey)
      BY <2>1 DEF Violation
    <3> QED  BY <3>1, <3>2
  <2>3. Record(rule, path)
    BY <1>6, <1>7
  <2> QED  BY <1>1, <1>2, <1>4, <2>2, <2>3, RecordHere
<1>8. CASE ~bad
  <2>1. Says(Found, task, forKey) = <<>>
    BY <1>5, <1>8 DEF If
  <2>2. UNCHANGED <<path, forKey, list>> /\ abort' = abort
    BY <1>1, <1>6, <1>8
  <2> QED  BY <1>1, <1>2, <2>1, <2>2, StepEnding
<1> QED  BY <1>7, <1>8

\* A required oneof's check records what it reports.
LEMMA OneofRequiredStep ==
  ASSUME TypeOK, NEW done, NEW g, Now(done, g), OneofRequired
  PROVE  Goes
<1> DEFINE bad == \A f \in task.oneof.members : ~IsSet(task.node, f)
<1>1. /\ todo # <<>> /\ abort = "none" /\ task.op = "required" /\ Then(<<>>)
      /\ UNCHANGED <<path, forKey>>
  BY DEF OneofRequired, Doing, task
<1>2. ~forKey /\ task.op \in Inner /\ task.op \notin Cleanup
  BY <1>1, NotKey
<1>3. PICK rule, name : rule = "required" /\ name = task.oneof.name
  OBVIOUS
<1>4. rule \in Names /\ name \in STRING
  BY <1>1, <1>3, HeadTask DEF Names, IsTask
<1>5. Says(Found, task, forKey) = If(bad, Under(name, NoSub, <<Violation(rule, FALSE)>>))
  BY <1>1, <1>3 DEF Says, OfRequired
<1>6. IF bad THEN Record(rule, Append(path, Element(name, NoSub))) ELSE UNCHANGED <<list, abort>>
  BY <1>3 DEF OneofRequired
<1> HIDE DEF bad
<1>7. CASE bad
  <2>1. PICK key : key = FALSE
    OBVIOUS
  <2>2. key = forKey
    BY <1>2, <2>1 DEF TypeOK
  <2>3. Says(Found, task, forKey) = Under(name, NoSub, <<Violation(rule, key)>>)
    BY <1>5, <1>7, <2>1 DEF If
  <2>4. Record(rule, Append(path, Element(name, NoSub)))
    BY <1>6, <1>7
  <2> QED  BY <1>1, <1>2, <1>4, <2>2, <2>3, <2>4, RecordBelow
<1>8. CASE ~bad
  <2>1. Says(Found, task, forKey) = <<>>
    BY <1>5, <1>8 DEF If
  <2>2. UNCHANGED <<path, forKey, list>> /\ abort' = abort
    BY <1>1, <1>6, <1>8
  <2> QED  BY <1>1, <1>2, <2>1, <2>2, StepEnding
<1> QED  BY <1>7, <1>8

\* A missing field that is required is recorded, at its path.
LEMMA FieldMissingStep ==
  ASSUME TypeOK, NEW done, NEW g, Now(done, g), FieldMissing
  PROVE  Goes
<1> DEFINE v == task.rules
<1>1. /\ todo # <<>> /\ abort = "none" /\ task.op = "field" /\ Then(<<>>)
      /\ UNCHANGED <<path, forKey>>
      /\ ~v.broken /\ ~IsSet(task.node, v.field) /\ v.required
  BY DEF FieldMissing, DoingField, Doing, task
<1>2. ~forKey /\ task.op \in Inner
  BY <1>1, NotKey
<1>3. PICK rule, name, key : rule = "required" /\ name = v.field /\ key = FALSE
  OBVIOUS
<1>4. rule \in Names /\ key = forKey
  BY <1>2, <1>3 DEF Names, TypeOK
<1>5. name \in STRING
  <2>1. Level(task, g)
    BY <1>1, AtHand
  <2>2. IsTask(task)
    BY <1>1, HeadTask
  <2>3. v \in FieldValidator
    BY <1>1, <2>2, FieldAtHand DEF FieldMissing, DoingField
  <2> QED  BY <1>3, <2>3, FieldIs
<1>6. Says(Found, task, forKey) = Under(name, NoSub, <<Violation(rule, key)>>)
  <2>1. Says(Found, task, forKey) = OfField(Found, task.node, v)
    BY <1>1 DEF Says
  <2>2. OfField(Found, task.node, v) = Under(v.field, NoSub, <<Violation("required", FALSE)>>)
    BY <1>1 DEF OfField
  <2> QED  BY <1>3, <2>1, <2>2
<1>7. Record(rule, Append(path, Element(name, NoSub)))
  BY <1>3 DEF FieldMissing
<1> QED  BY <1>1, <1>2, <1>4, <1>5, <1>6, <1>7, RecordBelow
-----------------------------------------------------------------------------
(* The steps that end their task and record nothing.                       *)

\* A field that is not walked reports nothing more.
LEMMA FieldEndStep ==
  ASSUME TypeOK, NEW done, NEW g, Now(done, g), FieldBroken \/ FieldSkipped
  PROVE  Goes
<1>1. /\ todo # <<>> /\ abort = "none" /\ task.op = "field" /\ Then(<<>>)
      /\ UNCHANGED <<path, forKey, list>>
  BY DEF FieldBroken, FieldSkipped, DoingField, Doing, task
<1>2. task.op \notin Cleanup
  BY <1>1, NotKey
<1>3. CASE FieldBroken
  <2>1. abort' # "none"
    BY <1>3 DEF FieldBroken
  <2> QED  BY <1>1, <1>2, <2>1, StepEnding
<1>4. CASE FieldSkipped
  <2>1. Says(Found, task, forKey) = OfField(Found, task.node, task.rules)
    BY <1>1 DEF Says
  <2>2. OfField(Found, task.node, task.rules) = <<>>
    BY <1>4 DEF OfField, FieldSkipped, DoingField
  <2>3. abort' = abort
    BY <1>4 DEF FieldSkipped
  <2> QED  BY <1>1, <1>2, <2>1, <2>2, <2>3, StepEnding
<1> QED  BY <1>3, <1>4

\* Behind its last item a list or map reports nothing.
LEMMA ContainerEndStep ==
  ASSUME TypeOK, NEW done, NEW g, Now(done, g), ContainerEnd
  PROVE  Goes
<1>1. /\ todo # <<>> /\ task.op \in {"items", "entries"} /\ Then(<<>>) /\ Ended(task)
      /\ UNCHANGED <<path, forKey, list>> /\ abort' = abort
  BY DEF ContainerEnd, Doing, task
<1>2. Level(task, g) /\ IsTask(task) /\ task.op \notin Cleanup
  BY <1>1, AtHand DEF Cleanup
<1>3. PICK v, x, k : v = task.rules /\ x = task.value /\ k = task.next
  OBVIOUS
<1>4. v \in FieldValidator /\ IsSeq(x) /\ k \in 1..(Len(x) + 1)
  BY <1>1, <1>2, <1>3 DEF Level, Shape, IsTask
<1>5. k = Len(x) + 1
  <2>1. Len(x) \in Nat
    BY <1>4, SeqsAre
  <2>2. k > Len(x)
    BY <1>1, <1>3 DEF Ended
  <2> QED  BY <1>4, <2>1, <2>2
<1>6. Found \in Reports
  BY FoundIs DEF TypeOK
<1>7. CASE task.op = "items"
  <2>1. PICK ps : ps = ItemParts(Found, v, x)
    OBVIOUS
  <2>2. ps \in Seq(Findings) /\ Len(ps) = Len(x)
    BY <1>4, <1>6, <2>1, ItemPartsAre
  <2>3. Says(Found, task, forKey) = Left(ps)[k]
    BY <1>3, <1>7, <2>1 DEF Says
  <2>4. Says(Found, task, forKey) = <<>>
    BY <1>5, <2>2, <2>3, LeftIs
  <2> QED  BY <1>1, <1>2, <2>4, StepEnding
<1>8. CASE task.op = "entries"
  <2>1. PICK ps : ps = EntryParts(Found, v, x)
    OBVIOUS
  <2>2. IsEntries(x)
    BY <1>2, <1>3, <1>8 DEF IsTask
  <2>3. ps \in Seq(Findings) /\ Len(ps) = Len(x)
    BY <1>4, <1>6, <2>1, <2>2, EntryPartsAre
  <2>4. Says(Found, task, forKey) = Left(ps)[k]
    BY <1>3, <1>8, <2>1 DEF Says
  <2>5. Says(Found, task, forKey) = <<>>
    BY <1>5, <2>3, <2>4, LeftIs
  <2> QED  BY <1>1, <1>2, <2>5, StepEnding
<1> QED  BY <1>1, <1>7, <1>8

\* An absent or ignored part reports nothing.
LEMMA PartSkippedStep ==
  ASSUME TypeOK, NEW done, NEW g, Now(done, g), PartSkipped
  PROVE  Goes
<1>1. /\ todo # <<>> /\ task.op \in {"key", "entryValue"} /\ Then(<<>>)
      /\ UNCHANGED <<path, forKey, list>> /\ abort' = abort
  BY DEF PartSkipped, Doing, task
<1>2. task.op \notin Cleanup
  BY <1>1 DEF Cleanup
<1>3. task.item = NoItem \/ Skipped(task.item, task.value)
  BY DEF PartSkipped, EntrySkipped
<1>4. \A key : OfPart(Found, task.item, task.value, key) = <<>>
  BY <1>3 DEF OfPart, If
<1>5. Says(Found, task, forKey) = <<>>
  <2>1. CASE task.op = "key"
    BY <1>4, <2>1 DEF Says, OfPart, If
  <2>2. CASE task.op = "entryValue"
    BY <1>4, <2>2 DEF Says, OfPart, If
  <2> QED  BY <1>1, <2>1, <2>2
<1> QED  BY <1>1, <1>2, <1>5, StepEnding

\* A stop or an error leaves what is recorded a part of the report.
LEMMA StopStep ==
  ASSUME TypeOK, NEW done, NEW g, Now(done, g), Unwind \/ Raise
  PROVE  Goes
<1>1. todo # <<>> /\ Then(<<>>) /\ UNCHANGED <<path, forKey, list>> /\ abort' # "none"
  BY DEF Unwind, Raise, Doing
<1>2. task.op \notin Cleanup
  BY DEF Unwind, Raise, Doing, task, Reading, Cleanup
<1> QED  BY <1>1, <1>2, StepEnding
-----------------------------------------------------------------------------
(* The steps that go into a field.                                         *)

\* A task put on the agenda, and what is planned for it.
Puts(B, u, h, t, real, at, g) ==
  /\ IsSeq(Cat(<<t>>, u)) /\ Stands(B, Cat(<<t>>, u), g) /\ g \in Plan
  /\ g.real = real /\ g.at = at /\ g.key = h.key /\ g.owed = h.owed
  /\ g.leaves <=> t.op = "leave"
  /\ g.rest = Cat(Below(at, Says(B, t, h.key)), h.rest)

\* One task, with its plan, put before an agenda.
LEMMA PutOne ==
  ASSUME NEW B, NEW u, IsSeq(u), NEW h, Stands(B, u, h), NEW t,
         t.op # "keyDone" /\ t.op # "subscript",
         Shape(t), h.key => t.op \in {"check", "value"} /\ (t.op = "value" => t.value \notin Nodes),
         NEW real \in Paths, NEW at \in Paths,
         t.op \in {"items", "entries"} =>
           /\ real # <<>> /\ real[Len(real)].field = t.rules.field
           /\ Agree(Up(real), at, h.owed) /\ h.leaves,
         t.op \in Inner => Agree(real, at, h.owed),
         Reaches(real, h), Says(B, t, h.key) \in Findings
  PROVE  \E g : Puts(B, u, h, t, real, at, g)
<1>1. h \in Plan
  BY StandsIs
<1>2. h.key \in BOOLEAN /\ h.owed \in SUBSET Owes /\ h.rest \in Findings
  BY <1>1, PlanIs
<1>3. PICK leaves, rest :
        leaves = (t.op = "leave") /\ rest = Cat(Below(at, Says(B, t, h.key)), h.rest)
  OBVIOUS
<1>4. leaves \in BOOLEAN
  BY <1>3
<1>5. rest \in Findings
  BY <1>2, <1>3, BelowIs, FindingsCat
<1>6. PICK g : g = Planning(real, at, h.key, leaves, h.owed, rest)
  OBVIOUS
<1>7. /\ g \in Plan /\ g.real = real /\ g.at = at /\ g.key = h.key /\ g.leaves = leaves
      /\ g.owed = h.owed /\ g.rest = rest
  BY <1>2, <1>4, <1>5, <1>6, PlanningIs
<1>8. g.leaves <=> t.op = "leave"
  BY <1>3, <1>7
<1>9. Level(t, g)
  BY <1>7, <1>8 DEF Level
<1>10. Link(B, t, g, h)
  BY <1>3, <1>7 DEF Link
<1>11. IsSeq(Cat(<<t>>, u)) /\ Stands(B, Cat(<<t>>, u), g)
  BY <1>7, <1>9, <1>10, PushOne
<1> QED  BY <1>3, <1>7, <1>8, <1>11 DEF Puts

\* The call that leaves a field, put on the agenda.
LEMMA PutLeave ==
  ASSUME NEW B, NEW u, IsSeq(u), NEW h, Stands(B, u, h), NEW t, t.op = "leave", ~h.key,
         NEW real \in Paths, NEW at \in Paths, Reaches(real, h)
  PROVE  \E g : Puts(B, u, h, t, real, at, g) /\ g.rest = h.rest
<1>1. h \in Plan
  BY StandsIs
<1>2. h.rest \in Findings
  BY <1>1, PlanIs
<1>3. Says(B, t, h.key) = <<>>
  BY DEF Says
<1>4. Says(B, t, h.key) \in Findings
  BY <1>3, NothingIs
<1>5. Shape(t) /\ t.op \notin Inner /\ t.op \notin {"items", "entries"}
      /\ t.op # "keyDone" /\ t.op # "subscript"
  BY DEF Shape, Inner
<1>6. PICK g : Puts(B, u, h, t, real, at, g)
  BY <1>4, <1>5, PutOne
<1>7. g.rest = h.rest
  <2>1. Below(at, Says(B, t, h.key)) = <<>>
    BY <1>3, BelowNothing
  <2>2. Cat(<<>>, h.rest) = h.rest
    BY <1>2, NothingIs, FindingsCat
  <2> QED  BY <1>6, <2>1, <2>2 DEF Puts
<1> QED  BY <1>6, <1>7

\* One task and then another.
LEMMA TwoAre ==
  ASSUME NEW a, NEW b, NEW u, IsSeq(u)
  PROVE  Cat(<<a, b>>, u) = Cat(<<a>>, Cat(<<b>>, u))
<1> DEFINE S == {u[i] : i \in DOMAIN u} \cup {a, b}
<1>1. u \in Seq(S)
  BY SeqMonotonic DEF IsSeq
<1>2. a \in S /\ b \in S
  OBVIOUS
<1> HIDE DEF S
<1>3. PICK x, y, w : x = <<a>> /\ y = <<b>> /\ w = <<a, b>>
  OBVIOUS
<1>4. x \in Seq(S) /\ y \in Seq(S)
  BY <1>2, <1>3
<1>5. w = Cat(x, y)
  <2>1. PICK z : z = Cat(x, y)
    OBVIOUS
  <2>2. Len(x) = 1 /\ Len(y) = 1 /\ x[1] = a /\ y[1] = b
    BY <1>3
  <2>3. w \in Seq(S) /\ Len(w) = 2 /\ w[1] = a /\ w[2] = b
    BY <1>2, <1>3
  <2>4. z \in Seq(S) /\ Len(z) = 2
    <3>1. z \in Seq(S) /\ Len(z) = Len(x) + Len(y)
      BY <1>4, <2>1, CatIs
    <3> QED  BY <2>2, <3>1
  <2>5. z[1] = a /\ z[2] = b
    <3>1. /\ \A i \in 1..Len(x) : z[i] = x[i]
          /\ \A i \in (Len(x) + 1)..(Len(x) + Len(y)) : z[i] = y[i - Len(x)]
      BY <1>4, <2>1, CatMembers
    <3> QED  BY <2>2, <3>1
  <2>6. \A i \in 1..2 : w[i] = z[i]
    BY <2>3, <2>5
  <2>7. w = z
    BY <2>3, <2>4, <2>6, SameSeq
  <2> QED  BY <2>1, <2>7
<1>6. Cat(Cat(x, y), u) = Cat(x, Cat(y, u))
  BY <1>1, <1>4, CatAssociative
<1> QED  BY <1>3, <1>5, <1>6

\* Two tasks and more before an agenda are put one by one.
LEMMA TwoMore ==
  ASSUME NEW a, NEW b, NEW s, IsSeq(s), NEW u, IsSeq(u)
  PROVE  Cat(Cat(<<a, b>>, s), u) = Cat(<<a>>, Cat(<<b>>, Cat(s, u)))
<1> DEFINE S == {u[i] : i \in DOMAIN u} \cup {s[i] : i \in DOMAIN s} \cup {a, b}
<1>1. u \in Seq(S) /\ s \in Seq(S)
  BY SeqMonotonic DEF IsSeq
<1>2. a \in S /\ b \in S
  OBVIOUS
<1> HIDE DEF S
<1>3. PICK w, v : w = <<a, b>> /\ v = Cat(s, u)
  OBVIOUS
<1>4. w \in Seq(S)
  BY <1>2, <1>3
<1>5. Cat(Cat(w, s), u) = Cat(w, v)
  <2>1. Cat(Cat(w, s), u) = Cat(w, Cat(s, u))
    BY <1>1, <1>4, CatAssociative
  <2> QED  BY <1>3, <2>1
<1>6. IsSeq(v)
  BY <1>3, JoinedIs
<1>7. Cat(w, v) = Cat(<<a>>, Cat(<<b>>, v))
  BY <1>3, <1>6, TwoAre
<1> QED  BY <1>3, <1>5, <1>7
\* What is planned after the task at hand.
LEMMA NextPlan ==
  ASSUME TypeOK, todo # <<>>, NEW done, NEW g, Now(done, g)
  PROVE  \E u, h : /\ u = Tail(todo) /\ IsSeq(u) /\ Stands(Found, u, h) /\ h \in Plan
                   /\ Link(Found, task, g, h)
<1>1. IsSeq(todo) /\ task = Head(todo)
  BY DEF TypeOK, task
<1>2. Planned(Found, Report, todo, path, forKey, list, abort, done, g)
  BY DEF Now
<1>3. PICK h \in Plan : Stands(Found, Tail(todo), h) /\ Link(Found, task, g, h)
  BY <1>1, <1>2, Popped
<1>4. PICK u : u = Tail(todo)
  OBVIOUS
<1>5. IsSeq(u)
  BY <1>1, <1>4, TailOf
<1> QED  BY <1>3, <1>4, <1>5

\* A step that puts other tasks in the place of its own, where what is
\* planned is what was, and records nothing.
LEMMA StepPlans ==
  ASSUME TypeOK, NEW done, NEW g, Now(done, g), NEW g2, Stands(Found, todo', g2),
         g2.rest = g.rest, Reaches(path', g2), forKey' = g2.key, UNCHANGED <<list, abort>>,
         Recorded(list, done, g2.owed)
  PROVE  Goes
<1>1. Planned(Found, Report, todo, path, forKey, list, abort, done, g)
  BY DEF Now
<1>2. PICK s2, p2, k2 : s2 = todo' /\ p2 = path' /\ k2 = forKey'
  OBVIOUS
<1>3. Stands(Found, s2, g2) /\ Reaches(p2, g2) /\ k2 = g2.key
  BY <1>2
<1>4. Planned(Found, Report, s2, p2, k2, list, abort, done, g2)
  BY <1>1, <1>3, Replaces
<1> QED  BY <1>2, <1>4 DEF Goes

\* Going into a field: its contents, then the way back.
LEMMA FieldEnteredStep ==
  ASSUME TypeOK, NEW done, NEW g, Now(done, g), FieldEntered
  PROVE  Goes
<1> DEFINE v == task.rules
           n == task.node
           x == content[n][v.field]
           inside == x # NoValue /\ ((v.kind = "list" /\ v.items # NoItem) \/ v.kind = "map")
           t1 == [op |-> "value", rules |-> v.value, value |-> x, frame |-> FrameOf(v, n)]
           t2 == [op |-> "leave"]
           t3 == [op |-> "inside", rules |-> v, value |-> x]
           w3 == IF inside THEN <<t3>> ELSE <<>>
           OV == OfValue(Found, v.value, x, FALSE)
           OC == If(x # NoValue, OfContents(Found, v, x))
<1>1. /\ todo # <<>> /\ task.op = "field" /\ Doing("field") /\ ~v.broken
      /\ IsSet(n, v.field) \/ (~v.required /\ ~v.ignoreEmpty)
      /\ path' = Append(path, Element(v.field, NoSub))
      /\ Then(<<t1, t2>> \o w3)
      /\ UNCHANGED <<forKey, list, abort>>
  BY DEF FieldEntered, DoingField, Doing, task
<1>2. /\ g \in Plan /\ Level(task, g) /\ Reaches(path, g) /\ forKey = g.key
      /\ g.at \in Paths /\ IsTask(task)
  BY <1>1, AtHand
<1>3. ~g.key /\ ~g.leaves /\ Agree(g.real, g.at, g.owed)
  BY <1>1, <1>2 DEF Level, Inner
<1>4. g.real = path /\ path \in Paths /\ Found \in Reports
  BY <1>2, <1>3, PathIs, FoundIs DEF Reaches, TypeOK
<1>5. /\ n \in Nodes /\ v \in FieldValidator /\ v.field \in STRING
      /\ Fitting(v, x)
  <2>1. /\ n \in Nodes /\ v \in FieldValidator /\ v.field \in STRING
        /\ \E i \in DOMAIN Compiled[TypeOf[n]].fields : v = Compiled[TypeOf[n]].fields[i]
    BY <1>1, FieldAtHand
  <2> QED  BY <2>1, FieldsFit DEF TypeOK
<1>6. v.value \in ValueValidator
  BY <1>5, FieldIs
<1>7. PICK no : no = FALSE
  OBVIOUS
<1>8. OV \in Findings /\ OV = OfValue(Found, v.value, x, no)
  <2>1. no \in BOOLEAN /\ OV = OfValue(Found, v.value, x, no)
    BY <1>7
  <2> QED  BY <1>4, <1>6, <2>1, OfValueIs
<1>9. OC \in Findings
  <2>1. CASE x = NoValue
    BY <2>1, NothingIs DEF If
  <2>2. CASE x # NoValue
    BY <1>4, <1>5, <2>2, OfContentsIs DEF If
  <2> QED  BY <2>1, <2>2
<1>10. Says(Found, task, g.key) = Cat(Under(v.field, NoSub, OV), OC)
  <2>1. Says(Found, task, g.key) = OfField(Found, n, v)
    BY <1>1 DEF Says
  <2>2. OfField(Found, n, v) = Under(v.field, NoSub, OV) \o OC
    BY <1>1 DEF OfField
  <2> QED  BY <2>1, <2>2 DEF Cat
<1>11. PICK u, h : /\ u = Tail(todo) /\ IsSeq(u) /\ Stands(Found, u, h) /\ h \in Plan
                   /\ Link(Found, task, g, h)
  BY <1>1, NextPlan
<1>12. /\ g.rest = Cat(Below(g.at, Cat(Under(v.field, NoSub, OV), OC)), h.rest)
       /\ h.owed = g.owed /\ h.key = g.key /\ Reaches(path, h) /\ h.rest \in Findings
  BY <1>1, <1>4, <1>10, <1>11, PlanIs DEF Link
<1> HIDE DEF OV, x, v, n
<1>13. \E g3 : /\ Stands(Found, Cat(w3, u), g3) /\ IsSeq(Cat(w3, u)) /\ IsSeq(w3)
               /\ g3.rest = Cat(Below(g.at, OC), h.rest)
               /\ g3.owed = g.owed /\ g3.key = g.key /\ Reaches(path, g3)
  <2>1. CASE inside
    <3>1. PICK t : t = t3
      OBVIOUS
    <3>2. t.op = "inside" /\ t.rules = v /\ t.value = x
      BY <3>1
    <3>3. Shape(t) /\ t.op \in Inner /\ t.op # "keyDone" /\ t.op # "subscript"
          /\ t.op \notin {"items", "entries"} /\ t.op # "leave"
      BY <1>5, <2>1, <3>2 DEF Shape, Inner
    <3>4. Says(Found, t, h.key) = OC
      BY <2>1, <3>2 DEF Says, If
    <3>5. Agree(path, g.at, h.owed) /\ ~h.key
      BY <1>3, <1>4, <1>12
    <3>6. Says(Found, t, h.key) \in Findings
      BY <1>9, <3>4
    <3>7. PICK g3 : Puts(Found, u, h, t, path, g.at, g3)
      BY <1>2, <1>4, <1>11, <1>12, <3>3, <3>5, <3>6, PutOne
    <3>8. w3 = <<t>> /\ IsSeq(w3)
      <4>1. w3 = <<t>>
        BY <2>1, <3>1
      <4>2. PICK w : w = <<t>>
        OBVIOUS
      <4>3. w = [i \in 1..1 |-> w[i]]
        BY <4>2
      <4>4. IsSeq(w)
        BY <4>3, IndexedIs
      <4> QED  BY <4>1, <4>2, <4>4
    <3>9. Reaches(path, g3)
      BY <3>3, <3>7 DEF Puts, Reaches
    <3>10. g3.owed = g.owed /\ g3.key = g.key /\ g3.rest = Cat(Below(g.at, OC), h.rest)
      BY <1>12, <3>4, <3>7 DEF Puts
    <3>11. Stands(Found, Cat(w3, u), g3) /\ IsSeq(Cat(w3, u))
      BY <3>7, <3>8 DEF Puts
    <3> QED  BY <3>8, <3>9, <3>10, <3>11
  <2>2. CASE ~inside
    <3>1. OC = <<>>
      BY <2>2 DEF If, OfContents
    <3>2. Below(g.at, OC) = <<>>
      BY <1>2, <3>1, BelowNothing
    <3>3. Cat(<<>>, h.rest) = h.rest
      BY <1>12, NothingIs, FindingsCat
    <3>4. PICK w : w = w3
      OBVIOUS
    <3>5. w = <<>>
      BY <2>2, <3>4
    <3>6. IsSeq(w) /\ Cat(w, u) = u
      <4> DEFINE S == {u[i] : i \in DOMAIN u}
      <4>1. u \in Seq(S)
        BY <1>11 DEF IsSeq
      <4>2. w \in Seq(S)
        BY <3>5
      <4> HIDE DEF S
      <4>3. Cat(<<>>, u) = u /\ IsSeq(w)
        BY <4>1, <4>2, CatIs, SeqIs
      <4> QED  BY <3>5, <4>3
    <3>7. h.rest = Cat(Below(g.at, OC), h.rest)
      BY <3>2, <3>3
    <3> QED  BY <1>11, <1>12, <3>4, <3>6, <3>7
  <2> QED  BY <2>1, <2>2
<1> HIDE DEF OC, w3, inside
<1>14. PICK g3 : /\ Stands(Found, Cat(w3, u), g3) /\ IsSeq(Cat(w3, u)) /\ IsSeq(w3)
                 /\ g3.rest = Cat(Below(g.at, OC), h.rest)
                 /\ g3.owed = g.owed /\ g3.key = g.key /\ Reaches(path, g3)
  BY <1>13
<1>15. PICK u3 : u3 = Cat(w3, u)
  OBVIOUS
<1>16. PICK l : l = t2
  OBVIOUS
<1>17. PICK g2 : Puts(Found, u3, g3, l, path, g.at, g2) /\ g2.rest = g3.rest
  <2>1. l.op = "leave"
    BY <1>16
  <2>2. IsSeq(u3) /\ Stands(Found, u3, g3) /\ ~g3.key /\ Reaches(path, g3)
    BY <1>3, <1>14, <1>15
  <2> QED  BY <1>2, <1>4, <2>1, <2>2, PutLeave
<1>18. PICK u2 : u2 = Cat(<<l>>, u3)
  OBVIOUS
<1>19. /\ IsSeq(u2) /\ Stands(Found, u2, g2) /\ g2.real = path /\ g2.owed = g.owed
       /\ ~g2.key /\ g2.key = g.key /\ g2.leaves /\ g2.rest = Cat(Below(g.at, OC), h.rest)
  BY <1>3, <1>14, <1>16, <1>17, <1>18 DEF Puts
<1>20. PICK real, at : real = Into(path, v.field) /\ at = Onto(g.at, v.field, NoSub)
  OBVIOUS
<1>21. /\ real \in Paths /\ real # <<>> /\ Up(real) = path /\ at \in Paths
       /\ Agree(real, at, g.owed)
  <2>1. NoSub \in Subs
    BY DEF Subs
  <2>2. Agree(path, g.at, g.owed)
    BY <1>3, <1>4
  <2> QED  BY <1>2, <1>4, <1>5, <1>20, <2>1, <2>2, IntoIs, OntoIs, AgreeInto
<1>22. Reaches(real, g2)
  BY <1>19, <1>21 DEF Reaches
<1>23. PICK t : t = t1
  OBVIOUS
<1>24. t.op = "value" /\ t.rules = v.value /\ t.value = x
  BY <1>23
<1>25. Says(Found, t, g2.key) = OV
  <2>1. Says(Found, t, g2.key) = OfValue(Found, v.value, x, g2.key)
    BY <1>24 DEF Says
  <2>2. g.key \in BOOLEAN
    BY <1>2, PlanIs
  <2>3. g2.key = no
    BY <1>3, <1>7, <1>19, <2>2
  <2> QED  BY <1>8, <2>1, <2>3
<1>26. PICK g1 : Puts(Found, u2, g2, t, real, at, g1)
  <2>1. Shape(t) /\ t.op \in Inner /\ t.op # "keyDone" /\ t.op # "subscript"
        /\ t.op \notin {"items", "entries"}
    BY <1>24 DEF Shape, Inner
  <2>2. Says(Found, t, g2.key) \in Findings
    BY <1>8, <1>25
  <2> QED  BY <1>19, <1>21, <1>22, <2>1, <2>2, PutOne
<1>27. todo' = Cat(<<t>>, u2)
  <2>1. PICK w : w = <<t1, t2>> \o w3
    OBVIOUS
  <2>2. Then(w)
    BY <1>1, <2>1
  <2>3. todo' = Cat(w, u)
    BY <1>1, <1>11, <2>2, ThenIs
  <2>4. w = Cat(<<t, l>>, w3)
    BY <1>16, <1>23, <2>1 DEF Cat
  <2>5. Cat(Cat(<<t, l>>, w3), u) = Cat(<<t>>, Cat(<<l>>, Cat(w3, u)))
    BY <1>11, <1>14, TwoMore
  <2> QED  BY <1>15, <1>18, <2>3, <2>4, <2>5
<1>28. Stands(Found, todo', g1)
  BY <1>26, <1>27 DEF Puts
<1>29. g1.rest = g.rest
  <2>1. PICK a, b, c : a = Below(at, OV) /\ b = Below(g.at, OC) /\ c = h.rest
    OBVIOUS
  <2>2. a \in Findings /\ b \in Findings /\ c \in Findings
    BY <1>2, <1>8, <1>9, <1>12, <1>21, <2>1, BelowIs
  <2>3. Below(g.at, Under(v.field, NoSub, OV)) = a
    BY <1>2, <1>5, <1>8, <1>20, <2>1, OntoIs DEF Subs
  <2>4. Below(g.at, Cat(Under(v.field, NoSub, OV), OC)) = Cat(a, b)
    <3>1. Under(v.field, NoSub, OV) \in Findings
      BY <1>5, <1>8, UnderIs DEF Subs
    <3> QED  BY <1>2, <1>9, <2>1, <2>3, <3>1, BelowCat
  <2>5. g.rest = Cat(Cat(a, b), c)
    BY <1>12, <2>1, <2>4
  <2>6. g1.rest = Cat(a, Cat(b, c))
    BY <1>19, <1>25, <1>26, <2>1 DEF Puts
  <2>7. Cat(Cat(a, b), c) = Cat(a, Cat(b, c))
    BY <2>2, FindingsAssociative
  <2> QED  BY <2>5, <2>6, <2>7
<1>30. Reaches(path', g1)
  <2>1. path' = real
    BY <1>1, <1>20 DEF Into
  <2> QED  BY <1>24, <1>26, <2>1 DEF Puts, Reaches
<1>31. forKey' = g1.key /\ g1.owed = g.owed
  BY <1>1, <1>2, <1>19, <1>26 DEF Puts
<1>32. Recorded(list, done, g1.owed)
  BY <1>31 DEF Now, Planned
<1> QED  BY <1>1, <1>28, <1>29, <1>30, <1>31, <1>32, StepPlans
\* The rules of a list or map, then its items or entries.
LEMMA InsideStep ==
  ASSUME TypeOK, NEW done, NEW g, Now(done, g), Inside
  PROVE  Goes
<1> DEFINE v == task.rules
           x == task.value
           t1 == [op |-> IF v.kind = "list" THEN "items" ELSE "entries",
                  rules |-> v, value |-> x, next |-> 1]
           t2 == [op |-> "leave"]
           OC == OfContents(Found, v, x)
<1>1. /\ todo # <<>> /\ task.op = "inside"
      /\ path' = Append(path, Element(v.field, NoSub))
      /\ Then(<<t1, t2>>)
      /\ UNCHANGED <<forKey, list, abort>>
  BY DEF Inside, Doing, task
<1>2. /\ g \in Plan /\ Level(task, g) /\ Reaches(path, g) /\ forKey = g.key
      /\ g.at \in Paths /\ IsTask(task)
  BY <1>1, AtHand
<1>3. ~g.key /\ ~g.leaves /\ Agree(g.real, g.at, g.owed) /\ Fitting(v, x) /\ x # NoValue
  BY <1>1, <1>2 DEF Level, Inner, Shape
<1>4. g.real = path /\ path \in Paths /\ Found \in Reports
  BY <1>2, <1>3, PathIs, FoundIs DEF Reaches, TypeOK
<1>5. v \in FieldValidator /\ v.field \in STRING
  BY <1>3, FieldIs DEF Fitting
<1>6. OC \in Findings
  BY <1>3, <1>4, OfContentsIs
<1>7. PICK u, h : /\ u = Tail(todo) /\ IsSeq(u) /\ Stands(Found, u, h) /\ h \in Plan
                  /\ Link(Found, task, g, h)
  BY <1>1, NextPlan
<1>8. Says(Found, task, g.key) = OC
  BY <1>1 DEF Says
<1>9. /\ g.rest = Cat(Below(g.at, OC), h.rest)
      /\ h.owed = g.owed /\ h.key = g.key /\ Reaches(path, h) /\ h.rest \in Findings
  BY <1>1, <1>4, <1>7, <1>8, PlanIs DEF Link
<1>10. PICK l : l = t2
  OBVIOUS
<1>11. PICK g2 : Puts(Found, u, h, l, path, g.at, g2) /\ g2.rest = h.rest
  <2>1. l.op = "leave" /\ ~h.key
    BY <1>3, <1>9, <1>10
  <2> QED  BY <1>2, <1>4, <1>7, <1>9, <2>1, PutLeave
<1>12. PICK u2 : u2 = Cat(<<l>>, u)
  OBVIOUS
<1>13. /\ IsSeq(u2) /\ Stands(Found, u2, g2) /\ g2.real = path /\ g2.owed = g.owed
       /\ ~g2.key /\ g2.key = g.key /\ g2.leaves /\ g2.rest = h.rest
  BY <1>3, <1>9, <1>10, <1>11, <1>12 DEF Puts
<1>14. PICK real : real = Into(path, v.field)
  OBVIOUS
<1>15. /\ real \in Paths /\ real # <<>> /\ Up(real) = path /\ real[Len(real)].field = v.field
  <2>1. PICK f : f = v.field
    OBVIOUS
  <2>2. path \in Paths /\ f \in STRING /\ real = Into(path, f)
    BY <1>4, <1>5, <1>14, <2>1
  <2>3. /\ real \in Paths /\ real # <<>> /\ Up(real) = path
        /\ Len(real) = Len(path) + 1 /\ real[Len(path) + 1].field = f
    BY <2>2, IntoIs
  <2> QED  BY <2>1, <2>3
<1>16. Reaches(real, g2)
  BY <1>13, <1>15 DEF Reaches
<1>17. PICK t : t = t1
  OBVIOUS
<1>18. t.op \in {"items", "entries"} /\ t.rules = v /\ t.value = x /\ t.next = 1
       /\ (t.op = "items" <=> v.kind = "list")
  BY <1>17
<1>19. v.kind \in {"list", "map"} /\ (v.kind = "list" => v.items # NoItem)
  BY <1>1, <1>2 DEF IsTask
<1>20. IsSeq(x) /\ (v.kind = "map" => IsEntries(x))
  BY <1>3, <1>19 DEF Fitting, IsEntries
<1>21. Says(Found, t, g2.key) = OC
  <2>1. CASE v.kind = "list"
    <3>1. Says(Found, t, g2.key) = Left(ItemParts(Found, v, x))[1]
      BY <1>18, <2>1 DEF Says
    <3>2. OC = FlattenSeq(ItemParts(Found, v, x))
      BY <1>19, <2>1 DEF OfContents, ItemParts
    <3>3. ItemParts(Found, v, x) \in Seq(Findings)
      BY <1>4, <1>5, <1>20, ItemPartsAre
    <3> QED  BY <3>1, <3>2, <3>3, LeftIs
  <2>2. CASE v.kind = "map"
    <3>1. Says(Found, t, g2.key) = Left(EntryParts(Found, v, x))[1]
      BY <1>18, <2>2 DEF Says
    <3>2. OC = FlattenSeq(EntryParts(Found, v, x))
      BY <2>2 DEF OfContents, EntryParts
    <3>3. EntryParts(Found, v, x) \in Seq(Findings)
      BY <1>4, <1>5, <1>20, <2>2, EntryPartsAre
    <3> QED  BY <3>1, <3>2, <3>3, LeftIs
  <2> QED  BY <1>19, <2>1, <2>2
<1> HIDE DEF OC, x, v
<1>22. PICK g1 : Puts(Found, u2, g2, t, real, g.at, g1)
  <2>1. 1 \in 1..(Len(x) + 1)
    BY <1>20, SeqsAre
  <2>2. Shape(t) /\ t.op \notin Inner /\ t.op # "keyDone" /\ t.op # "subscript"
    BY <1>18, <1>20, <2>1 DEF Shape, Inner
  <2>3. Says(Found, t, g2.key) \in Findings
    BY <1>6, <1>21
  <2>4. Agree(Up(real), g.at, g2.owed)
    BY <1>3, <1>4, <1>13, <1>15
  <2> QED  BY <1>2, <1>13, <1>15, <1>16, <1>18, <2>2, <2>3, <2>4, PutOne
<1>23. todo' = Cat(<<t>>, u2)
  <2>1. PICK w : w = <<t, l>>
    OBVIOUS
  <2>2. Then(w)
    BY <1>1, <1>10, <1>17, <2>1
  <2>3. todo' = Cat(w, u)
    BY <1>1, <1>7, <2>2, ThenIs
  <2> QED  BY <1>7, <1>12, <2>1, <2>3, TwoAre
<1>24. Stands(Found, todo', g1)
  BY <1>22, <1>23 DEF Puts
<1>25. g1.rest = g.rest
  BY <1>9, <1>13, <1>21, <1>22 DEF Puts
<1>26. Reaches(path', g1)
  <2>1. path' = real
    BY <1>1, <1>14 DEF Into
  <2> QED  BY <1>18, <1>22, <2>1 DEF Puts, Reaches
<1>27. forKey' = g1.key /\ g1.owed = g.owed
  BY <1>1, <1>2, <1>13, <1>22 DEF Puts
<1>28. Recorded(list, done, g1.owed)
  BY <1>27 DEF Now, Planned
<1> QED  BY <1>1, <1>24, <1>25, <1>26, <1>27, <1>28, StepPlans

-----------------------------------------------------------------------------
(* The steps from item to item.                                            *)

\* Between two items the walk is in the list's or map's field.
LEMMA AtItem ==
  ASSUME TypeOK, todo # <<>>, NEW done, NEW g, Now(done, g), task.op \in {"items", "entries"},
         ~Ended(task)
  PROVE  /\ task.rules \in FieldValidator /\ task.rules.field \in STRING
         /\ IsSeq(task.value) /\ task.next \in 1..Len(task.value)
         /\ task.next + 1 \in 1..(Len(task.value) + 1)
         /\ g.real = path /\ path \in Paths /\ path # <<>> /\ ~g.key
         /\ path[Len(path)].field = task.rules.field
         /\ Agree(Up(path), g.at, g.owed)
<1>1. /\ g \in Plan /\ Level(task, g) /\ Reaches(path, g) /\ IsTask(task)
  BY AtHand
<1>2. /\ ~g.key /\ ~g.leaves /\ g.real # <<>> /\ g.real[Len(g.real)].field = task.rules.field
      /\ Agree(Up(g.real), g.at, g.owed)
      /\ IsSeq(task.value) /\ task.next \in 1..(Len(task.value) + 1)
  BY <1>1 DEF Level, Shape
<1>3. g.real = path
  BY <1>1, <1>2 DEF Reaches
<1>4. task.rules \in FieldValidator
  BY <1>1 DEF IsTask
<1>5. PICK m, k : m = Len(task.value) /\ k = task.next
  OBVIOUS
<1>6. m \in Nat /\ k \in 1..(m + 1) /\ ~(k > m)
  BY <1>2, <1>5, SeqsAre DEF Ended
<1>7. k \in 1..m /\ k + 1 \in 1..(m + 1)
  BY <1>6
<1> QED  BY <1>2, <1>3, <1>4, <1>5, <1>7, PathIs, FieldIs

\* What the item at hand is to report, and the items after it.
OfNext(t) == IF t.op = "items" THEN OfItem(Found, t.rules, t.value, t.next)
                               ELSE OfEntry(Found, t.rules, t.value[t.next])

\* What a list or map reports from here on is this item's, then that from the next on.
LEMMA NextIs ==
  ASSUME TypeOK, todo # <<>>, NEW done, NEW g, Now(done, g), task.op \in {"items", "entries"},
         ~Ended(task), NEW t, t = Onward
  PROVE  /\ OfNext(task) \in Findings /\ Says(Found, t, g.key) \in Findings
         /\ Says(Found, task, g.key) = Cat(OfNext(task), Says(Found, t, g.key))
<1>1. PICK v, x, k : v = task.rules /\ x = task.value /\ k = task.next
  OBVIOUS
<1>2. v \in FieldValidator /\ IsSeq(x) /\ k \in 1..Len(x) /\ k + 1 \in 1..(Len(x) + 1)
  BY <1>1, AtItem
<1>3. Found \in Reports /\ IsTask(task)
  BY FoundIs, AtHand DEF TypeOK
<1>4. t.op = task.op /\ t.rules = v /\ t.value = x /\ t.next = k + 1
  BY <1>1 DEF Onward
<1>5. DOMAIN x = 1..Len(x)
  BY <1>2, SeqsAre
<1>6. CASE task.op = "items"
  <2>1. PICK ps : ps = ItemParts(Found, v, x)
    OBVIOUS
  <2>2. ps \in Seq(Findings) /\ Len(ps) = Len(x)
    BY <1>2, <1>3, <2>1, ItemPartsAre
  <2>3. Says(Found, task, g.key) = Left(ps)[k] /\ Says(Found, t, g.key) = Left(ps)[k + 1]
    BY <1>1, <1>4, <1>6, <2>1 DEF Says
  <2>4. ps[k] = OfNext(task)
    BY <1>1, <1>2, <1>5, <1>6, <2>1 DEF ItemParts, OfNext
  <2>5. ps[k] \in Findings
    BY <1>2, <2>2
  <2>6. Left(ps)[k] = Cat(ps[k], Left(ps)[k + 1]) /\ Left(ps)[k + 1] \in Findings
    BY <1>2, <2>2, LeftIs
  <2> QED  BY <2>3, <2>4, <2>5, <2>6
<1>7. CASE task.op = "entries"
  <2>1. PICK ps : ps = EntryParts(Found, v, x)
    OBVIOUS
  <2>2. ps \in Seq(Findings) /\ Len(ps) = Len(x)
    BY <1>1, <1>2, <1>3, <1>7, <2>1, EntryPartsAre DEF IsTask
  <2>3. Says(Found, task, g.key) = Left(ps)[k] /\ Says(Found, t, g.key) = Left(ps)[k + 1]
    BY <1>1, <1>4, <1>7, <2>1 DEF Says
  <2>4. ps[k] = OfNext(task)
    BY <1>1, <1>2, <1>5, <1>7, <2>1 DEF EntryParts, OfNext
  <2>5. ps[k] \in Findings
    BY <1>2, <2>2
  <2>6. Left(ps)[k] = Cat(ps[k], Left(ps)[k + 1]) /\ Left(ps)[k + 1] \in Findings
    BY <1>2, <2>2, LeftIs
  <2> QED  BY <2>3, <2>4, <2>5, <2>6
<1> QED  BY <1>6, <1>7

\* The items after the one at hand, put back on the agenda.
LEMMA PutOnward ==
  ASSUME TypeOK, todo # <<>>, NEW done, NEW g, Now(done, g), task.op \in {"items", "entries"},
         ~Ended(task), NEW t, t = Onward, NEW real \in Paths, real # <<>>,
         real[Len(real)].field = task.rules.field, Up(real) = Up(path)
  PROVE  \E u, h, g2 : /\ u = Tail(todo) /\ IsSeq(u) /\ Puts(Found, u, h, t, real, g.at, g2)
                       /\ g2.owed = g.owed /\ g2.key = g.key
                       /\ g.rest = Cat(Below(g.at, OfNext(task)), g2.rest)
<1>1. /\ g \in Plan /\ Level(task, g) /\ g.at \in Paths /\ g.real = path /\ ~g.key
      /\ Agree(Up(path), g.at, g.owed) /\ IsSeq(task.value)
      /\ task.next + 1 \in 1..(Len(task.value) + 1)
  BY AtHand, AtItem
<1>2. PICK u, h : /\ u = Tail(todo) /\ IsSeq(u) /\ Stands(Found, u, h) /\ h \in Plan
                  /\ Link(Found, task, g, h)
  BY NextPlan
<1>3. /\ g.rest = Cat(Below(g.at, Says(Found, task, g.key)), h.rest)
      /\ h.owed = g.owed /\ h.key = g.key /\ Reaches(path, h) /\ h.leaves /\ h.rest \in Findings
  BY <1>1, <1>2, PlanIs DEF Link
<1>4. Reaches(real, h)
  BY <1>3 DEF Reaches
<1>5. t.op = task.op /\ t.rules = task.rules /\ t.value = task.value /\ t.next = task.next + 1
  BY DEF Onward
<1>6. PICK a, b : a = OfNext(task) /\ b = Says(Found, t, g.key)
  OBVIOUS
<1>7. a \in Findings /\ b \in Findings /\ Says(Found, task, g.key) = Cat(a, b)
  BY <1>6, NextIs
<1>8. Shape(t) /\ t.op \notin Inner /\ t.op # "keyDone" /\ t.op # "subscript" /\ t.op # "leave"
  BY <1>1, <1>5 DEF Shape, Inner
<1>9. Says(Found, t, h.key) \in Findings
  BY <1>3, <1>6, <1>7
<1>10. PICK g2 : Puts(Found, u, h, t, real, g.at, g2)
  <2>1. real[Len(real)].field = t.rules.field /\ Agree(Up(real), g.at, h.owed) /\ ~h.key
    BY <1>1, <1>3, <1>5
  <2> QED  BY <1>1, <1>2, <1>3, <1>4, <1>8, <1>9, <2>1, PutOne
<1>11. g2.rest = Cat(Below(g.at, b), h.rest)
  BY <1>3, <1>6, <1>10 DEF Puts
<1>12. g.rest = Cat(Below(g.at, a), g2.rest)
  <2>1. PICK x, y : x = Below(g.at, a) /\ y = Below(g.at, b)
    OBVIOUS
  <2>2. x \in Findings /\ y \in Findings
    BY <1>1, <1>7, <2>1, BelowIs
  <2>3. Below(g.at, Cat(a, b)) = Cat(x, y)
    BY <1>1, <1>7, <2>1, BelowCat
  <2>4. g.rest = Cat(Cat(x, y), h.rest)
    BY <1>3, <1>7, <2>3
  <2> QED  BY <1>3, <1>11, <2>1, <2>2, <2>4, FindingsAssociative
<1> QED  BY <1>2, <1>3, <1>6, <1>10, <1>12 DEF Puts
\* An ignored item reports nothing.
LEMMA ItemSkippedStep ==
  ASSUME TypeOK, NEW done, NEW g, Now(done, g), ItemSkipped
  PROVE  Goes
<1>1. /\ todo # <<>> /\ task.op = "items" /\ task.op \in {"items", "entries"} /\ ~Ended(task)
      /\ Skipped(task.rules.items, task.value[task.next])
      /\ Then(<<Onward>>) /\ UNCHANGED <<path, forKey, list, abort>>
  BY DEF ItemSkipped, Doing, task
<1>2. PICK t : t = Onward
  OBVIOUS
<1>3. /\ path \in Paths /\ path # <<>> /\ path[Len(path)].field = task.rules.field
      /\ task.rules.field \in STRING
  BY <1>1, AtItem
<1>4. PICK u, h, g2 : /\ u = Tail(todo) /\ IsSeq(u) /\ Puts(Found, u, h, t, path, g.at, g2)
                      /\ g2.owed = g.owed /\ g2.key = g.key
                      /\ g.rest = Cat(Below(g.at, OfNext(task)), g2.rest)
  <2>1. PICK real : real = path
    OBVIOUS
  <2>2. real \in Paths /\ real # <<>> /\ real[Len(real)].field = task.rules.field
        /\ Up(real) = Up(path)
    BY <1>3, <2>1
  <2>3. \E u, h, g2 : /\ u = Tail(todo) /\ IsSeq(u) /\ Puts(Found, u, h, t, real, g.at, g2)
                      /\ g2.owed = g.owed /\ g2.key = g.key
                      /\ g.rest = Cat(Below(g.at, OfNext(task)), g2.rest)
    BY <1>1, <1>2, <2>2, PutOnward
  <2> QED  BY <2>1, <2>3
<1>5. todo' = Cat(<<t>>, u)
  <2>1. PICK w : w = <<t>>
    OBVIOUS
  <2>2. Then(w)
    BY <1>1, <1>2, <2>1
  <2> QED  BY <1>1, <1>4, <2>1, <2>2, ThenIs
<1>6. OfNext(task) = <<>>
  <2>1. OfNext(task) = Under(task.rules.field, task.next - 1, <<>>)
    BY <1>1 DEF OfNext, OfItem, OfPart, If
  <2>2. PICK e : e = <<Element(task.rules.field, task.next - 1)>>
    OBVIOUS
  <2>3. e \in Paths
    <3>1. task.next \in 1..Len(task.value) /\ IsSeq(task.value)
      BY <1>1, AtItem
    <3>2. task.next - 1 \in Nat
      BY <3>1, SeqsAre
    <3>3. Element(task.rules.field, task.next - 1) \in Elements
      BY <1>3, <3>2, ElementIs DEF Subs
    <3> QED  BY <2>2, <3>3 DEF Paths
  <2>4. Below(e, <<>>) = <<>>
    BY <2>3, BelowNothing
  <2> QED  BY <2>1, <2>2, <2>4 DEF Under
<1>7. g2.rest = g.rest
  <2>1. g.at \in Paths /\ g2.rest \in Findings
    BY <1>1, <1>4, AtHand, PlanIs DEF Puts
  <2>2. Below(g.at, OfNext(task)) = <<>>
    BY <1>6, <2>1, BelowNothing
  <2>3. Cat(<<>>, g2.rest) = g2.rest
    BY <2>1, NothingIs, FindingsCat
  <2> QED  BY <1>4, <2>2, <2>3
<1>8. Stands(Found, todo', g2)
  BY <1>4, <1>5 DEF Puts
<1>9. Reaches(path', g2)
  <2>1. t.op # "leave" /\ path' = path
    BY <1>1, <1>2 DEF Onward
  <2> QED  BY <1>4, <2>1 DEF Puts, Reaches
<1>10. forKey' = g2.key
  BY <1>1, <1>4, AtHand
<1>11. Recorded(list, done, g2.owed)
  BY <1>4 DEF Now, Planned
<1> QED  BY <1>1, <1>7, <1>8, <1>9, <1>10, <1>11, StepPlans

\* An item gets its index before it is walked, and the field loses it after.
LEMMA ItemStep ==
  ASSUME TypeOK, NEW done, NEW g, Now(done, g), Item
  PROVE  Goes
<1> DEFINE v == task.rules
           i == task.next - 1
           y == task.value[task.next]
<1>1. /\ todo # <<>> /\ task.op = "items" /\ task.op \in {"items", "entries"} /\ ~Ended(task)
      /\ ~Skipped(v.items, y)
      /\ path' = [path EXCEPT ![Len(path)].sub = i]
      /\ Then(<<ItemTask(v.items, y), Onward>>) /\ UNCHANGED <<forKey, list, abort>>
  BY DEF Item, Doing, task
<1>2. /\ path \in Paths /\ path # <<>> /\ path[Len(path)].field = v.field
      /\ v \in FieldValidator /\ v.field \in STRING /\ ~g.key /\ Agree(Up(path), g.at, g.owed)
      /\ task.next \in 1..Len(task.value) /\ IsSeq(task.value)
  BY <1>1, AtItem
<1>3. i \in Nat /\ i \in Subs
  BY <1>2, SeqsAre DEF Subs
<1>4. /\ g \in Plan /\ g.at \in Paths /\ forKey = g.key /\ IsTask(task)
  BY <1>1, AtHand
<1>5. v.items # NoItem /\ v.items \in ItemValidator
  BY <1>1, <1>2, <1>4, FieldIs DEF IsTask
<1>6. v.items.value \in ValueValidator
  BY <1>5 DEF ItemValidator
<1> DEFINE OV == OfValue(Found, v.items.value, y, FALSE)
<1>7. PICK no : no = FALSE
  OBVIOUS
<1>8. OV \in Findings /\ OV = OfValue(Found, v.items.value, y, no)
  <2>1. no \in BOOLEAN /\ OV = OfValue(Found, v.items.value, y, no)
    BY <1>7
  <2>2. Found \in Reports
    BY FoundIs DEF TypeOK
  <2> QED  BY <1>6, <2>1, <2>2, OfValueIs
<1>9. OfNext(task) = Under(v.field, i, OV)
  BY <1>1, <1>5 DEF OfNext, OfItem, OfPart, If
<1> HIDE DEF OV, y, i, v
<1>10. PICK real, at : real = Marked(path, Len(path), i) /\ at = Onto(g.at, v.field, i)
  OBVIOUS
<1>11. /\ real \in Paths /\ real # <<>> /\ real[Len(real)].field = v.field /\ Up(real) = Up(path)
       /\ Agree(real, at, g.owed)
  <2>1. PICK p, q, f, sub, owed : p = path /\ q = g.at /\ f = v.field /\ sub = i /\ owed = g.owed
    OBVIOUS
  <2>2. /\ p \in Paths /\ p # <<>> /\ q \in Paths /\ Agree(Up(p), q, owed) /\ f \in STRING
        /\ p[Len(p)].field = f /\ sub \in Subs
    BY <1>2, <1>3, <1>4, <2>1
  <2>3. real = Marked(p, Len(p), sub) /\ at = Onto(q, f, sub)
    BY <1>10, <2>1
  <2>4. /\ Agree(Marked(p, Len(p), sub), Onto(q, f, sub), owed)
        /\ Up(Marked(p, Len(p), sub)) = Up(p) /\ Marked(p, Len(p), sub) # <<>>
        /\ Marked(p, Len(p), sub) \in Paths
        /\ Marked(p, Len(p), sub)[Len(Marked(p, Len(p), sub))].field = f
    BY <2>2, AgreeMarked
  <2> QED  BY <2>1, <2>3, <2>4
<1>12. at \in Paths
  BY <1>2, <1>3, <1>4, <1>10, OntoIs
<1>13. PICK l, t : l = Onward /\ t = ItemTask(v.items, y)
  OBVIOUS
<1>14. PICK u, h, g2 : /\ u = Tail(todo) /\ IsSeq(u) /\ Puts(Found, u, h, l, real, g.at, g2)
                       /\ g2.owed = g.owed /\ g2.key = g.key
                       /\ g.rest = Cat(Below(g.at, OfNext(task)), g2.rest)
  <2>1. real[Len(real)].field = task.rules.field
    BY <1>11 DEF v
  <2> QED  BY <1>1, <1>11, <1>13, <2>1, PutOnward
<1>15. PICK u2 : u2 = Cat(<<l>>, u)
  OBVIOUS
<1>16. l.op # "leave"
  BY <1>1, <1>13 DEF Onward
<1>17. /\ IsSeq(u2) /\ Stands(Found, u2, g2) /\ Reaches(real, g2)
  BY <1>14, <1>15, <1>16 DEF Puts, Reaches
<1>18. t.op = "value" /\ t.rules = v.items.value /\ t.value = y
  BY <1>13 DEF ItemTask
<1>19. Says(Found, t, g2.key) = OV
  <2>1. Says(Found, t, g2.key) = OfValue(Found, v.items.value, y, g2.key)
    BY <1>18 DEF Says
  <2>2. g2.key = no
    <3>1. g.key \in BOOLEAN
      BY <1>4, PlanIs
    <3> QED  BY <1>2, <1>7, <1>14, <3>1
  <2> QED  BY <1>8, <2>1, <2>2
<1>20. PICK g1 : Puts(Found, u2, g2, t, real, at, g1)
  <2>1. Shape(t) /\ t.op # "keyDone" /\ t.op # "subscript" /\ t.op \notin {"items", "entries"}
    BY <1>18 DEF Shape
  <2>2. Says(Found, t, g2.key) \in Findings
    BY <1>8, <1>19
  <2>3. ~g2.key /\ Agree(real, at, g2.owed)
    BY <1>2, <1>11, <1>14
  <2> QED  BY <1>11, <1>12, <1>17, <2>1, <2>2, <2>3, PutOne
<1>21. todo' = Cat(<<t>>, u2)
  <2>1. PICK w : w = <<t, l>>
    OBVIOUS
  <2>2. Then(w)
    BY <1>1, <1>13, <2>1
  <2>3. todo' = Cat(w, u)
    BY <1>1, <1>14, <2>2, ThenIs
  <2> QED  BY <1>14, <1>15, <2>1, <2>3, TwoAre
<1>22. Stands(Found, todo', g1)
  BY <1>20, <1>21 DEF Puts
<1>23. g1.rest = g.rest
  <2>1. Below(g.at, Under(v.field, i, OV)) = Below(at, OV)
    <3>1. PICK q, f, sub, fs : q = g.at /\ f = v.field /\ sub = i /\ fs = OV
      OBVIOUS
    <3>2. q \in Paths /\ f \in STRING /\ sub \in Subs /\ fs \in Findings
      BY <1>2, <1>3, <1>4, <1>8, <3>1
    <3>3. Below(q, Under(f, sub, fs)) = Below(Onto(q, f, sub), fs)
      BY <3>2, OntoIs
    <3> QED  BY <1>10, <3>1, <3>3
  <2> QED  BY <1>9, <1>14, <1>19, <1>20, <2>1 DEF Puts
<1>24. Reaches(path', g1)
  <2>1. path' = real
    BY <1>1, <1>10 DEF Marked
  <2> QED  BY <1>18, <1>20, <2>1 DEF Puts, Reaches
<1>25. forKey' = g1.key /\ g1.owed = g.owed
  BY <1>1, <1>4, <1>14, <1>20 DEF Puts
<1>26. Recorded(list, done, g1.owed)
  BY <1>25 DEF Now, Planned
<1> QED  BY <1>1, <1>22, <1>23, <1>24, <1>25, <1>26, StepPlans
-----------------------------------------------------------------------------
(* The steps into an entry.                                                *)

\* The keys owed for the violations yet to come.
LEMMA RecordedOwing ==
  ASSUME NEW l, NEW done, NEW owed, Recorded(l, done, owed), NEW o, o.recorded = Len(l)
  PROVE  Recorded(l, done, owed \cup {o})
<1>1. PICK n \in Nat : n = Len(l)
  BY FindingsAre DEF Recorded
<1>2. /\ l \in Findings /\ done \in Findings /\ Len(done) = n
      /\ \A x \in owed : x.recorded \in 0..n
      /\ \A i \in 1..n :
           /\ l[i].rule = done[i].rule /\ l[i].key = done[i].key
           /\ Agree(l[i].path, done[i].path, {x \in owed : x.recorded < i})
  BY <1>1 DEF Recorded
<1>3. PICK all : all = owed \cup {o}
  OBVIOUS
<1>4. \A x \in all : x.recorded \in 0..n
  BY <1>1, <1>2, <1>3
<1>5. ASSUME NEW i \in 1..n
      PROVE  Agree(l[i].path, done[i].path, {x \in all : x.recorded < i})
  <2>1. {x \in all : x.recorded < i} = {x \in owed : x.recorded < i}
    BY <1>1, <1>3
  <2> QED  BY <1>2, <2>1
<1>6. Recorded(l, done, all)
  BY <1>1, <1>2, <1>4, <1>5 DEF Recorded
<1> QED  BY <1>3, <1>6

\* After an entry's debt, t, comes what h plans: until then the entry owes its subscript.
Indebted(B, u, h, t, real, o, g) ==
  /\ IsSeq(Cat(<<t>>, u)) /\ Stands(B, Cat(<<t>>, u), g) /\ g \in Plan
  /\ g.real = real /\ g.owed = h.owed \cup {o} /\ g.key = h.key /\ ~g.leaves
  /\ g.rest = h.rest

\* The call that gives an entry's violations their key, put on the agenda.
LEMMA PutSubscript ==
  ASSUME NEW B, NEW u, IsSeq(u), NEW h, Stands(B, u, h), NEW t, t.op = "subscript", ~h.key,
         t.key \in Keys, t.recorded \in Nat,
         NEW real \in Paths, Reaches(real, h), NEW o, o = Owing(t, real)
  PROVE  \E g : Indebted(B, u, h, t, real, o, g)
<1>1. h \in Plan
  BY StandsIs
<1>2. h.key \in BOOLEAN /\ h.owed \in SUBSET Owes /\ h.rest \in Findings
  BY <1>1, PlanIs
<1>3. PICK leaves, owed, at : leaves = FALSE /\ owed = h.owed \cup {o} /\ at = real
  OBVIOUS
<1>4. leaves \in BOOLEAN /\ owed \in SUBSET Owes /\ at \in Paths
  <2>1. o \in Owes
    BY PathsAre DEF Owing, Owes
  <2> QED  BY <1>2, <1>3, <2>1
<1>5. PICK g : g = Planning(real, at, h.key, leaves, owed, h.rest)
  OBVIOUS
<1>6. /\ g \in Plan /\ g.real = real /\ g.at = at /\ g.key = h.key /\ g.leaves = leaves
      /\ g.owed = owed /\ g.rest = h.rest
  BY <1>2, <1>4, <1>5, PlanningIs
<1>7. ~g.leaves /\ ~g.key
  BY <1>3, <1>6
<1>8. Level(t, g)
  BY <1>6, <1>7 DEF Level, Shape, Inner
<1>9. g.rest = Cat(Below(g.at, Says(B, t, g.key)), h.rest)
  <2>1. Says(B, t, g.key) = <<>>
    BY DEF Says
  <2>2. Below(g.at, Says(B, t, g.key)) = <<>>
    BY <1>4, <1>6, <2>1, BelowNothing
  <2>3. Cat(<<>>, h.rest) = h.rest
    BY <1>2, NothingIs, FindingsCat
  <2> QED  BY <1>6, <2>2, <2>3
<1>10. Link(B, t, g, h)
  BY <1>3, <1>6, <1>9 DEF Link
<1>11. IsSeq(Cat(<<t>>, u)) /\ Stands(B, Cat(<<t>>, u), g)
  BY <1>6, <1>8, <1>10, PushOne
<1> QED  BY <1>3, <1>6, <1>7, <1>11 DEF Indebted

\* Four tasks before an agenda are put one by one.
LEMMA FourAre ==
  ASSUME NEW a, NEW b, NEW c, NEW d, NEW u, IsSeq(u)
  PROVE  Cat(<<a, b, c, d>>, u) = Cat(<<a>>, Cat(<<b>>, Cat(<<c>>, Cat(<<d>>, u))))
<1>1. PICK x, y, w : x = <<a, b>> /\ y = <<c, d>> /\ w = <<a, b, c, d>>
  OBVIOUS
<1>2. PICK v : v = Cat(y, u)
  OBVIOUS
<1> DEFINE S == {u[i] : i \in DOMAIN u} \cup {a, b, c, d}
<1>3. u \in Seq(S)
  BY SeqMonotonic DEF IsSeq
<1>4. a \in S /\ b \in S /\ c \in S /\ d \in S
  OBVIOUS
<1> HIDE DEF S
<1>5. x \in Seq(S) /\ y \in Seq(S) /\ w \in Seq(S) /\ Len(x) = 2 /\ Len(y) = 2 /\ Len(w) = 4
      /\ x[1] = a /\ x[2] = b /\ y[1] = c /\ y[2] = d
      /\ w[1] = a /\ w[2] = b /\ w[3] = c /\ w[4] = d
  BY <1>1, <1>4
<1>6. w = Cat(x, y)
  <2>1. PICK z : z = Cat(x, y)
    OBVIOUS
  <2>2. z \in Seq(S) /\ Len(z) = 4
    <3>1. z \in Seq(S) /\ Len(z) = Len(x) + Len(y)
      BY <1>5, <2>1, CatIs
    <3> QED  BY <1>5, <3>1
  <2>3. /\ \A i \in 1..Len(x) : z[i] = x[i]
        /\ \A i \in (Len(x) + 1)..(Len(x) + Len(y)) : z[i] = y[i - Len(x)]
    BY <1>5, <2>1, CatMembers
  <2>4. /\ \A i \in 1..2 : z[i] = x[i]
        /\ \A i \in 3..4 : z[i] = y[i - 2]
    BY <1>5, <2>3
  <2>5. z[1] = a /\ z[2] = b /\ z[3] = c /\ z[4] = d
    BY <1>5, <2>4
  <2>6. \A i \in 1..4 : w[i] = z[i]
    BY <1>5, <2>5
  <2>7. w = z
    BY <1>5, <2>2, <2>6, SameSeq
  <2> QED  BY <2>1, <2>7
<1>7. Cat(Cat(x, y), u) = Cat(x, Cat(y, u))
  BY <1>3, <1>5, CatAssociative
<1>8. v = Cat(<<c>>, Cat(<<d>>, u))
  BY <1>1, <1>2, TwoAre
<1>9. IsSeq(v)
  <2>1. IsSeq(y)
    BY <1>5, SeqIs
  <2> QED  BY <1>2, <2>1, JoinedIs
<1>10. Cat(x, v) = Cat(<<a>>, Cat(<<b>>, v))
  BY <1>1, <1>9, TwoAre
<1> QED  BY <1>1, <1>2, <1>6, <1>7, <1>8, <1>10

\* An entry: its key, its value, then the debt of its subscript.
LEMMA EntryStep ==
  ASSUME TypeOK, NEW done, NEW g, Now(done, g), Entry
  PROVE  Goes
<1> DEFINE v == task.rules
           e == task.value[task.next]
           t1 == [op |-> "key", item |-> v.keys, value |-> e.key]
           t2 == [op |-> "entryValue", item |-> v.values, value |-> e.value]
           t3 == [op |-> "subscript", recorded |-> Len(list), key |-> e.key]
           K == OfPart(Found, v.keys, e.key, TRUE)
           V == OfPart(Found, v.values, e.value, FALSE)
<1>1. /\ todo # <<>> /\ task.op = "entries" /\ task.op \in {"items", "entries"} /\ ~Ended(task)
      /\ Then(<<t1, t2, t3, Onward>>) /\ UNCHANGED <<path, forKey, list, abort>>
  BY DEF Entry, Doing, task
<1>2. /\ path \in Paths /\ path # <<>> /\ path[Len(path)].field = v.field
      /\ v \in FieldValidator /\ v.field \in STRING /\ ~g.key /\ Agree(Up(path), g.at, g.owed)
      /\ task.next \in 1..Len(task.value) /\ IsSeq(task.value)
  BY <1>1, AtItem
<1>3. /\ g \in Plan /\ g.at \in Paths /\ forKey = g.key /\ IsTask(task)
  BY <1>1, AtHand
<1>4. e.key \in Keys
  <2>1. task.next \in DOMAIN task.value
    BY <1>2, SeqsAre
  <2> QED  BY <1>1, <1>3, <2>1 DEF IsTask, IsEntries
<1>5. PICK no, yes : no = FALSE /\ yes = TRUE
  OBVIOUS
<1>6. /\ K \in Findings /\ V \in Findings
      /\ K = OfPart(Found, v.keys, e.key, yes) /\ V = OfPart(Found, v.values, e.value, no)
  <2>1. /\ K = OfPart(Found, v.keys, e.key, yes) /\ V = OfPart(Found, v.values, e.value, no)
    BY <1>5
  <2>2. no \in BOOLEAN /\ yes \in BOOLEAN
    BY <1>5
  <2>3. Found \in Reports /\ v.keys \in ItemValidator \cup {NoItem}
        /\ v.values \in ItemValidator \cup {NoItem}
    BY <1>2, FoundIs, FieldIs DEF TypeOK
  <2> QED  BY <2>1, <2>2, <2>3, OfPartIs
<1>7. OfNext(task) = Under(v.field, e.key, Cat(K, V))
  BY <1>1, <1>2, <1>4, FoundIs, OfEntryIs DEF OfNext, TypeOK
<1>8. PICK at : at = Onto(g.at, v.field, e.key)
  OBVIOUS
<1>9. PICK l, s, t, r : l = Onward /\ s = t3 /\ t = t2 /\ r = t1
  OBVIOUS
<1>10. PICK k : k = e.key
  OBVIOUS
<1>11. /\ s.op = "subscript" /\ s.recorded = Len(list) /\ s.key = k
       /\ t.op = "entryValue" /\ t.item = v.values /\ t.value = e.value
       /\ r.op = "key" /\ r.item = v.keys /\ r.value = k
       /\ l.op = "entries" /\ k \in Keys
  BY <1>1, <1>4, <1>9, <1>10 DEF Onward
<1> HIDE DEF K, V, t1, t2, t3
<1>12. PICK u, h, g4 : /\ u = Tail(todo) /\ IsSeq(u) /\ Puts(Found, u, h, l, path, g.at, g4)
                       /\ g4.owed = g.owed /\ g4.key = g.key
                       /\ g.rest = Cat(Below(g.at, OfNext(task)), g4.rest)
  <2>1. PICK real : real = path
    OBVIOUS
  <2>2. real \in Paths /\ real # <<>> /\ real[Len(real)].field = task.rules.field
        /\ Up(real) = Up(path)
    BY <1>2, <2>1
  <2>3. \E u, h, g4 : /\ u = Tail(todo) /\ IsSeq(u) /\ Puts(Found, u, h, l, real, g.at, g4)
                      /\ g4.owed = g.owed /\ g4.key = g.key
                      /\ g.rest = Cat(Below(g.at, OfNext(task)), g4.rest)
    BY <1>1, <1>9, <2>2, PutOnward
  <2> QED  BY <2>1, <2>3
<1>13. PICK u4, o : u4 = Cat(<<l>>, u) /\ o = Owing(s, path)
  OBVIOUS
<1>14. /\ IsSeq(u4) /\ Stands(Found, u4, g4) /\ Reaches(path, g4) /\ ~g4.key
       /\ g4.rest \in Findings
  BY <1>2, <1>11, <1>12, <1>13, PlanIs DEF Puts, Reaches
<1>15. Len(list) \in Nat
  BY SeqsAre DEF TypeOK
<1>16. PICK g3 : /\ IsSeq(Cat(<<s>>, u4)) /\ Stands(Found, Cat(<<s>>, u4), g3) /\ g3 \in Plan
                 /\ g3.real = path /\ g3.owed = g4.owed \cup {o} /\ g3.key = g4.key /\ ~g3.leaves
                 /\ g3.rest = g4.rest
  <2>1. s.op = "subscript" /\ s.key \in Keys /\ s.recorded \in Nat
    BY <1>11, <1>15
  <2>2. PICK real : real = path
    OBVIOUS
  <2>3. real \in Paths /\ Reaches(real, g4) /\ o = Owing(s, real)
    BY <1>2, <1>3, <1>13, <1>14, <2>2
  <2>4. \E g3 : Indebted(Found, u4, g4, s, real, o, g3)
    BY <1>14, <2>1, <2>3, PutSubscript
  <2>5. PICK g3 : Indebted(Found, u4, g4, s, real, o, g3)
    BY <2>4
  <2> QED  BY <2>2, <2>5 DEF Indebted
<1>17. PICK u3 : u3 = Cat(<<s>>, u4)
  OBVIOUS
<1>18. /\ IsSeq(u3) /\ Stands(Found, u3, g3) /\ Reaches(path, g3) /\ ~g3.key /\ g3.key = g.key
       /\ g3.owed = g.owed \cup {o} /\ g3.rest = g4.rest
  BY <1>2, <1>12, <1>16, <1>17 DEF Reaches
<1>19. at \in Paths /\ Agree(path, at, g3.owed)
  <2>1. k \in Subs
    BY <1>11 DEF Subs
  <2>2. PICK p, q, f, owed : p = path /\ q = g.at /\ f = v.field /\ owed = g.owed
    OBVIOUS
  <2>3. /\ p \in Paths /\ p # <<>> /\ q \in Paths /\ Agree(Up(p), q, owed) /\ f \in STRING
        /\ p[Len(p)].field = f
    BY <1>2, <1>3, <2>2
  <2>4. o.depth = Len(p) /\ o.key = k
    BY <1>11, <1>13, <2>2 DEF Owing
  <2>5. Agree(p, Onto(q, f, k), owed \cup {o})
    BY <1>11, <2>3, <2>4, AgreeOwing
  <2>6. Onto(q, f, k) \in Paths
    BY <2>1, <2>3, OntoIs
  <2> QED  BY <1>8, <1>10, <1>18, <2>2, <2>5, <2>6
<1>20. Says(Found, t, g3.key) = V
  BY <1>11 DEF Says, V
<1>21. PICK g2 : Puts(Found, u3, g3, t, path, at, g2)
  <2>1. Shape(t) /\ t.op # "keyDone" /\ t.op # "subscript" /\ t.op \notin {"items", "entries"}
    BY <1>11 DEF Shape
  <2>2. Says(Found, t, g3.key) \in Findings
    BY <1>6, <1>20
  <2> QED  BY <1>2, <1>18, <1>19, <2>1, <2>2, PutOne
<1>22. PICK u2 : u2 = Cat(<<t>>, u3)
  OBVIOUS
<1>23. /\ IsSeq(u2) /\ Stands(Found, u2, g2) /\ Reaches(path, g2) /\ ~g2.key /\ g2.key = g.key
       /\ g2.owed = g3.owed /\ g2.rest = Cat(Below(at, V), g4.rest)
  BY <1>11, <1>18, <1>20, <1>21, <1>22 DEF Puts, Reaches
<1>24. Says(Found, r, g2.key) = K
  BY <1>10, <1>11 DEF Says, K
<1>25. PICK g1 : Puts(Found, u2, g2, r, path, at, g1)
  <2>1. Shape(r) /\ r.op # "keyDone" /\ r.op # "subscript" /\ r.op \notin {"items", "entries"}
    BY <1>11 DEF Shape
  <2>2. Says(Found, r, g2.key) \in Findings
    BY <1>6, <1>24
  <2>3. Agree(path, at, g2.owed)
    BY <1>19, <1>23
  <2> QED  BY <1>2, <1>19, <1>23, <2>1, <2>2, <2>3, PutOne
<1>26. todo' = Cat(<<r>>, u2)
  <2>1. PICK w : w = <<r, t, s, l>>
    OBVIOUS
  <2>2. Then(w)
    BY <1>1, <1>9, <2>1
  <2>3. todo' = Cat(w, u)
    BY <1>1, <1>12, <2>2, ThenIs
  <2>4. Cat(w, u) = Cat(<<r>>, Cat(<<t>>, Cat(<<s>>, Cat(<<l>>, u))))
    BY <1>12, <2>1, FourAre
  <2> QED  BY <1>13, <1>17, <1>22, <2>3, <2>4
<1>27. Stands(Found, todo', g1)
  BY <1>25, <1>26 DEF Puts
<1>28. g1.rest = g.rest
  <2>1. PICK a, b, c : a = Below(at, K) /\ b = Below(at, V) /\ c = g4.rest
    OBVIOUS
  <2>2. a \in Findings /\ b \in Findings /\ c \in Findings
    BY <1>6, <1>14, <1>19, <2>1, BelowIs
  <2>3. PICK m : m = Cat(K, V)
    OBVIOUS
  <2>4. m \in Findings
    BY <1>6, <2>3, FindingsCat
  <2>5. Below(g.at, OfNext(task)) = Below(at, m)
    <3>1. PICK q, f : q = g.at /\ f = v.field
      OBVIOUS
    <3>2. q \in Paths /\ f \in STRING /\ k \in Subs
      BY <1>2, <1>3, <1>11, <3>1 DEF Subs
    <3>3. Below(q, Under(f, k, m)) = Below(Onto(q, f, k), m)
      BY <2>4, <3>2, OntoIs
    <3> QED  BY <1>7, <1>8, <1>10, <2>3, <3>1, <3>3
  <2>6. Below(at, m) = Cat(a, b)
    BY <1>6, <1>19, <2>1, <2>3, BelowCat
  <2>7. g.rest = Cat(Cat(a, b), c)
    BY <1>12, <2>1, <2>5, <2>6
  <2>8. g1.rest = Cat(a, Cat(b, c))
    BY <1>23, <1>24, <1>25, <2>1 DEF Puts
  <2> QED  BY <2>2, <2>7, <2>8, FindingsAssociative
<1>29. Reaches(path', g1)
  BY <1>1, <1>11, <1>25 DEF Puts, Reaches
<1>30. forKey' = g1.key /\ g1.owed = g.owed \cup {o}
  BY <1>1, <1>3, <1>18, <1>23, <1>25 DEF Puts
<1>31. Recorded(list, done, g1.owed)
  <2>1. Recorded(list, done, g.owed)
    BY DEF Now, Planned
  <2>2. o.recorded = Len(list)
    BY <1>11, <1>13 DEF Owing
  <2> QED  BY <1>30, <2>1, <2>2, RecordedOwing
<1> QED  BY <1>1, <1>27, <1>28, <1>29, <1>30, <1>31, StepPlans
\* The value of an entry is walked at the field, for the subscript is owed.
LEMMA EntryValueStep ==
  ASSUME TypeOK, NEW done, NEW g, Now(done, g), EntryValue
  PROVE  Goes
<1>1. /\ todo # <<>> /\ task.op = "entryValue" /\ ~EntrySkipped
      /\ Then(<<ItemTask(task.item, task.value)>>) /\ UNCHANGED <<path, forKey, list, abort>>
  BY DEF EntryValue, Doing, task
<1>2. /\ g \in Plan /\ Level(task, g) /\ Reaches(path, g) /\ forKey = g.key
      /\ g.at \in Paths /\ IsTask(task)
  BY <1>1, AtHand
<1>3. ~g.key /\ ~g.leaves /\ Agree(g.real, g.at, g.owed)
  BY <1>1, <1>2 DEF Level, Inner
<1>4. g.real = path /\ path \in Paths /\ Found \in Reports
  BY <1>2, <1>3, PathIs, FoundIs DEF Reaches, TypeOK
<1>5. PICK item, y, no : item = task.item /\ y = task.value /\ no = FALSE
  OBVIOUS
<1>6. item # NoItem /\ ~Skipped(item, y) /\ item \in ItemValidator
  BY <1>1, <1>2, <1>5 DEF EntrySkipped, IsTask
<1>7. item.value \in ValueValidator /\ no \in BOOLEAN
  BY <1>5, <1>6 DEF ItemValidator
<1>8. Says(Found, task, g.key) = OfValue(Found, item.value, y, no)
  BY <1>1, <1>5, <1>6 DEF Says, OfPart, If
<1>9. PICK u, h : /\ u = Tail(todo) /\ IsSeq(u) /\ Stands(Found, u, h) /\ h \in Plan
                  /\ Link(Found, task, g, h)
  BY <1>1, NextPlan
<1>10. /\ g.rest = Cat(Below(g.at, OfValue(Found, item.value, y, no)), h.rest)
       /\ h.owed = g.owed /\ h.key = g.key /\ Reaches(path, h)
  BY <1>1, <1>4, <1>8, <1>9 DEF Link
<1>11. PICK t : t = ItemTask(item, y)
  OBVIOUS
<1>12. t.op = "value" /\ t.rules = item.value /\ t.value = y
  BY <1>11 DEF ItemTask
<1>13. Says(Found, t, h.key) = OfValue(Found, item.value, y, no)
  <2>1. Says(Found, t, h.key) = OfValue(Found, item.value, y, h.key)
    BY <1>12 DEF Says
  <2>2. h.key = no
    <3>1. g.key \in BOOLEAN
      BY <1>2, PlanIs
    <3> QED  BY <1>3, <1>5, <1>10, <3>1
  <2> QED  BY <2>1, <2>2
<1>14. PICK g1 : Puts(Found, u, h, t, path, g.at, g1)
  <2>1. Shape(t) /\ t.op # "keyDone" /\ t.op # "subscript" /\ t.op \notin {"items", "entries"}
    BY <1>12 DEF Shape
  <2>2. Says(Found, t, h.key) \in Findings
    BY <1>4, <1>7, <1>13, OfValueIs
  <2>3. ~h.key /\ Agree(path, g.at, h.owed)
    BY <1>3, <1>4, <1>10
  <2> QED  BY <1>2, <1>4, <1>9, <1>10, <2>1, <2>2, <2>3, PutOne
<1>15. todo' = Cat(<<t>>, u)
  <2>1. PICK w : w = <<t>>
    OBVIOUS
  <2>2. Then(w)
    BY <1>1, <1>5, <1>11, <2>1
  <2> QED  BY <1>1, <1>9, <2>1, <2>2, ThenIs
<1>16. Stands(Found, todo', g1)
  BY <1>14, <1>15 DEF Puts
<1>17. g1.rest = g.rest /\ g1.owed = g.owed /\ forKey' = g1.key
  BY <1>1, <1>2, <1>10, <1>13, <1>14 DEF Puts
<1>18. Reaches(path', g1)
  BY <1>1, <1>12, <1>14 DEF Puts, Reaches
<1>19. Recorded(list, done, g1.owed)
  BY <1>17 DEF Now, Planned
<1> QED  BY <1>1, <1>16, <1>17, <1>18, <1>19, StepPlans

\* The call that puts the flag back, put on the agenda.
LEMMA PutKeyDone ==
  ASSUME NEW B, NEW u, IsSeq(u), NEW h, Stands(B, u, h), NEW t, t.op = "keyDone", ~h.key,
         NEW real \in Paths, NEW at \in Paths, Reaches(real, h)
  PROVE  \E g : /\ IsSeq(Cat(<<t>>, u)) /\ Stands(B, Cat(<<t>>, u), g) /\ g \in Plan
                /\ g.real = real /\ g.owed = h.owed /\ g.key /\ ~g.leaves
                /\ g.rest = h.rest
<1>1. h \in Plan
  BY StandsIs
<1>2. h.key \in BOOLEAN /\ h.owed \in SUBSET Owes /\ h.rest \in Findings
  BY <1>1, PlanIs
<1>3. PICK leaves, key : leaves = FALSE /\ key = TRUE
  OBVIOUS
<1>4. leaves \in BOOLEAN /\ key \in BOOLEAN
  BY <1>3
<1>5. PICK g : g = Planning(real, at, key, leaves, h.owed, h.rest)
  OBVIOUS
<1>6. /\ g \in Plan /\ g.real = real /\ g.at = at /\ g.key = key /\ g.leaves = leaves
      /\ g.owed = h.owed /\ g.rest = h.rest
  BY <1>2, <1>4, <1>5, PlanningIs
<1>7. ~g.leaves /\ g.key
  BY <1>3, <1>6
<1>8. Level(t, g)
  BY <1>6, <1>7 DEF Level, Shape, Inner
<1>9. g.rest = Cat(Below(g.at, Says(B, t, g.key)), h.rest)
  <2>1. Says(B, t, g.key) = <<>>
    BY DEF Says
  <2>2. Below(g.at, Says(B, t, g.key)) = <<>>
    BY <1>6, <2>1, BelowNothing
  <2>3. Cat(<<>>, h.rest) = h.rest
    BY <1>2, NothingIs, FindingsCat
  <2> QED  BY <1>6, <2>2, <2>3
<1>10. h.key = FALSE
  BY <1>2
<1>11. Link(B, t, g, h)
  BY <1>6, <1>9, <1>10 DEF Link
<1>12. IsSeq(Cat(<<t>>, u)) /\ Stands(B, Cat(<<t>>, u), g)
  BY <1>6, <1>8, <1>11, PushOne
<1> QED  BY <1>6, <1>7, <1>12

\* A key is walked as one, and what follows is not.
LEMMA KeyStep ==
  ASSUME TypeOK, NEW done, NEW g, Now(done, g), Key
  PROVE  Goes
<1>1. /\ todo # <<>> /\ task.op = "key" /\ ~EntrySkipped
      /\ Then(<<ItemTask(task.item, task.value), [op |-> "keyDone"]>>)
      /\ forKey' = TRUE /\ UNCHANGED <<path, list, abort>>
  BY DEF Key, Doing, task
<1>2. /\ g \in Plan /\ Level(task, g) /\ Reaches(path, g) /\ forKey = g.key
      /\ g.at \in Paths /\ IsTask(task)
  BY <1>1, AtHand
<1>3. ~g.key /\ ~g.leaves /\ Agree(g.real, g.at, g.owed) /\ task.value \in Keys
  BY <1>1, <1>2 DEF Level, Inner, Shape
<1>4. g.real = path /\ path \in Paths /\ Found \in Reports
  BY <1>2, <1>3, PathIs, FoundIs DEF Reaches, TypeOK
<1>5. PICK item, y, yes : item = task.item /\ y = task.value /\ yes = TRUE
  OBVIOUS
<1>6. item # NoItem /\ ~Skipped(item, y) /\ item \in ItemValidator /\ y \notin Nodes
  BY <1>1, <1>2, <1>3, <1>5, KeysAssumption DEF EntrySkipped, IsTask
<1>7. item.value \in ValueValidator /\ yes \in BOOLEAN
  BY <1>5, <1>6 DEF ItemValidator
<1>8. Says(Found, task, g.key) = OfValue(Found, item.value, y, yes)
  BY <1>1, <1>5, <1>6 DEF Says, OfPart, If
<1>9. PICK u, h : /\ u = Tail(todo) /\ IsSeq(u) /\ Stands(Found, u, h) /\ h \in Plan
                  /\ Link(Found, task, g, h)
  BY <1>1, NextPlan
<1>10. /\ g.rest = Cat(Below(g.at, OfValue(Found, item.value, y, yes)), h.rest)
       /\ h.owed = g.owed /\ h.key = g.key /\ Reaches(path, h)
  BY <1>1, <1>4, <1>8, <1>9 DEF Link
<1>11. PICK l : l = [op |-> "keyDone"]
  OBVIOUS
<1>12. PICK g2 : /\ IsSeq(Cat(<<l>>, u)) /\ Stands(Found, Cat(<<l>>, u), g2) /\ g2 \in Plan
                 /\ g2.real = path /\ g2.owed = h.owed /\ g2.key /\ ~g2.leaves
                 /\ g2.rest = h.rest
  <2>1. l.op = "keyDone" /\ ~h.key
    BY <1>3, <1>10, <1>11
  <2> QED  BY <1>2, <1>4, <1>9, <1>10, <2>1, PutKeyDone
<1>13. PICK u2 : u2 = Cat(<<l>>, u)
  OBVIOUS
<1>14. IsSeq(u2) /\ Stands(Found, u2, g2) /\ Reaches(path, g2)
  BY <1>12, <1>13 DEF Reaches
<1>15. PICK t : t = ItemTask(item, y)
  OBVIOUS
<1>16. t.op = "value" /\ t.rules = item.value /\ t.value = y
  BY <1>15 DEF ItemTask
<1>17. Says(Found, t, g2.key) = OfValue(Found, item.value, y, yes)
  <2>1. Says(Found, t, g2.key) = OfValue(Found, item.value, y, g2.key)
    BY <1>16 DEF Says
  <2>2. g2.key = yes
    <3>1. g2.key \in BOOLEAN
      BY <1>12, PlanIs
    <3> QED  BY <1>5, <1>12, <3>1
  <2> QED  BY <2>1, <2>2
<1>18. PICK g1 : Puts(Found, u2, g2, t, path, g.at, g1)
  <2>1. Shape(t) /\ t.op # "keyDone" /\ t.op # "subscript" /\ t.op \notin {"items", "entries"}
        /\ t.op \in {"check", "value"} /\ t.value \notin Nodes
    BY <1>6, <1>16 DEF Shape
  <2>2. Says(Found, t, g2.key) \in Findings
    BY <1>4, <1>7, <1>17, OfValueIs
  <2>3. Agree(path, g.at, g2.owed)
    BY <1>3, <1>4, <1>10, <1>12
  <2> QED  BY <1>2, <1>4, <1>14, <2>1, <2>2, <2>3, PutOne
<1>19. todo' = Cat(<<t>>, u2)
  <2>1. PICK w : w = <<t, l>>
    OBVIOUS
  <2>2. Then(w)
    BY <1>1, <1>5, <1>11, <1>15, <2>1
  <2>3. todo' = Cat(w, u)
    BY <1>1, <1>9, <2>2, ThenIs
  <2> QED  BY <1>9, <1>13, <2>1, <2>3, TwoAre
<1>20. Stands(Found, todo', g1)
  BY <1>18, <1>19 DEF Puts
<1>21. g1.rest = g.rest /\ g1.owed = g.owed
  BY <1>10, <1>12, <1>17, <1>18 DEF Puts
<1>22. forKey' = g1.key
  <2>1. g2.key \in BOOLEAN /\ g1.key = g2.key
    BY <1>12, <1>18, PlanIs DEF Puts
  <2> QED  BY <1>1, <1>12, <2>1
<1>23. Reaches(path', g1)
  BY <1>1, <1>16, <1>18 DEF Puts, Reaches
<1>24. Recorded(list, done, g1.owed)
  BY <1>21 DEF Now, Planned
<1> QED  BY <1>1, <1>20, <1>21, <1>22, <1>23, <1>24, StepPlans
-----------------------------------------------------------------------------
(* The steps that return.                                                  *)

\* Leaving a field takes it off the path.
LEMMA LeaveStep ==
  ASSUME TypeOK, NEW done, NEW g, Now(done, g), Leave
  PROVE  Goes
<1>1. /\ todo # <<>> /\ task.op = "leave"
      /\ path' = Up(path) /\ Then(<<>>) /\ UNCHANGED <<forKey, list, abort>>
  BY DEF Leave, Returning, task, Up
<1>2. /\ g \in Plan /\ Level(task, g) /\ Reaches(path, g) /\ forKey = g.key /\ g.at \in Paths
  BY <1>1, AtHand
<1>3. g.real = path'
  BY <1>1, <1>2 DEF Level, Reaches
<1>4. PICK u, h : /\ u = Tail(todo) /\ IsSeq(u) /\ Stands(Found, u, h) /\ h \in Plan
                  /\ Link(Found, task, g, h)
  BY <1>1, NextPlan
<1>5. h.owed = g.owed /\ h.key = g.key /\ Reaches(path', h)
  BY <1>1, <1>3, <1>4 DEF Link
<1>6. h.rest = g.rest
  <2>1. h.rest \in Findings
    BY <1>4, PlanIs
  <2>2. Says(Found, task, g.key) = <<>>
    BY <1>1 DEF Says
  <2>3. Below(g.at, Says(Found, task, g.key)) = <<>>
    BY <1>2, <2>2, BelowNothing
  <2>4. Cat(<<>>, h.rest) = h.rest
    BY <2>1, NothingIs, FindingsCat
  <2> QED  BY <1>4, <2>3, <2>4 DEF Link
<1>7. todo' = u
  <2>1. PICK w : w = <<>>
    OBVIOUS
  <2> QED  BY <1>1, <1>4, <2>1, ThenIs
<1>8. Stands(Found, todo', h)
  BY <1>4, <1>7
<1>9. forKey' = h.key
  BY <1>1, <1>2, <1>5
<1>10. Recorded(list, done, h.owed)
  BY <1>5 DEF Now, Planned
<1> QED  BY <1>1, <1>5, <1>6, <1>8, <1>9, <1>10, StepPlans

\* After the key, violations are no longer of keys.
LEMMA KeyDoneStep ==
  ASSUME TypeOK, NEW done, NEW g, Now(done, g), KeyDone
  PROVE  Goes
<1>1. /\ todo # <<>> /\ task.op = "keyDone"
      /\ forKey' = FALSE /\ Then(<<>>) /\ UNCHANGED <<path, list, abort>>
  BY DEF KeyDone, Returning, task
<1>2. /\ g \in Plan /\ Level(task, g) /\ Reaches(path, g) /\ g.at \in Paths
  BY <1>1, AtHand
<1>3. g.real = path
  BY <1>1, <1>2 DEF Level, Reaches
<1>4. PICK u, h : /\ u = Tail(todo) /\ IsSeq(u) /\ Stands(Found, u, h) /\ h \in Plan
                  /\ Link(Found, task, g, h)
  BY <1>1, NextPlan
<1>5. h.owed = g.owed /\ Reaches(path', h)
  BY <1>1, <1>3, <1>4 DEF Link
<1>6. h.rest = g.rest
  <2>1. h.rest \in Findings
    BY <1>4, PlanIs
  <2>2. Says(Found, task, g.key) = <<>>
    BY <1>1 DEF Says
  <2>3. Below(g.at, Says(Found, task, g.key)) = <<>>
    BY <1>2, <2>2, BelowNothing
  <2>4. Cat(<<>>, h.rest) = h.rest
    BY <2>1, NothingIs, FindingsCat
  <2> QED  BY <1>4, <2>3, <2>4 DEF Link
<1>7. todo' = u
  <2>1. PICK w : w = <<>>
    OBVIOUS
  <2> QED  BY <1>1, <1>4, <2>1, ThenIs
<1>8. Stands(Found, todo', h)
  BY <1>4, <1>7
<1>9. forKey' = h.key
  BY <1>1, <1>4 DEF Link
<1>10. Recorded(list, done, h.owed)
  BY <1>5 DEF Now, Planned
<1> QED  BY <1>1, <1>5, <1>6, <1>8, <1>9, <1>10, StepPlans

\* The violations of an entry get their key.
Subscripted(l, recorded, d, sub) ==
  [i \in DOMAIN l |-> IF i > recorded THEN [l[i] EXCEPT !.path[d].sub = sub] ELSE l[i]]
\* A finding one of whose elements got its subscript.
Patched(f, d, sub) == [f EXCEPT !.path[d].sub = sub]

\* Giving an element its subscript changes only the path.
LEMMA PatchedIs ==
  ASSUME NEW f \in Finding, NEW d, NEW sub, Marked(f.path, d, sub) \in Paths
  PROVE  /\ Patched(f, d, sub) \in Finding /\ Patched(f, d, sub).path = Marked(f.path, d, sub)
         /\ Patched(f, d, sub).rule = f.rule /\ Patched(f, d, sub).key = f.key
BY DEF Patched, Marked, Finding

\* Writing an entry's subscript into what was recorded from its start on pays its debt.
LEMMA RecordedPaid ==
  ASSUME NEW l, NEW done, NEW owed, Recorded(l, done, owed), owed \in SUBSET Owes,
         NEW rest, NEW o, owed = rest \cup {o},
         NEW l2, l2 = Subscripted(l, o.recorded, o.depth, o.key)
  PROVE  Recorded(l2, done, rest)
<1>1. PICK n \in Nat : n = Len(l)
  BY FindingsAre DEF Recorded
<1>2. /\ l \in Findings /\ done \in Findings /\ Len(done) = n
      /\ \A x \in owed : x.recorded \in 0..n
      /\ \A i \in 1..n :
           /\ l[i].rule = done[i].rule /\ l[i].key = done[i].key
           /\ Agree(l[i].path, done[i].path, {x \in owed : x.recorded < i})
  BY <1>1 DEF Recorded
<1>3. DOMAIN l = 1..n /\ (\A i \in 1..n : l[i] \in Finding) /\ \A i \in 1..n : done[i] \in Finding
  BY <1>1, <1>2, FindingsAre
<1>4. o.key \in Keys /\ o.recorded \in Nat /\ o.depth \in Nat
  BY DEF Owes
<1>5. /\ DOMAIN l2 = 1..n /\ l2 = [i \in 1..n |-> l2[i]]
      /\ \A i \in 1..n : l2[i] = IF i > o.recorded THEN Patched(l[i], o.depth, o.key) ELSE l[i]
  BY <1>3 DEF Subscripted, Patched
<1>6. ASSUME NEW i \in 1..n
      PROVE  /\ l2[i] \in Finding /\ l2[i].rule = done[i].rule /\ l2[i].key = done[i].key
             /\ Agree(l2[i].path, done[i].path, {x \in rest : x.recorded < i})
  <2>1. PICK all, less : all = {x \in owed : x.recorded < i} /\ less = {x \in rest : x.recorded < i}
    OBVIOUS
  <2>2. PICK p, q : p = l[i].path /\ q = done[i].path
    OBVIOUS
  <2>3. p \in Paths /\ q \in Paths /\ Agree(p, q, all)
    BY <1>2, <1>3, <2>1, <2>2, FindingParts
  <2>4. CASE i > o.recorded
    <3>1. o \in all /\ all = less \cup {o}
      BY <1>4, <2>1, <2>4
    <3>2. Marked(p, o.depth, o.key) \in Paths /\ Agree(Marked(p, o.depth, o.key), q, less)
      BY <1>4, <2>3, <3>1, AgreePaid
    <3>3. PICK f, m : f = l[i] /\ m = l2[i]
      OBVIOUS
    <3>4. f \in Finding /\ m = Patched(f, o.depth, o.key) /\ f.path = p
          /\ f.rule = done[i].rule /\ f.key = done[i].key
      BY <1>2, <1>3, <1>5, <2>2, <2>4, <3>3
    <3>5. m \in Finding /\ m.path = Marked(p, o.depth, o.key) /\ m.rule = f.rule /\ m.key = f.key
      BY <3>2, <3>4, PatchedIs
    <3> QED  BY <2>1, <2>2, <3>2, <3>3, <3>4, <3>5
  <2>5. CASE ~(i > o.recorded)
    <3>1. all = less
      BY <1>4, <2>1, <2>5
    <3>2. l2[i] = l[i]
      BY <1>5, <2>5
    <3> QED  BY <1>2, <1>3, <2>1, <2>2, <2>3, <3>1, <3>2
  <2> QED  BY <2>4, <2>5
<1>7. l2 \in Findings /\ Len(l2) = n
  <2>1. IsSeq(l2) /\ Len(l2) = n
    BY <1>5, IndexedIs
  <2>2. l2 \in [1..n -> Finding]
    BY <1>5, <1>6
  <2>3. l2 \in Seq(Finding)
    BY <2>2, IsASeq
  <2> QED  BY <2>1, <2>3 DEF Findings
<1>8. \A x \in rest : x.recorded \in 0..n
  BY <1>2
<1> QED  BY <1>2, <1>6, <1>7, <1>8 DEF Recorded

\* The end of an entry pays its debt.
LEMMA SubscriptStep ==
  ASSUME TypeOK, NEW done, NEW g, Now(done, g), Subscript
  PROVE  Goes
<1>1. /\ todo # <<>> /\ task.op = "subscript"
      /\ list' = Subscripted(list, task.recorded, Len(path), task.key)
      /\ Then(<<>>) /\ UNCHANGED <<path, forKey, abort>>
  BY DEF Subscript, Returning, task, Subscripted
<1>2. /\ g \in Plan /\ Level(task, g) /\ Reaches(path, g) /\ g.at \in Paths /\ forKey = g.key
  BY <1>1, AtHand
<1>3. g.real = path
  BY <1>1, <1>2 DEF Level, Reaches
<1>4. PICK u, h : /\ u = Tail(todo) /\ IsSeq(u) /\ Stands(Found, u, h) /\ h \in Plan
                  /\ Link(Found, task, g, h)
  BY <1>1, NextPlan
<1>5. PICK o : o = Owing(task, path)
  OBVIOUS
<1>6. g.owed = h.owed \cup {o} /\ h.key = g.key /\ Reaches(path, h)
  BY <1>1, <1>3, <1>4, <1>5 DEF Link
<1>7. o.depth = Len(path) /\ o.key = task.key /\ o.recorded = task.recorded
  BY <1>5 DEF Owing
<1>8. h.rest = g.rest
  <2>1. h.rest \in Findings
    BY <1>4, PlanIs
  <2>2. Says(Found, task, g.key) = <<>>
    BY <1>1 DEF Says
  <2>3. Below(g.at, Says(Found, task, g.key)) = <<>>
    BY <1>2, <2>2, BelowNothing
  <2>4. Cat(<<>>, h.rest) = h.rest
    BY <2>1, NothingIs, FindingsCat
  <2> QED  BY <1>4, <2>3, <2>4 DEF Link
<1>9. todo' = u
  <2>1. PICK w : w = <<>>
    OBVIOUS
  <2> QED  BY <1>1, <1>4, <2>1, ThenIs
<1>10. PICK l2 : l2 = list'
  OBVIOUS
<1>11. Recorded(l2, done, h.owed)
  <2>1. Recorded(list, done, g.owed) /\ g.owed \in SUBSET Owes
    BY <1>2, PlanIs DEF Now, Planned
  <2>2. l2 = Subscripted(list, o.recorded, o.depth, o.key)
    BY <1>1, <1>7, <1>10
  <2> QED  BY <1>6, <2>1, <2>2, RecordedPaid
<1>12. Planned(Found, Report, u, path, forKey, l2, abort, done, h)
  <2>1. Planned(Found, Report, todo, path, forKey, list, abort, done, g)
    BY DEF Now
  <2> QED  BY <1>2, <1>4, <1>6, <1>8, <1>11, <2>1 DEF Planned
<1> QED  BY <1>1, <1>9, <1>10, <1>12 DEF Goes
-----------------------------------------------------------------------------
(* What the input reports is the same as long as the input is.             *)

\* What a rule reports depends on the input only.
LEMMA SameRule ==
  ASSUME NEW r, NEW x, NEW key, fails' = fails
  PROVE  OfRule(r, x, key)' = OfRule(r, x, key)
BY DEF OfRule

\* What a value reports depends on the input only.
LEMMA SameValue ==
  ASSUME NEW B, NEW v, NEW x, NEW key, fails' = fails
  PROVE  OfValue(B, v, x, key)' = OfValue(B, v, x, key)
<1>1. ValueParts(B, v, x, key)' = ValueParts(B, v, x, key)
  BY SameRule DEF ValueParts
<1> QED  BY <1>1 DEF OfValue

\* What a part reports depends on the input only.
LEMMA SamePart ==
  ASSUME NEW B, NEW item, NEW x, NEW key, fails' = fails
  PROVE  OfPart(B, item, x, key)' = OfPart(B, item, x, key)
BY SameValue DEF OfPart

\* What an item reports depends on the input only.
LEMMA SameItem ==
  ASSUME NEW B, NEW v, NEW x, NEW i, fails' = fails
  PROVE  OfItem(B, v, x, i)' = OfItem(B, v, x, i)
BY SamePart DEF OfItem

\* What an entry reports depends on the input only.
LEMMA SameEntry ==
  ASSUME NEW B, NEW v, NEW e, fails' = fails
  PROVE  OfEntry(B, v, e)' = OfEntry(B, v, e)
BY SamePart DEF OfEntry

\* What a field's contents report depends on the input only.
LEMMA SameContents ==
  ASSUME NEW B, NEW v, NEW x, fails' = fails
  PROVE  /\ OfContents(B, v, x)' = OfContents(B, v, x)
         /\ ItemParts(B, v, x)' = ItemParts(B, v, x)
         /\ EntryParts(B, v, x)' = EntryParts(B, v, x)
<1>1. ItemParts(B, v, x)' = ItemParts(B, v, x)
  BY SameItem DEF ItemParts
<1>2. EntryParts(B, v, x)' = EntryParts(B, v, x)
  BY SameEntry DEF EntryParts
<1>3. OfContents(B, v, x)' = OfContents(B, v, x)
  BY SameItem, SameEntry DEF OfContents
<1> QED  BY <1>1, <1>2, <1>3

\* Whether a field is set depends on the input only.
LEMMA SameSet ==
  ASSUME NEW n, NEW f, content' = content
  PROVE  IsSet(n, f)' = IsSet(n, f)
BY DEF IsSet

\* What a field reports depends on the input only.
LEMMA SameField ==
  ASSUME NEW B, NEW n, NEW v, content' = content, fails' = fails
  PROVE  OfField(B, n, v)' = OfField(B, n, v)
BY SameValue, SameContents, SameSet DEF OfField

\* What the oneofs report depends on the input only.
LEMMA SameOneofs ==
  ASSUME NEW n, NEW o, content' = content
  PROVE  OfOneof(n, o)' = OfOneof(n, o) /\ OfRequired(n, o)' = OfRequired(n, o)
BY SameSet DEF OfOneof, OfRequired

\* What a message reports depends on the input only.
LEMMA SameMessage ==
  ASSUME NEW B, NEW n, content' = content, fails' = fails
  PROVE  OfMessage(B, n)' = OfMessage(B, n)
<1>1. MessageParts(B, n)' = MessageParts(B, n)
  BY SameRule, SameField, SameOneofs DEF MessageParts
<1> QED  BY <1>1 DEF OfMessage

\* The report depends on the input only.
LEMMA SameReport ==
  ASSUME content' = content, fails' = fails
  PROVE  Found' = Found /\ Report' = Report
<1>1. Found' = Found
  BY SameMessage DEF Found
<1>2. Report = Found[Root]
  BY DEF Report, Found
<1>3. (Report = Found[Root])'
  BY DEF Report, Found
<1> QED  BY <1>1, <1>2, <1>3

\* What a task says depends on the input only.
LEMMA SameSays ==
  ASSUME NEW B, NEW t, NEW key, content' = content, fails' = fails
  PROVE  Says(B, t, key)' = Says(B, t, key)
BY SameRule, SameOneofs, SameMessage, SameField, SameValue, SameContents, SamePart DEF Says

\* A plan for some input is one as long as the input is the same.
LEMMA SamePlan ==
  ASSUME NEW B, NEW R, NEW s, NEW p, NEW k, NEW l, NEW a, NEW done, NEW g,
         content' = content, fails' = fails, Planned(B, R, s, p, k, l, a, done, g)
  PROVE  Planned(B, R, s, p, k, l, a, done, g)'
<1>1. \A t, x, h : Link(B, t, x, h)' <=> Link(B, t, x, h)
  BY SameSays DEF Link
<1>2. \A G : Stacked(B, s, G)' <=> Stacked(B, s, G)
  BY <1>1 DEF Stacked
<1>3. Stands(B, s, g)' <=> Stands(B, s, g)
  BY <1>2 DEF Stands
<1> QED  BY <1>3 DEF Planned
-----------------------------------------------------------------------------
(* The invariant is kept.                                                  *)

\* What a step leads to is a plan of the next state too.
LEMMA Kept ==
  ASSUME Goes, content' = content, fails' = fails
  PROVE  OrderInv'
<1>1. PICK done, g : Planned(Found, Report, todo', path', forKey', list', abort', done, g)
  BY DEF Goes
<1>2. PICK B, R, s, p, k, l, a :
        B = Found /\ R = Report /\ s = todo' /\ p = path' /\ k = forKey' /\ l = list' /\ a = abort'
  OBVIOUS
<1>3. Planned(B, R, s, p, k, l, a, done, g)
  BY <1>1, <1>2
<1>4. Planned(B, R, s, p, k, l, a, done, g)'
  BY <1>3, SamePlan
<1>5. /\ B = Found' /\ R = Report' /\ s = todo' /\ p = path' /\ k = forKey' /\ l = list'
      /\ a = abort'
  BY <1>2, SameReport
<1> QED  BY <1>4, <1>5 DEF OrderInv

\* Every action leads from plan to plan.
LEMMA ActionOrder ==
  ASSUME TypeOK, NEW done, NEW g, Now(done, g), Next
  PROVE  Goes
<1>1. CASE Message
  BY <1>1, MessageStep
<1>2. CASE Check \/ Oneof \/ OneofRequired
  BY <1>2, CheckStep, OneofStep, OneofRequiredStep
<1>3. CASE FieldBroken \/ FieldMissing \/ FieldSkipped
  BY <1>3, FieldEndStep, FieldMissingStep
<1>4. CASE FieldEntered \/ Value \/ Inside
  BY <1>4, FieldEnteredStep, ValueStep, InsideStep
<1>5. CASE ContainerEnd \/ PartSkipped
  BY <1>5, ContainerEndStep, PartSkippedStep
<1>6. CASE ItemSkipped \/ Item \/ Entry
  BY <1>6, ItemSkippedStep, ItemStep, EntryStep
<1>7. CASE Key \/ EntryValue
  BY <1>7, KeyStep, EntryValueStep
<1>8. CASE Leave \/ KeyDone \/ Subscript
  BY <1>8, LeaveStep, KeyDoneStep, SubscriptStep
<1>9. CASE Unwind \/ Raise
  BY <1>9, StopStep
<1> QED  BY <1>1, <1>2, <1>3, <1>4, <1>5, <1>6, <1>7, <1>8, <1>9 DEF Next, Step

\* No action changes the input.
LEMMA InputStays == ASSUME Next PROVE content' = content /\ fails' = fails
BY DEF Next, Step, Message, Check, Oneof, OneofRequired, FieldBroken, FieldMissing, FieldSkipped,
       FieldEntered, Value, Inside, ContainerEnd, ItemSkipped, Item, Entry, PartSkipped, Key,
       EntryValue, Leave, KeyDone, Subscript, Unwind, Raise, input

\* The first task stands for the whole report.
LEMMA StartOrder == ASSUME Init, TypeOK PROVE OrderInv
<1>1. PICK t : t = [op |-> "message", node |-> Root]
  OBVIOUS
<1>2. t.op = "message" /\ t.node = Root /\ todo = <<t>>
  BY <1>1 DEF Init
<1>3. content \in Messages /\ path = <<>> /\ forKey = FALSE /\ list = <<>> /\ abort = "none"
  BY DEF Init
<1>4. Found \in Reports /\ Report = Found[Root] /\ Found[Root] = OfMessage(Found, Root)
  BY <1>3, FoundIs, CompiledAssumption
<1>5. Report \in Findings
  BY <1>4, CompiledAssumption DEF Reports
<1>6. PICK no, none, top : no = FALSE /\ none = {} /\ top = <<>>
  OBVIOUS
<1>7. no \in BOOLEAN /\ none \in SUBSET Owes /\ top \in Paths /\ top \in Findings
  BY <1>6, NothingIs
<1>8. PICK h : h = Planning(top, top, no, no, none, top)
  OBVIOUS
<1>9. /\ h \in Plan /\ h.real = top /\ h.at = top /\ h.key = no /\ h.leaves = no
      /\ h.owed = none /\ h.rest = top
  BY <1>7, <1>8, PlanningIs
<1>10. PICK u : u = <<>>
  OBVIOUS
<1>11. IsSeq(u)
  <2>1. u \in Seq({})
    BY <1>10
  <2> QED  BY <2>1, SeqIs
<1>12. Stands(Found, u, h)
  <2>1. h.rest = <<>> /\ h.owed = {}
    BY <1>6, <1>9
  <2> QED  BY <1>9, <1>10, <2>1, NothingPlanned
<1>13. Says(Found, t, h.key) = Report
  BY <1>2, <1>4 DEF Says
<1>14. PICK g : Puts(Found, u, h, t, top, top, g)
  <2>1. Shape(t) /\ t.op # "keyDone" /\ t.op # "subscript" /\ t.op \notin {"items", "entries"}
    BY <1>2 DEF Shape
  <2>2. ~h.key /\ ~h.leaves
    BY <1>6, <1>9
  <2>3. Agree(top, top, h.owed)
    BY <1>6, <1>7, <1>9 DEF Agree
  <2>4. Reaches(top, h)
    BY <1>9, <2>2 DEF Reaches
  <2>5. Says(Found, t, h.key) \in Findings
    BY <1>5, <1>13
  <2> QED  BY <1>7, <1>11, <1>12, <2>1, <2>2, <2>3, <2>4, <2>5, PutOne
<1>15. Cat(<<t>>, u) = todo
  <2>1. PICK w : w = <<t>>
    OBVIOUS
  <2>2. w \in Seq({t}) /\ u \in Seq({t})
    BY <1>10, <2>1
  <2>3. Cat(w, u) = w
    BY <1>10, <2>2, CatIs
  <2> QED  BY <1>2, <2>1, <2>3
<1>16. Stands(Found, todo, g)
  BY <1>14, <1>15 DEF Puts
<1>17. g.rest = Report
  <2>1. Below(top, Report) = Report
    BY <1>5, <1>6, BelowTop
  <2>2. Cat(Report, <<>>) = Report
    BY <1>5, <1>7, FindingsCat
  <2> QED  BY <1>6, <1>9, <1>13, <1>14, <2>1, <2>2 DEF Puts
<1>18. Reaches(path, g) /\ g.key = forKey /\ g.owed = {}
  BY <1>2, <1>3, <1>6, <1>9, <1>14 DEF Puts, Reaches
<1>19. Recorded(top, top, g.owed)
  <2>1. Len(top) = 0
    BY <1>6
  <2> QED  BY <1>7, <1>18, <2>1 DEF Recorded
<1>20. Cat(<<>>, Report) = Report
  BY <1>5, FindingsCat
<1>21. Report = Cat(top, g.rest) /\ Report \in Findings /\ list = top
  BY <1>3, <1>5, <1>6, <1>17, <1>20
<1>22. Recorded(list, top, g.owed) /\ forKey = g.key
  BY <1>18, <1>19, <1>21
<1>23. \E r \in Findings : Report = Cat(top, r)
  BY <1>5, <1>17, <1>21
<1>24. Planned(Found, Report, todo, path, forKey, list, abort, top, g)
  BY <1>16, <1>18, <1>21, <1>22, <1>23 DEF Planned
<1> QED  BY <1>24 DEF OrderInv

\* Every step keeps the invariant.
LEMMA StepOrder == TypeOK /\ OrderInv /\ [Next]_vars => OrderInv'
<1> SUFFICES ASSUME TypeOK, OrderInv, [Next]_vars PROVE OrderInv'
  OBVIOUS
<1>1. PICK done, g : Now(done, g)
  BY DEF OrderInv, Now
<1>2. CASE Next
  BY <1>1, <1>2, ActionOrder, InputStays, Kept
<1>3. CASE UNCHANGED vars
  <2>1. /\ content' = content /\ fails' = fails /\ todo' = todo /\ path' = path
        /\ forKey' = forKey /\ list' = list /\ abort' = abort
    BY <1>3 DEF vars
  <2>2. Goes
    BY <1>1, <2>1 DEF Now, Goes
  <2> QED  BY <2>1, <2>2, Kept
<1> QED  BY <1>2, <1>3

\* The walk, at every step of it, has recorded what the part of the input that it passed
\* reports, but for the subscripts of the map entries it is still in, and is left with the
\* tasks that report the rest (evaluate_message and below, rules/eval.rs).
THEOREM KeepsOrder == Spec => []OrderInv
<1>1. Init => OrderInv
  BY InitTyped, StartOrder
<1>2. TypeOK /\ OrderInv /\ [Next]_vars => OrderInv'
  BY StepOrder
<1> QED  BY <1>1, <1>2, TypeCorrect, PTL DEF Spec
-----------------------------------------------------------------------------
(* What follows.                                                           *)

\* With nothing owed what is recorded is what was reported.
LEMMA RecordedAll ==
  ASSUME NEW l, NEW done, NEW owed, owed = {}, Recorded(l, done, owed)
  PROVE  l = done /\ l \in Findings
<1>1. /\ l \in Findings /\ done \in Findings /\ Len(l) = Len(done)
      /\ \A i \in 1..Len(l) :
           /\ l[i].rule = done[i].rule /\ l[i].key = done[i].key
           /\ Agree(l[i].path, done[i].path, {o \in owed : o.recorded < i})
  BY DEF Recorded
<1>2. ASSUME NEW i \in 1..Len(l)
      PROVE  l[i] = done[i]
  <2>1. PICK f, d, less : f = l[i] /\ d = done[i] /\ less = {o \in owed : o.recorded < i}
    OBVIOUS
  <2>2. f \in Finding /\ d \in Finding /\ less = {}
    BY <1>1, <2>1, FindingsAre
  <2>3. f.rule = d.rule /\ f.key = d.key /\ Agree(f.path, d.path, less)
    BY <1>1, <2>1
  <2>4. f.path = d.path
    BY <2>2, <2>3, FindingParts, AgreeAll
  <2> QED  BY <2>1, <2>2, <2>3, <2>4, SameFinding
<1> QED  BY <1>1, <1>2, SameFindings

\* What comes first in a report is a prefix of it.
LEMMA PrefixIs ==
  ASSUME NEW l \in Findings, NEW r \in Findings, NEW R, R = Cat(l, r)
  PROVE  IsPrefix(l, R)
<1>1. PICK n, m : n = Len(l) /\ m = Len(r)
  OBVIOUS
<1>2. /\ n \in Nat /\ m \in Nat /\ R \in Findings /\ Len(R) = n + m
      /\ \A i \in 1..n : R[i] = l[i]
  BY <1>1, FindingsAre, FindingsCat
<1>3. n <= Len(R)
  BY <1>2
<1>4. SubSeq(l, 1, n) = SubSeq(R, 1, n)
  <2>1. SubSeq(l, 1, n) = [i \in 1..n |-> l[i]]
    BY <1>1, <1>2 DEF Findings
  <2>2. SubSeq(R, 1, n) = [i \in 1..n |-> R[i]]
    BY <1>2 DEF Findings
  <2> QED  BY <1>2, <2>1, <2>2
<1> QED  BY <1>1, <1>3, <1>4 DEF IsPrefix

\* The invariant says that what was recorded is in order.
LEMMA OrderIsRight == ASSUME TypeOK, OrderInv PROVE InOrder
<1> SUFFICES ASSUME \A i \in DOMAIN todo : todo[i].op # "subscript"
             PROVE  IsPrefix(list, Report)
  BY DEF InOrder
<1>1. PICK done, g : Planned(Found, Report, todo, path, forKey, list, abort, done, g)
  BY DEF OrderInv
<1>2. Stands(Found, todo, g) /\ IsSeq(todo)
  BY <1>1 DEF Planned, TypeOK
<1>3. g.owed = {}
  BY <1>2, StandsIs
<1>4. Recorded(list, done, g.owed)
  BY <1>1 DEF Planned
<1>5. list = done /\ list \in Findings
  <2>1. PICK owed : owed = g.owed
    OBVIOUS
  <2> QED  BY <1>3, <1>4, <2>1, RecordedAll
<1>6. PICK r \in Findings : Report = Cat(done, r)
  BY <1>1 DEF Planned
<1>7. PICK R : R = Report
  OBVIOUS
<1>8. IsPrefix(list, R)
  BY <1>5, <1>6, <1>7, PrefixIs
<1> QED  BY <1>7, <1>8

\* The invariant says that at the end all is recorded.
LEMMA OrderIsAll == ASSUME TypeOK, OrderInv, StopsAtFirst PROVE ReportsAll
<1> SUFFICES ASSUME Done
             PROVE  /\ abort = "none" => list = Report
                    /\ abort = "fail_fast" => list = <<Report[1]>>
  BY DEF ReportsAll
<1>1. PICK done, g : Planned(Found, Report, todo, path, forKey, list, abort, done, g)
  BY DEF OrderInv
<1>2. Stands(Found, todo, g) /\ IsSeq(todo) /\ todo = <<>>
  BY <1>1 DEF Planned, TypeOK, Done
<1>3. \A i \in DOMAIN todo : todo[i].op # "subscript"
  BY <1>2
<1>4. g.owed = {} /\ g.rest = <<>>
  BY <1>2, <1>3, StandsIs
<1>5. list = done /\ list \in Findings
  <2>1. PICK owed : owed = g.owed
    OBVIOUS
  <2>2. Recorded(list, done, g.owed)
    BY <1>1 DEF Planned
  <2> QED  BY <1>4, <2>1, <2>2, RecordedAll
<1>6. ASSUME abort = "none" PROVE list = Report
  <2>1. Report = Cat(done, g.rest)
    BY <1>1, <1>6 DEF Planned
  <2>2. Cat(list, <<>>) = list
    BY <1>5, FindingsCat
  <2> QED  BY <1>4, <1>5, <2>1, <2>2
<1>7. ASSUME abort = "fail_fast" PROVE list = <<Report[1]>>
  <2>1. Len(list) = 1
    BY <1>7 DEF StopsAtFirst, TypeOK
  <2>2. PICK r \in Findings : Report = Cat(list, r)
    BY <1>1, <1>5 DEF Planned
  <2>3. Report[1] = list[1] /\ list[1] \in Finding
    <3>1. \A i \in 1..Len(list) : Report[i] = list[i]
      BY <1>5, <2>2, FindingsCat
    <3>2. 1 \in 1..Len(list)
      BY <2>1
    <3> QED  BY <1>5, <3>1, <3>2, FindingsAre
  <2>4. PICK f, w : f = Report[1] /\ w = <<f>>
    OBVIOUS
  <2>5. w \in Findings /\ Len(w) = 1 /\ w[1] = f
    BY <2>3, <2>4, OneFinding
  <2>6. \A i \in 1..1 : i = 1
    OBVIOUS
  <2>7. list = w
    BY <1>5, <2>1, <2>3, <2>4, <2>5, <2>6, SameFindings
  <2> QED  BY <2>4, <2>7
<1> QED  BY <1>6, <1>7

\* What the walk has recorded is, whenever it is not inside a map entry, a prefix of the
\* report that the rules, in their order, make of the message, each violation at its own
\* path: none is lost, doubled, out of order or at the path of another.
THEOREM RecordsInOrder == Spec => []InOrder
<1>1. TypeOK /\ OrderInv => InOrder
  BY OrderIsRight
<1> QED  BY <1>1, TypeCorrect, KeepsOrder, PTL

\* A walk that ends without an error has recorded the whole report, or, if it is to stop
\* at the first violation, its first one and no more.
THEOREM RecordsAll == Spec => []ReportsAll
<1>1. TypeOK /\ OrderInv /\ StopsAtFirst => ReportsAll
  BY OrderIsAll
<1> QED  BY <1>1, TypeCorrect, KeepsOrder, FailsFast, PTL

=============================================================================
