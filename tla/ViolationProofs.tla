--------------------------- MODULE ViolationProofs ---------------------------
(***************************************************************************)
(* Proofs about ViolationValues.  It is a walk and what comes after, and   *)
(* values once recovered stay.  The walk records every violation at a path *)
(* that leads to what the violation is about (Explains), so that what is   *)
(* read by going that path again is what was checked, and comes with the   *)
(* rule that was (Retraced).  A PICK of what equals a term names the term, *)
(* which the provers then see as one.                                      *)
(***************************************************************************)
EXTENDS ViolationValues, WalkProofs

\* A walk that is done takes no step.
LEMMA NoStepWhenDone == Next => ~Done
  BY DEF Next, Step, Done, Doing, Returning, DoingField, Raise,
     Message, Check, Oneof, OneofRequired, FieldBroken, FieldMissing,
     FieldSkipped, FieldEntered, Value, Inside, ContainerEnd, ItemSkipped, Item,
     Entry, PartSkipped, Key, EntryValue, Leave, KeyDone, Subscript, Unwind

\* Reading values goes on after a walk and never disturbs one: the composed
\* system is the walk, with what may be done with its result.
THEOREM ImplementsWalk == ValuesSpec => Spec
<1>1. ValuesInit => Init
  BY DEF ValuesInit
<1>2. [ValuesNext]_allVars => [Next]_vars
  BY DEF ValuesNext, allVars
<1> QED
  BY <1>1, <1>2, PTL DEF ValuesSpec, Spec

\* Before the walk nothing has been read.
LEMMA ValuesInitial == ValuesInit => ValuesTypeOK
  BY MaxChangesAssumption, ReadersAssumption DEF ValuesInit, ValuesTypeOK

\* A reader's step keeps the cell, the thread that fills it and what has been
\* answered consistent with each other.
LEMMA ReaderStep ==
  ASSUME ValuesTypeOK, Done, UNCHANGED vars, NEW r \in Readers,
         Ask(r) \/ Resolve(r) \/ RaiseReading(r) \/ Answer(r)
  PROVE  ValuesTypeOK'
<1> USE ReadersAssumption
<1>1. UNCHANGED <<list, todo>>
  BY DEF vars
<1>2. CASE Ask(r)
  BY <1>2, <1>1 DEF Ask, ValuesTypeOK, Done
<1>3. CASE Begin(r)
  <2>1. hop' # None /\ DOMAIN hop' = {"is", "next", "value", "leaf"}
    BY <1>3 DEF Begin, Lost, None
  <2> QED
    BY <1>3, <1>1, <2>1 DEF Begin, ValuesTypeOK, Done
<1>4. CASE Hop(r)
  <2>1. hop' # None /\ DOMAIN hop' = {"is", "next", "value", "leaf"}
    BY <1>4 DEF Hop, Lost, None
  <2> QED
    BY <1>4, <1>1, <2>1 DEF Hop, ValuesTypeOK, Done
<1>5. CASE Fill(r)
  <2>1. DOMAIN cell' = {"is", "field", "rule"}
    BY <1>5 DEF Fill
  <2>2. \A s \in Readers : got[s] = None
    BY <1>5 DEF Fill, ValuesTypeOK
  <2> QED
    BY <1>5, <1>1, <2>1, <2>2 DEF Fill, ValuesTypeOK, Done
<1>6. CASE RaiseReading(r)
  BY <1>6, <1>1 DEF RaiseReading, ValuesTypeOK, Done
<1>7. CASE Answer(r)
  BY <1>7, <1>1 DEF Answer, ValuesTypeOK, Done
<1> QED
  BY <1>2, <1>3, <1>4, <1>5, <1>6, <1>7 DEF Resolve

\* Every step keeps it, a program's change of the message included.
LEMMA ValuesStep == ValuesTypeOK /\ [ValuesNext]_allVars => ValuesTypeOK'
<1> SUFFICES ASSUME ValuesTypeOK, [ValuesNext]_allVars
             PROVE  ValuesTypeOK'
  OBVIOUS
<1>1. CASE UNCHANGED allVars
  BY <1>1 DEF allVars, values, vars, ValuesTypeOK, Done
<1>2. CASE Next /\ UNCHANGED values
  <2>1. violation = None
    BY <1>2, NoStepWhenDone DEF ValuesTypeOK
  <2> QED
    BY <1>2, <2>1 DEF values, ValuesTypeOK
<1>3. CASE Done /\ UNCHANGED vars /\ Pick
  BY <1>3 DEF Pick, vars, ValuesTypeOK, Done
<1>4. CASE Done /\ UNCHANGED vars /\ Change
  BY <1>4, MaxChangesAssumption DEF Change, vars, ValuesTypeOK, Done
<1> QED
  BY <1>1, <1>2, <1>3, <1>4, ReaderStep DEF ValuesNext

\* The type invariant, with who may be filling the cell and when.
THEOREM ValuesTypeCorrect == ValuesSpec => []ValuesTypeOK
  BY ValuesInitial, ValuesStep, PTL DEF ValuesSpec

\* Values once recovered are final, whatever happens to the message, and the
\* same for every thread: a thread that fills the cell found it empty, and no
\* other thread fills it at the same time.
THEOREM ValuesStay == ValuesSpec => ValuesKept
<1> DEFINE Kept == /\ cell # None => cell' = cell
                   /\ \A r \in Readers : got[r] # None => got'[r] = got[r]
<1>1. ValuesTypeOK /\ [ValuesNext]_allVars => [Kept]_allVars
  <2> SUFFICES ASSUME ValuesTypeOK, ValuesNext
               PROVE  Kept
    OBVIOUS
  <2>1. CASE UNCHANGED <<cell, got>>
    BY <2>1
  <2>2. ASSUME NEW r \in Readers, Fill(r)
        PROVE  Kept
    BY <2>2, ReadersAssumption DEF Fill, ValuesTypeOK
  <2>3. ASSUME NEW r \in Readers, Answer(r)
        PROVE  Kept
    BY <2>3 DEF Answer, ValuesTypeOK
  <2>4. \/ UNCHANGED <<cell, got>>
        \/ \E r \in Readers : Fill(r) \/ Answer(r)
    BY DEF ValuesNext, values, Pick, Change, Ask, Resolve, Begin, Hop, RaiseReading
  <2> QED
    BY <2>1, <2>2, <2>3, <2>4
<1> QED
  BY <1>1, ValuesTypeCorrect, PTL DEF ValuesSpec, ValuesKept

-----------------------------------------------------------------------------
(* Where the walk is in the message.                                       *)

\* A path with subscript sub in its last element.
Setting(p, sub) == [p EXCEPT ![Len(p)].sub = sub]

Parent(p) == SubSeq(p, 1, Len(p) - 1)
LastOf(p) == p[Len(p)]

FieldsOf(n) ==
  {Compiled[TypeOf[n]].fields[i] : i \in DOMAIN Compiled[TypeOf[n]].fields}

\* In the message c, element e leads from n to y: to a field's value, to an
\* item of it, to the value of an entry.
Gives(c, n, e, y) ==
  /\ n \in Nodes /\ y # NoValue
  /\ \E v \in FieldsOf(n) :
       /\ v.field = e.field /\ c[n][v.field] # NoValue
       /\ \/ e.sub = NoSub /\ y = c[n][v.field]
          \/ /\ v.kind = "list" /\ e.sub \in Nat /\ e.sub + 1 \in DOMAIN c[n][v.field]
             /\ y = c[n][v.field][e.sub + 1]
          \/ /\ v.kind = "map"
             /\ \E i \in DOMAIN c[n][v.field] :
                  c[n][v.field][i].key = e.sub /\ y = c[n][v.field][i].value

\* The same, for an entry's key.
GivesKey(c, n, e, y) ==
  /\ n \in Nodes /\ y = e.sub
  /\ \E v \in FieldsOf(n) :
       /\ v.field = e.field /\ v.kind = "map" /\ c[n][v.field] # NoValue
       /\ \E i \in DOMAIN c[n][v.field] : c[n][v.field][i].key = e.sub

\* The values ns that path p passes through, to the last.
Follows(c, p, ns) ==
  ns[1] = Root /\ \A i \in 1 .. Len(p) : Gives(c, ns[i], p[i], ns[i + 1])
Leads(c, p, y) == \E ns : Follows(c, p, ns) /\ ns[Len(p) + 1] = y
LeadsToKey(c, p, y) ==
  p # <<>> /\ \E n \in Nodes : Leads(c, Parent(p), n) /\ GivesKey(c, n, LastOf(p), y)
At(c, p, y, key) == IF key THEN LeadsToKey(c, p, y) ELSE Leads(c, p, y)

\* Rule r is one of the field that p ends at, or a message's own; or it is
\* that of a oneof, whose path ends at no field.
RuleAt(c, p, r) ==
  \/ RulePath[r] = NoSub
  \/ /\ p # <<>>
     /\ \E n \in Nodes :
          /\ Leads(c, Parent(p), n)
          /\ \E v \in FieldsOf(n) :
               v.field = LastOf(p).field /\ Written(TypeOf[n], v.field, r)
OneofAt(c, p) ==
  p # <<>> /\ \E n \in Nodes :
    /\ Leads(c, Parent(p), n)
    /\ \E i \in DOMAIN Compiled[TypeOf[n]].required :
         Compiled[TypeOf[n]].required[i].name = LastOf(p).field

\* The container s.value is that of field s.rules of a message p leads to.
InField(c, p, s) ==
  \E n \in Nodes :
    /\ Leads(c, p, n)
    /\ s.rules \in FieldsOf(n) /\ ~s.rules.broken
    /\ s.value = c[n][s.rules.field] /\ s.value # NoValue

\* A task with the path it is done at, its subscripts all there, and whether
\* it is about a map key.  What a task is about is where its path leads.
Claim(c, a) ==
  LET s == a.task
      p == a.path
  IN /\ IsPath(p) /\ a.key \in BOOLEAN
     /\ a.key => s.op \in {"check", "value", "keyDone"}
     /\ s.op = "keyDone" => a.key
     /\ s.op = "check" => At(c, p, s.value, a.key) /\ RuleAt(c, p, s.rule)
     /\ s.op = "value" =>
          At(c, p, s.value, a.key) /\ \A r \in RulesIn(s.rules) : RuleAt(c, p, r)
     /\ s.op \in {"message", "oneof", "required", "field"} =>
          s.node \in Nodes /\ Leads(c, p, s.node)
     /\ s.op = "oneof" => RulePath["message.oneof"] = NoSub
     /\ s.op = "required" =>
          \E i \in DOMAIN Compiled[TypeOf[s.node]].required :
            s.oneof = Compiled[TypeOf[s.node]].required[i]
     /\ s.op = "inside" => InField(c, p, s)
     /\ s.op \in {"items", "entries"} =>
          /\ p # <<>> /\ LastOf(p).field = s.rules.field
          /\ InField(c, Parent(p), s)
     /\ s.op = "items" => s.rules.kind = "list"
     /\ s.op = "entries" => s.rules.kind = "map" /\ LastOf(p).sub = NoSub
     /\ s.op = "key" /\ s.item # NoItem =>
          LeadsToKey(c, p, s.value) /\ \A r \in RulesIn(s.item.value) : RuleAt(c, p, r)
     /\ s.op = "entryValue" /\ s.item # NoItem =>
          Leads(c, p, s.value) /\ \A r \in RulesIn(s.item.value) : RuleAt(c, p, r)

\* Task b comes after task a.
Link(a, b) ==
  /\ IF a.task.op = "leave" THEN a.path # <<>> /\ b.path = Parent(a.path)
     ELSE IF a.task.op = "subscript"
       THEN a.path # <<>> /\ b.path = Setting(a.path, NoSub)
       ELSE b.path = a.path
  /\ b.key = (a.key /\ a.task.op # "keyDone")
  /\ a.task.op \in {"items", "entries"} => b.task.op = "leave"
  /\ a.task.op = "subscript" => b.task.op = "entries"

\* The subscript that s will set is on the path p.
Subscripted(p, s) ==
  Len(s.path) \in 1 .. Len(p) /\ p[Len(s.path)].sub = s.task.key

\* The subscripts that are still to be set.
Owed(A) == {A[l] : l \in {l \in DOMAIN A : A[l].task.op = "subscript"}}

\* The tasks, each at its path.
Placed(c, A) ==
  /\ IsSeq(A)
  /\ \A i \in DOMAIN A : Claim(c, A[i])
  /\ \A i \in DOMAIN A : i + 1 \in DOMAIN A => Link(A[i], A[i + 1])
  /\ \A i \in DOMAIN A :
       A[i].task.op \in {"items", "entries", "subscript"} => i + 1 \in DOMAIN A
  /\ \A l \in DOMAIN A : A[l].task.op = "subscript" =>
       \A i \in 1 .. l : Subscripted(A[i].path, A[l])

TasksOf(A) == [i \in DOMAIN A |-> A[i].task]

\* The depths whose subscripts are still to be set on violation i.
Depths(W, i) == {Len(s.path) : s \in {s \in W : s.task.recorded < i}}

\* The path p without the subscripts at depths D.
Without(p, D) ==
  [d \in DOMAIN p |-> Element(p[d].field, IF d \in D THEN NoSub ELSE p[d].sub)]

\* A violation of rule r at path p: what it is about, if the checks in f fail.
Blamed(c, f, r, key, p) ==
  /\ IsPath(p) /\ key \in BOOLEAN
  /\ RuleAt(c, p, r) \/ OneofAt(c, p)
  /\ r \in {"required", "message.oneof"} \/ \E x : <<r, x>> \in f /\ At(c, p, x, key)

Accounted(W, ps) ==
  \A i \in DOMAIN list :
    /\ Blamed(content, fails, list[i].rule, list[i].key, ps[i])
    /\ list[i].path = Without(ps[i], Depths(W, i))
    /\ \A s \in W : s.task.recorded < i => Subscripted(ps[i], s)

Explained(A, ps) ==
  /\ Placed(content, A) /\ todo = TasksOf(A)
  /\ A # <<>> =>
       /\ A[1].key = forKey
       /\ path = Without(A[1].path, Depths(Owed(A), Len(list) + 1))
  /\ \A s \in Owed(A) : s.task.recorded \in 0 .. Len(list)
  /\ Accounted(Owed(A), ps)

\* Every violation recorded is at a path that leads to what it is about, but
\* for the keys of the entries the walk is still in.
Explains == \E A, ps : Explained(A, ps)

-----------------------------------------------------------------------------
(* Paths.                                                                  *)

\* A path is a sequence of elements.
LEMMA PathIs ==
  ASSUME NEW p
  PROVE  IsPath(p) <=> p \in Seq(Elements)
<1>1. ASSUME IsPath(p) PROVE p \in Seq(Elements)
  <2>1. p \in Seq({p[i] : i \in DOMAIN p}) /\ {p[i] : i \in DOMAIN p} \subseteq Elements
    BY <1>1 DEF IsPath, IsSeq
  <2> QED  BY <2>1, SeqMonotonic
<1>2. ASSUME p \in Seq(Elements) PROVE IsPath(p)
  BY <1>2, SeqIs DEF IsPath
<1> QED  BY <1>1, <1>2

\* The empty path, and what is left of a path without its last element.
LEMMA ParentIs ==
  ASSUME NEW p, IsPath(p)
  PROVE  /\ Len(p) \in Nat /\ DOMAIN p = 1 .. Len(p)
         /\ p # <<>> => /\ Len(p) > 0 /\ IsPath(Parent(p)) /\ Len(Parent(p)) = Len(p) - 1
                        /\ \A i \in 1 .. Len(p) - 1 : Parent(p)[i] = p[i]
                        /\ LastOf(p) \in Elements /\ LastOf(p) = p[Len(p)]
<1>1. p \in Seq(Elements)  BY PathIs
<1>2. Len(p) \in Nat /\ DOMAIN p = 1 .. Len(p)  BY <1>1
<1>3. ASSUME p # <<>>
      PROVE  /\ Len(p) > 0 /\ IsPath(Parent(p)) /\ Len(Parent(p)) = Len(p) - 1
             /\ \A i \in 1 .. Len(p) - 1 : Parent(p)[i] = p[i]
             /\ LastOf(p) \in Elements
  <2>1. Len(p) > 0  BY <1>1, <1>3, EmptySeq
  <2>2. LastOf(p) \in Elements  BY <1>1, <2>1 DEF LastOf
  <2>3. /\ SubSeq(p, 1, Len(p) - 1) \in Seq(Elements)
        /\ Len(SubSeq(p, 1, Len(p) - 1)) = Len(p) - 1
        /\ \A i \in 1 .. Len(p) - 1 : SubSeq(p, 1, Len(p) - 1)[i] = p[i]
    <3> DEFINE m == Len(p) - 1
    <3>1. m \in Nat /\ m \in Int /\ 1 \in Int  BY <1>2, <2>1
    <3>2. \A i \in 1 .. m : p[i] \in Elements  BY <1>1, <1>2
    <3> HIDE DEF m
    <3>3. /\ SubSeq(p, 1, m) \in Seq(Elements)
          /\ Len(SubSeq(p, 1, m)) = IF 1 <= m THEN m - 1 + 1 ELSE 0
          /\ \A i \in 1 .. m - 1 + 1 : SubSeq(p, 1, m)[i] = p[1 + i - 1]
      BY <3>1, <3>2, SubSeqProperties
    <3>4. /\ Len(SubSeq(p, 1, m)) = m
          /\ \A i \in 1 .. m : SubSeq(p, 1, m)[i] = p[i]
      BY <3>1, <3>3
    <3> QED  BY <3>3, <3>4 DEF m
  <2> QED  BY <2>1, <2>2, <2>3, PathIs DEF Parent
<1> QED  BY <1>2, <1>3 DEF LastOf

\* A path with one more element.
LEMMA AppendIs ==
  ASSUME NEW p, IsPath(p), NEW e \in Elements
  PROVE  /\ IsPath(Append(p, e)) /\ Append(p, e) # <<>> /\ Len(Append(p, e)) = Len(p) + 1
         /\ \A i \in 1 .. Len(p) : Append(p, e)[i] = p[i]
         /\ Append(p, e)[Len(p) + 1] = e
         /\ Parent(Append(p, e)) = p /\ LastOf(Append(p, e)) = e
<1>1. p \in Seq(Elements)  BY PathIs
<1> DEFINE q == Append(p, e)
<1>2. /\ q \in Seq(Elements) /\ Len(q) = Len(p) + 1 /\ Len(p) \in Nat
      /\ \A i \in 1 .. Len(p) : q[i] = p[i]
      /\ q[Len(p) + 1] = e
  BY <1>1, AppendProperties
<1> HIDE DEF q
<1>3. IsPath(q)  BY <1>2, PathIs
<1>4. q # <<>>  BY <1>2
<1>5. LastOf(q) = e  BY <1>2 DEF LastOf
<1>6. Parent(q) = p
  <2>1. Parent(q) \in Seq(Elements) /\ Len(Parent(q)) = Len(p)
        /\ \A i \in 1 .. Len(p) : Parent(q)[i] = q[i]
    <3>1. Len(q) - 1 = Len(p)  BY <1>2
    <3> QED  BY <1>3, <1>4, <3>1, ParentIs, PathIs
  <2> QED  BY <1>1, <1>2, <2>1, SeqEqual
<1> QED  BY <1>2, <1>3, <1>4, <1>5, <1>6 DEF q

\* A path with a subscript in its last element.
Subs == Keys \cup Nat \cup {NoSub}

\* A path with a subscript set in its last element.
LEMMA SetLast ==
  ASSUME NEW p, IsPath(p), p # <<>>, NEW sub \in Subs, NEW q, q = Setting(p, sub)
  PROVE  /\ IsPath(q) /\ q # <<>> /\ Len(q) = Len(p) /\ DOMAIN q = DOMAIN p
         /\ \A i \in DOMAIN p : i # Len(p) => q[i] = p[i]
         /\ q[Len(p)] = Element(LastOf(p).field, sub)
         /\ Parent(q) = Parent(p) /\ LastOf(q) = Element(LastOf(p).field, sub)
<1>1. /\ Len(p) \in Nat /\ DOMAIN p = 1 .. Len(p) /\ Len(p) > 0
      /\ p \in Seq(Elements) /\ LastOf(p) \in Elements /\ LastOf(p) = p[Len(p)]
  BY ParentIs, PathIs
<1> DEFINE e == Element(LastOf(p).field, sub)
<1>2. e \in Elements /\ e = [LastOf(p) EXCEPT !.sub = sub]  BY <1>1 DEF Element, Elements, Subs
<1>3. q = [p EXCEPT ![Len(p)] = e]  BY <1>1, <1>2 DEF Setting
<1> HIDE DEF e
<1>4. /\ q \in Seq(Elements) /\ Len(q) = Len(p) /\ DOMAIN q = DOMAIN p
      /\ \A i \in DOMAIN p : i # Len(p) => q[i] = p[i]
      /\ q[Len(p)] = e
  BY <1>1, <1>2, <1>3
<1>5. IsPath(q) /\ q # <<>>
  <2>1. IsPath(q)  BY <1>4, PathIs
  <2>2. 1 \in DOMAIN q  BY <1>1, <1>4
  <2> QED  BY <2>1, <2>2
<1>6. LastOf(q) = e  BY <1>4 DEF LastOf
<1>7. Parent(q) = Parent(p)
  <2>1. /\ Parent(q) \in Seq(Elements) /\ Len(Parent(q)) = Len(p) - 1
        /\ \A i \in 1 .. Len(p) - 1 : Parent(q)[i] = q[i]
        /\ Parent(p) \in Seq(Elements) /\ Len(Parent(p)) = Len(p) - 1
        /\ \A i \in 1 .. Len(p) - 1 : Parent(p)[i] = p[i]
    BY <1>4, <1>5, ParentIs, PathIs
  <2>2. PICK m \in Nat : m = Len(p)  BY <1>1
  <2>3. \A i \in 1 .. m - 1 : i \in 1 .. m /\ i # m  OBVIOUS
  <2>4. \A i \in 1 .. m - 1 : i \in DOMAIN p /\ i # Len(p)  BY <1>1, <2>2, <2>3
  <2>5. \A i \in 1 .. m - 1 : Parent(q)[i] = Parent(p)[i]  BY <1>4, <2>1, <2>2, <2>4
  <2> QED  BY <2>1, <2>2, <2>5, SeqEqual
<1> QED  BY <1>4, <1>5, <1>6, <1>7 DEF e

-----------------------------------------------------------------------------
(* Where paths lead.                                                       *)

\* The empty path leads to the message validated.
LEMMA LeadsNowhere == ASSUME NEW c PROVE Leads(c, <<>>, Root)
<1> DEFINE ns == [i \in Nat |-> Root]
<1>1. Follows(c, <<>>, ns) /\ ns[Len(<<>>) + 1] = Root  BY DEF Follows
<1> HIDE DEF ns
<1> QED  BY <1>1 DEF Leads

\* A path leads where its last element leads from its parent.
LEMMA LeadsOn ==
  ASSUME NEW c, NEW p, IsPath(p), p # <<>>,
         NEW n, Leads(c, Parent(p), n), NEW y, Gives(c, n, LastOf(p), y)
  PROVE  Leads(c, p, y)
<1>1. /\ Len(p) \in Nat /\ Len(p) > 0 /\ Len(Parent(p)) = Len(p) - 1
      /\ \A i \in 1 .. Len(p) - 1 : Parent(p)[i] = p[i]
      /\ LastOf(p) = p[Len(p)]
  BY ParentIs
<1>2. PICK ns : Follows(c, Parent(p), ns) /\ ns[Len(Parent(p)) + 1] = n  BY DEF Leads
<1>3. ns[Len(p)] = n  BY <1>1, <1>2
<1> DEFINE ms == [i \in Nat |-> IF i <= Len(p) THEN ns[i] ELSE y]
<1>4. /\ ms[1] = ns[1] /\ ms[Len(p)] = n /\ ms[Len(p) + 1] = y
      /\ \A i \in 1 .. Len(p) - 1 : ms[i] = ns[i] /\ ms[i + 1] = ns[i + 1]
  BY <1>1, <1>3
<1> HIDE DEF ms
<1>5. ASSUME NEW i \in 1 .. Len(p)
      PROVE  Gives(c, ms[i], p[i], ms[i + 1])
  <2>1. CASE i = Len(p)  BY <1>1, <1>4, <2>1
  <2>2. CASE i # Len(p)
    <3>1. i \in 1 .. Len(p) - 1  BY <1>1, <2>2
    <3>2. Gives(c, ns[i], Parent(p)[i], ns[i + 1])  BY <1>1, <1>2, <3>1 DEF Follows
    <3> QED  BY <1>1, <1>4, <3>1, <3>2
  <2> QED  BY <2>1, <2>2
<1>6. Follows(c, p, ms)  BY <1>2, <1>4, <1>5 DEF Follows
<1> QED  BY <1>4, <1>6 DEF Leads

-----------------------------------------------------------------------------
(* The tasks at their paths.                                               *)

\* The elements of a concatenation, by their places.
LEMMA ConcatAt ==
  ASSUME NEW B, NEW A, IsSeq(B), IsSeq(A)
  PROVE  /\ IsSeq(B \o A) /\ Len(B) \in Nat /\ Len(A) \in Nat
         /\ DOMAIN B = 1 .. Len(B) /\ DOMAIN A = 1 .. Len(A)
         /\ Len(B \o A) = Len(B) + Len(A) /\ DOMAIN (B \o A) = 1 .. Len(B) + Len(A)
         /\ \A i \in 1 .. Len(B) : (B \o A)[i] = B[i]
         /\ \A i \in 1 .. Len(A) : (B \o A)[Len(B) + i] = A[i]
<1> DEFINE S == {B[i] : i \in DOMAIN B} \cup {A[i] : i \in DOMAIN A}
<1>1. B \in Seq(S) /\ A \in Seq(S)  BY DEF IsSeq
<1>2. /\ B \o A \in Seq(S) /\ Len(B \o A) = Len(B) + Len(A)
      /\ Len(B) \in Nat /\ Len(A) \in Nat
      /\ \A i \in 1 .. Len(B) + Len(A) :
           (B \o A)[i] = IF i <= Len(B) THEN B[i] ELSE A[i - Len(B)]
  BY <1>1, ConcatProperties
<1>3. DOMAIN (B \o A) = 1 .. Len(B) + Len(A) /\ DOMAIN B = 1 .. Len(B) /\ DOMAIN A = 1 .. Len(A)
  BY <1>1, <1>2
<1> HIDE DEF S
<1>4. IsSeq(B \o A)  BY <1>2, SeqIs
<1>5. \A i \in 1 .. Len(B) : (B \o A)[i] = B[i]  BY <1>2
<1>6. ASSUME NEW i \in 1 .. Len(A)
      PROVE  (B \o A)[Len(B) + i] = A[i]
  <2>1. /\ Len(B) + i \in 1 .. Len(B) + Len(A) /\ ~(Len(B) + i <= Len(B))
        /\ Len(B) + i - Len(B) = i
    BY <1>2
  <2> QED  BY <1>2, <2>1
<1> QED  BY <1>2, <1>3, <1>4, <1>5, <1>6

\* The tasks of a concatenation, and what is left without the first.
LEMMA TasksOfConcat ==
  ASSUME NEW B, NEW A, IsSeq(B), IsSeq(A)
  PROVE  TasksOf(B \o A) = TasksOf(B) \o TasksOf(A)
<1>1. /\ DOMAIN TasksOf(B) = 1 .. Len(B) /\ DOMAIN TasksOf(A) = 1 .. Len(A)
      /\ \A i \in 1 .. Len(B) : TasksOf(B)[i] = B[i].task
      /\ \A i \in 1 .. Len(A) : TasksOf(A)[i] = A[i].task
      /\ DOMAIN TasksOf(B \o A) = 1 .. Len(B) + Len(A)
      /\ Len(B) \in Nat /\ Len(A) \in Nat
      /\ \A i \in 1 .. Len(B) + Len(A) : TasksOf(B \o A)[i] = (B \o A)[i].task
  BY ConcatAt DEF TasksOf
<1>2. /\ TasksOf(B) = [i \in 1 .. Len(B) |-> TasksOf(B)[i]]
      /\ TasksOf(A) = [i \in 1 .. Len(A) |-> TasksOf(A)[i]]
      /\ TasksOf(B \o A) = [i \in 1 .. Len(B) + Len(A) |-> TasksOf(B \o A)[i]]
  <2>1. TasksOf(B) = [i \in DOMAIN B |-> TasksOf(B)[i]]  BY DEF TasksOf
  <2>2. TasksOf(A) = [i \in DOMAIN A |-> TasksOf(A)[i]]  BY DEF TasksOf
  <2>3. TasksOf(B \o A) = [i \in DOMAIN (B \o A) |-> TasksOf(B \o A)[i]]  BY DEF TasksOf
  <2> QED  BY <2>1, <2>2, <2>3, ConcatAt
<1>3. /\ IsSeq(TasksOf(B)) /\ Len(TasksOf(B)) = Len(B)
      /\ IsSeq(TasksOf(A)) /\ Len(TasksOf(A)) = Len(A)
  BY <1>1, <1>2, IndexedIs
<1> DEFINE t == TasksOf(B) \o TasksOf(A)
<1>4. /\ IsSeq(t) /\ Len(t) = Len(B) + Len(A) /\ DOMAIN t = 1 .. Len(B) + Len(A)
      /\ \A i \in 1 .. Len(B) : t[i] = TasksOf(B)[i]
      /\ \A i \in 1 .. Len(A) : t[Len(B) + i] = TasksOf(A)[i]
  BY <1>3, ConcatAt
<1>5. t = [i \in 1 .. Len(B) + Len(A) |-> t[i]]
  <2>1. t \in Seq({t[i] : i \in DOMAIN t})  BY <1>4 DEF IsSeq
  <2> HIDE DEF t
  <2>2. t = [i \in DOMAIN t |-> t[i]]  BY <2>1
  <2> QED  BY <1>4, <2>2
<1> HIDE DEF t
<1>6. ASSUME NEW i \in 1 .. Len(B) + Len(A)
      PROVE  TasksOf(B \o A)[i] = t[i]
  <2>1. CASE i <= Len(B)
    <3>1. i \in 1 .. Len(B)  BY <1>1, <2>1
    <3>2. (B \o A)[i] = B[i]  BY <3>1, ConcatAt
    <3> QED  BY <1>1, <1>4, <3>1, <3>2
  <2>2. CASE ~(i <= Len(B))
    <3>1. PICK j \in 1 .. Len(A) : i = Len(B) + j
      <4>1. i - Len(B) \in 1 .. Len(A) /\ i = Len(B) + (i - Len(B))  BY <1>1, <2>2
      <4> QED  BY <4>1
    <3>2. (B \o A)[i] = A[j]  BY <3>1, ConcatAt
    <3> QED  BY <1>1, <1>4, <3>1, <3>2
  <2> QED  BY <2>1, <2>2
<1>7. TasksOf(B \o A) = t  BY <1>2, <1>5, <1>6
<1> QED  BY <1>7 DEF t

\* A sequence is its first element and the rest.
LEMMA FirstAndRest ==
  ASSUME NEW A, IsSeq(A), A # <<>>
  PROVE  /\ IsSeq(Tail(A)) /\ Len(Tail(A)) = Len(A) - 1 /\ Len(A) \in Nat \ {0}
         /\ DOMAIN A = 1 .. Len(A) /\ DOMAIN Tail(A) = 1 .. Len(A) - 1
         /\ \A i \in 1 .. Len(A) - 1 : Tail(A)[i] = A[i + 1]
         /\ Head(A) = A[1]
<1> DEFINE S == {A[i] : i \in DOMAIN A}
<1>1. A \in Seq(S)  BY DEF IsSeq
<1>2. /\ Tail(A) \in Seq(S) /\ Len(Tail(A)) = Len(A) - 1 /\ Len(A) \in Nat \ {0}
      /\ \A i \in 1 .. Len(Tail(A)) : Tail(A)[i] = A[i + 1]
      /\ Head(A) = A[1]
  BY <1>1, HeadTailProperties
<1>3. DOMAIN A = 1 .. Len(A) /\ DOMAIN Tail(A) = 1 .. Len(A) - 1  BY <1>1, <1>2
<1> HIDE DEF S
<1>4. IsSeq(Tail(A))  BY <1>2, SeqIs
<1> QED  BY <1>2, <1>3, <1>4

\* The first task, and the tasks of what is left.
LEMMA TasksOfTail ==
  ASSUME NEW A, IsSeq(A), A # <<>>
  PROVE  TasksOf(A) # <<>> /\ Tail(TasksOf(A)) = TasksOf(Tail(A)) /\ Head(TasksOf(A)) = A[1].task
<1> DEFINE t == TasksOf(A)
<1>1. DOMAIN t = 1 .. Len(A) /\ Len(A) \in Nat \ {0} /\ \A i \in 1 .. Len(A) : t[i] = A[i].task
  BY FirstAndRest DEF TasksOf
<1>2. t = [i \in 1 .. Len(A) |-> t[i]]
  <2>1. t = [i \in DOMAIN A |-> t[i]]  BY DEF TasksOf
  <2> QED  BY <2>1, FirstAndRest
<1> HIDE DEF t
<1>3. IsSeq(t) /\ Len(t) = Len(A)  BY <1>1, <1>2, IndexedIs
<1>4. t # <<>>  BY <1>1
<1>5. /\ IsSeq(Tail(t)) /\ DOMAIN Tail(t) = 1 .. Len(A) - 1 /\ Head(t) = t[1]
      /\ \A i \in 1 .. Len(A) - 1 : Tail(t)[i] = t[i + 1]
  BY <1>3, <1>4, FirstAndRest
<1>6. Tail(t) = [i \in 1 .. Len(A) - 1 |-> Tail(t)[i]]
  <2> DEFINE u == Tail(t)
  <2>1. u \in Seq({u[i] : i \in DOMAIN u})  BY <1>5 DEF IsSeq
  <2> HIDE DEF u
  <2>2. u = [i \in DOMAIN u |-> u[i]]  BY <2>1
  <2> QED  BY <1>5, <2>2 DEF u
<1>7. TasksOf(Tail(A)) = [i \in 1 .. Len(A) - 1 |-> Tail(A)[i].task]
  BY FirstAndRest DEF TasksOf
<1>8. \A i \in 1 .. Len(A) - 1 : Tail(t)[i] = Tail(A)[i].task
  <2> SUFFICES ASSUME NEW i \in 1 .. Len(A) - 1 PROVE Tail(t)[i] = Tail(A)[i].task
    OBVIOUS
  <2>1. i + 1 \in 1 .. Len(A)  BY <1>1
  <2>2. Tail(A)[i] = A[i + 1]  BY FirstAndRest
  <2> QED  BY <1>1, <1>5, <2>1, <2>2
<1>9. Tail(t) = TasksOf(Tail(A))  BY <1>6, <1>7, <1>8
<1> QED  BY <1>1, <1>4, <1>5, <1>9 DEF t

\* The first task and the others.
LEMMA PlacedFirst ==
  ASSUME NEW c, NEW A, Placed(c, A), A # <<>>
  PROVE  /\ IsSeq(A) /\ IsSeq(Tail(A))
         /\ Claim(c, A[1]) /\ Placed(c, Tail(A))
         /\ Tail(A) # <<>> => Link(A[1], Tail(A)[1])
         /\ A[1].task.op \in {"items", "entries", "subscript"} => Tail(A) # <<>>
         /\ \A s \in Owed(Tail(A)) : Subscripted(A[1].path, s)
         /\ A[1].task.op = "subscript" => Subscripted(A[1].path, A[1])
         /\ Owed(A) = Owed(Tail(A)) \cup (IF A[1].task.op = "subscript" THEN {A[1]} ELSE {})
<1> DEFINE T == Tail(A)
<1>1. /\ IsSeq(T) /\ Len(T) = Len(A) - 1 /\ Len(A) \in Nat \ {0}
      /\ DOMAIN A = 1 .. Len(A) /\ DOMAIN T = 1 .. Len(A) - 1
      /\ \A i \in 1 .. Len(A) - 1 : T[i] = A[i + 1]
  BY FirstAndRest DEF Placed
<1> HIDE DEF T
<1>2. /\ 1 \in DOMAIN A /\ \A i \in DOMAIN T : i + 1 \in DOMAIN A /\ T[i] = A[i + 1]
      /\ \A i \in DOMAIN A : i # 1 => i - 1 \in DOMAIN T /\ A[i] = T[i - 1]
  <2>1. \A i \in DOMAIN T : i + 1 \in DOMAIN A /\ T[i] = A[i + 1]  BY <1>1
  <2>2. ASSUME NEW i \in DOMAIN A, i # 1 PROVE i - 1 \in DOMAIN T /\ A[i] = T[i - 1]
    <3>1. i - 1 \in DOMAIN T /\ i - 1 + 1 = i  BY <1>1, <2>2
    <3> QED  BY <2>1, <3>1
  <2> QED  BY <1>1, <2>1, <2>2
<1>3. T # <<>> => 1 \in DOMAIN T /\ T[1] = A[2] /\ 2 \in DOMAIN A
  <2> SUFFICES ASSUME T # <<>> PROVE 1 \in DOMAIN T /\ T[1] = A[2] /\ 2 \in DOMAIN A
    OBVIOUS
  <2>1. 1 \in DOMAIN T  BY <1>1, FirstAndRest
  <2>2. T[1] = A[1 + 1] /\ 1 + 1 \in DOMAIN A  BY <1>2, <2>1
  <2> QED  BY <2>1, <2>2
<1>4. Claim(c, A[1])  BY <1>2 DEF Placed
<1>5. T # <<>> => Link(A[1], T[1])
  <2> SUFFICES ASSUME T # <<>> PROVE Link(A[1], T[1])
    OBVIOUS
  <2>1. 1 + 1 \in DOMAIN A  BY <1>3
  <2>2. Link(A[1], A[1 + 1])  BY <1>2, <2>1 DEF Placed
  <2>3. A[1 + 1] = T[1]  BY <1>3
  <2> QED  BY <2>2, <2>3
<1>6. A[1].task.op \in {"items", "entries", "subscript"} => T # <<>>
  <2> SUFFICES ASSUME A[1].task.op \in {"items", "entries", "subscript"} PROVE T # <<>>
    OBVIOUS
  <2>1. 1 + 1 \in DOMAIN A  BY <1>2 DEF Placed
  <2>2. 1 \in DOMAIN T  BY <1>1, <2>1
  <2> QED  BY <2>2
<1>7. ASSUME NEW s \in Owed(T)
      PROVE  Subscripted(A[1].path, s)
  <2>1. PICK l \in DOMAIN T : T[l].task.op = "subscript" /\ s = T[l]  BY DEF Owed
  <2>2. l + 1 \in DOMAIN A /\ T[l] = A[l + 1]  BY <1>2
  <2>3. 1 \in 1 .. l + 1  BY <1>1
  <2> QED  BY <2>1, <2>2, <2>3 DEF Placed
<1>8. A[1].task.op = "subscript" => Subscripted(A[1].path, A[1])
  <2>1. 1 \in 1 .. 1  OBVIOUS
  <2> QED  BY <1>2, <2>1 DEF Placed
<1>9. Owed(A) = Owed(T) \cup (IF A[1].task.op = "subscript" THEN {A[1]} ELSE {})
  <2>1. ASSUME NEW s \in Owed(A), s # A[1] \/ A[1].task.op # "subscript"
        PROVE  s \in Owed(T)
    <3>1. PICK l \in DOMAIN A : A[l].task.op = "subscript" /\ s = A[l]  BY DEF Owed
    <3>2. l # 1  BY <2>1, <3>1
    <3>3. l - 1 \in DOMAIN T /\ A[l] = T[l - 1]  BY <1>2, <3>2
    <3> QED  BY <3>1, <3>3 DEF Owed
  <2>2. ASSUME NEW s \in Owed(T) PROVE s \in Owed(A)
    <3>1. PICK l \in DOMAIN T : T[l].task.op = "subscript" /\ s = T[l]  BY DEF Owed
    <3>2. l + 1 \in DOMAIN A /\ T[l] = A[l + 1]  BY <1>2
    <3> QED  BY <3>1, <3>2 DEF Owed
  <2>3. A[1].task.op = "subscript" => A[1] \in Owed(A)  BY <1>2 DEF Owed
  <2> QED  BY <2>1, <2>2, <2>3
<1>10. Placed(c, T)
  <2>1. \A i \in DOMAIN T : Claim(c, T[i])  BY <1>2 DEF Placed
  <2>2. ASSUME NEW i \in DOMAIN T, i + 1 \in DOMAIN T PROVE Link(T[i], T[i + 1])
    <3>1. i + 1 \in DOMAIN A /\ i + 1 + 1 \in DOMAIN A /\ T[i] = A[i + 1] /\ T[i + 1] = A[i + 1 + 1]
      BY <1>2, <2>2
    <3> QED  BY <3>1 DEF Placed
  <2>3. ASSUME NEW i \in DOMAIN T, T[i].task.op \in {"items", "entries", "subscript"}
        PROVE  i + 1 \in DOMAIN T
    <3>1. i + 1 \in DOMAIN A /\ T[i] = A[i + 1]  BY <1>2
    <3>2. i + 1 + 1 \in DOMAIN A  BY <2>3, <3>1 DEF Placed
    <3> QED  BY <1>1, <3>2
  <2>4. ASSUME NEW l \in DOMAIN T, T[l].task.op = "subscript", NEW i \in 1 .. l
        PROVE  Subscripted(T[i].path, T[l])
    <3>1. l + 1 \in DOMAIN A /\ T[l] = A[l + 1]  BY <1>2
    <3>2. i \in DOMAIN T /\ i + 1 \in 1 .. l + 1  BY <1>1
    <3>3. T[i] = A[i + 1]  BY <1>2, <3>2
    <3> QED  BY <2>4, <3>1, <3>2, <3>3 DEF Placed
  <2> QED  BY <1>1, <2>1, <2>2, <2>3, <2>4 DEF Placed
<1>11. IsSeq(A)  BY DEF Placed
<1> QED  BY <1>1, <1>4, <1>5, <1>6, <1>7, <1>8, <1>9, <1>10, <1>11 DEF T

\* The first task is on the way to every subscript that is to be set.
LEMMA FirstOwes ==
  ASSUME NEW c, NEW A, Placed(c, A), A # <<>>
  PROVE  \A s \in Owed(A) : Subscripted(A[1].path, s) /\ s.task.op = "subscript"
<1>1. \A s \in Owed(A) : s.task.op = "subscript"  BY DEF Owed
<1>2. /\ Owed(A) = Owed(Tail(A)) \cup (IF A[1].task.op = "subscript" THEN {A[1]} ELSE {})
      /\ \A s \in Owed(Tail(A)) : Subscripted(A[1].path, s)
      /\ A[1].task.op = "subscript" => Subscripted(A[1].path, A[1])
  BY PlacedFirst
<1>3. ASSUME NEW s \in Owed(A) PROVE Subscripted(A[1].path, s)
  BY <1>2
<1> QED  BY <1>1, <1>3

\* No tasks.
LEMMA PlacedNone == ASSUME NEW c PROVE Placed(c, <<>>) /\ Owed(<<>>) = {}
BY DEF Placed, IsSeq, Owed

\* Tasks before tasks; where they begin; what they have still to set.
Joined(B, A) == B \o A
Begins(A, q, k) == A # <<>> => A[1].path = q /\ A[1].key = k
Owes(A, q) == \A s \in Owed(A) : Subscripted(q, s)

\* Two sequences of tasks, one after the other.
LEMMA JoinedIs ==
  ASSUME NEW B, NEW A, IsSeq(B), IsSeq(A)
  PROVE  /\ IsSeq(Joined(B, A)) /\ Len(B) \in Nat /\ Len(A) \in Nat
         /\ DOMAIN B = 1 .. Len(B) /\ DOMAIN A = 1 .. Len(A)
         /\ DOMAIN Joined(B, A) = 1 .. Len(B) + Len(A)
         /\ \A i \in 1 .. Len(B) : Joined(B, A)[i] = B[i]
         /\ \A i \in 1 .. Len(A) : Joined(B, A)[Len(B) + i] = A[i]
         /\ TasksOf(Joined(B, A)) = TasksOf(B) \o TasksOf(A)
BY ConcatAt, TasksOfConcat DEF Joined

\* One more task first.
LEMMA PlacedNext ==
  ASSUME NEW c, NEW a, NEW A, Placed(c, A), Claim(c, a),
         A # <<>> => Link(a, A[1]),
         a.task.op \in {"items", "entries", "subscript"} => A # <<>>,
         Owes(A, a.path),
         a.task.op = "subscript" => Subscripted(a.path, a),
         NEW B, B = Joined(<<a>>, A)
  PROVE  /\ Placed(c, B) /\ B # <<>> /\ B[1] = a
         /\ Owed(B) = Owed(A) \cup (IF a.task.op = "subscript" THEN {a} ELSE {})
         /\ TasksOf(B) = <<a.task>> \o TasksOf(A)
<1>1. IsSeq(<<a>>) /\ Len(<<a>>) = 1 /\ <<a>>[1] = a
  <2> DEFINE s == <<a>>
  <2>1. s = [i \in 1 .. 1 |-> s[i]] /\ s[1] = a /\ Len(s) = 1  OBVIOUS
  <2>2. IsSeq(s)  BY <2>1, IndexedIs
  <2> QED  BY <2>1, <2>2
<1>2. IsSeq(A)  BY DEF Placed
<1>3. /\ IsSeq(B) /\ Len(A) \in Nat /\ DOMAIN A = 1 .. Len(A) /\ DOMAIN B = 1 .. 1 + Len(A)
      /\ \A i \in 1 .. 1 : B[i] = <<a>>[i]
      /\ \A i \in 1 .. Len(A) : B[1 + i] = A[i]
  BY <1>1, <1>2, JoinedIs
<1>4. TasksOf(B) = <<a.task>> \o TasksOf(A)
  <2>1. TasksOf(<<a>>) = <<a.task>>  BY DEF TasksOf
  <2> QED  BY <1>1, <1>2, <2>1, JoinedIs
<1>5. /\ B[1] = a /\ 1 \in DOMAIN B
      /\ \A i \in DOMAIN A : i + 1 \in DOMAIN B /\ B[i + 1] = A[i]
      /\ \A i \in DOMAIN B : i # 1 => i - 1 \in DOMAIN A /\ B[i] = A[i - 1]
  <2>1. B[1] = a /\ 1 \in DOMAIN B  BY <1>1, <1>3
  <2>2. ASSUME NEW i \in DOMAIN A PROVE i + 1 \in DOMAIN B /\ B[i + 1] = A[i]
    <3>1. i + 1 = 1 + i /\ i + 1 \in DOMAIN B  BY <1>3
    <3> QED  BY <1>3, <3>1
  <2>3. ASSUME NEW i \in DOMAIN B, i # 1 PROVE i - 1 \in DOMAIN A /\ B[i] = A[i - 1]
    <3>1. i - 1 \in DOMAIN A /\ i - 1 + 1 = i  BY <1>3, <2>3
    <3> QED  BY <2>2, <3>1
  <2> QED  BY <2>1, <2>2, <2>3
<1>6. Owed(B) = Owed(A) \cup (IF a.task.op = "subscript" THEN {a} ELSE {})
  <2>1. ASSUME NEW s \in Owed(B), s # a \/ a.task.op # "subscript"
        PROVE  s \in Owed(A)
    <3>1. PICK l \in DOMAIN B : B[l].task.op = "subscript" /\ s = B[l]  BY DEF Owed
    <3>2. l # 1  BY <1>5, <2>1, <3>1
    <3>3. l - 1 \in DOMAIN A /\ B[l] = A[l - 1]  BY <1>5, <3>2
    <3> QED  BY <3>1, <3>3 DEF Owed
  <2>2. ASSUME NEW s \in Owed(A) PROVE s \in Owed(B)
    <3>1. PICK l \in DOMAIN A : A[l].task.op = "subscript" /\ s = A[l]  BY DEF Owed
    <3>2. l + 1 \in DOMAIN B /\ B[l + 1] = A[l]  BY <1>5
    <3> QED  BY <3>1, <3>2 DEF Owed
  <2>3. a.task.op = "subscript" => a \in Owed(B)  BY <1>5 DEF Owed
  <2> QED  BY <2>1, <2>2, <2>3
<1>7. ASSUME NEW i \in DOMAIN B PROVE Claim(c, B[i])
  BY <1>5 DEF Placed
<1>8. ASSUME NEW i \in DOMAIN B, i + 1 \in DOMAIN B PROVE Link(B[i], B[i + 1])
  <2>1. CASE i = 1
    <3>1. 1 \in DOMAIN A /\ B[2] = A[1] /\ i + 1 = 2
      <4>1. 1 + 1 # 1 /\ 1 + 1 \in DOMAIN B /\ 1 + 1 - 1 = 1  BY <1>8, <2>1
      <4> QED  BY <1>5, <2>1, <4>1
    <3>2. A # <<>>  BY <3>1
    <3> QED  BY <1>5, <2>1, <3>1, <3>2
  <2>2. CASE i # 1
    <3>1. i - 1 \in DOMAIN A /\ B[i] = A[i - 1]  BY <1>5, <2>2
    <3>2. i \in DOMAIN A /\ B[i + 1] = A[i] /\ i = (i - 1) + 1
      <4>1. i \in DOMAIN A  BY <1>3, <1>8, <3>1
      <4> QED  BY <1>5, <3>1, <4>1, <1>3
    <3> QED  BY <3>1, <3>2 DEF Placed
  <2> QED  BY <2>1, <2>2
<1>9. ASSUME NEW i \in DOMAIN B, B[i].task.op \in {"items", "entries", "subscript"}
      PROVE  i + 1 \in DOMAIN B
  <2>1. CASE i = 1
    <3>1. A # <<>>  BY <1>5, <1>9, <2>1
    <3>2. 1 \in DOMAIN A  BY <1>2, <3>1, FirstAndRest
    <3> QED  BY <1>5, <2>1, <3>2
  <2>2. CASE i # 1
    <3>1. i - 1 \in DOMAIN A /\ B[i] = A[i - 1]  BY <1>5, <2>2
    <3>2. i - 1 + 1 \in DOMAIN A  BY <1>9, <3>1 DEF Placed
    <3>3. i - 1 + 1 = i  BY <1>3
    <3> QED  BY <1>5, <3>2, <3>3
  <2> QED  BY <2>1, <2>2
<1>10. ASSUME NEW l \in DOMAIN B, B[l].task.op = "subscript", NEW i \in 1 .. l
       PROVE  Subscripted(B[i].path, B[l])
  <2>1. CASE l = 1
    <3>1. i = 1  BY <2>1
    <3> QED  BY <1>5, <1>10, <2>1, <3>1
  <2>2. CASE l # 1
    <3>1. l - 1 \in DOMAIN A /\ B[l] = A[l - 1]  BY <1>5, <2>2
    <3>2. CASE i = 1
      <4>1. B[l] \in Owed(A)  BY <1>10, <3>1 DEF Owed
      <4> QED  BY <1>5, <3>2, <4>1 DEF Owes
    <3>3. CASE i # 1
      <4>1. i \in DOMAIN B /\ i - 1 \in 1 .. l - 1  BY <1>3, <3>3
      <4>2. B[i] = A[i - 1]  BY <1>5, <3>3, <4>1
      <4> QED  BY <1>10, <3>1, <4>1, <4>2 DEF Placed
    <3> QED  BY <3>2, <3>3
  <2> QED  BY <2>1, <2>2
<1>11. Placed(c, B)  BY <1>3, <1>7, <1>8, <1>9, <1>10 DEF Placed
<1>12. B # <<>>  BY <1>5
<1> QED  BY <1>4, <1>5, <1>6, <1>11, <1>12

\* A task that leaves the path and the flag as they are.
Steady(a) == a.task.op \notin {"leave", "subscript", "items", "entries", "keyDone"}

\* Tasks at one path that leave it as it is.
Block(c, B, q, k) ==
  IsSeq(B) /\ \A i \in DOMAIN B :
    Claim(c, B[i]) /\ Steady(B[i]) /\ B[i].path = q /\ B[i].key = k

\* Several more tasks first, all at one path.
LEMMA PlacedBlock ==
  ASSUME NEW c, NEW B, NEW A, NEW q, NEW k, Placed(c, A), Block(c, B, q, k),
         Begins(A, q, k), Owes(A, q), NEW C, C = Joined(B, A)
  PROVE  /\ Placed(c, C) /\ Owed(C) = Owed(A)
         /\ Begins(C, q, k)
<1> \A i \in DOMAIN B :
      Claim(c, B[i]) /\ Steady(B[i]) /\ B[i].path = q /\ B[i].key = k
  BY DEF Block
<1> (A # <<>> => A[1].path = q /\ A[1].key = k) /\ \A s \in Owed(A) : Subscripted(q, s)
  BY DEF Begins, Owes
<1>1. IsSeq(A) /\ IsSeq(B)  BY DEF Placed, Block
<1>2. /\ IsSeq(C) /\ Len(B) \in Nat /\ Len(A) \in Nat
      /\ DOMAIN B = 1 .. Len(B) /\ DOMAIN A = 1 .. Len(A) /\ DOMAIN C = 1 .. Len(B) + Len(A)
      /\ \A i \in 1 .. Len(B) : C[i] = B[i]
      /\ \A i \in 1 .. Len(A) : C[Len(B) + i] = A[i]
  BY <1>1, JoinedIs
<1>3. /\ \A i \in DOMAIN C : i <= Len(B) => i \in DOMAIN B /\ C[i] = B[i]
      /\ \A i \in DOMAIN C : ~(i <= Len(B)) => i - Len(B) \in DOMAIN A /\ C[i] = A[i - Len(B)]
      /\ \A i \in DOMAIN A : Len(B) + i \in DOMAIN C /\ C[Len(B) + i] = A[i]
  <2>1. \A i \in DOMAIN C : i <= Len(B) => i \in DOMAIN B /\ C[i] = B[i]  BY <1>2
  <2>2. \A i \in DOMAIN A : Len(B) + i \in DOMAIN C /\ C[Len(B) + i] = A[i]  BY <1>2
  <2>3. ASSUME NEW i \in DOMAIN C, ~(i <= Len(B))
        PROVE  i - Len(B) \in DOMAIN A /\ C[i] = A[i - Len(B)]
    <3>1. PICK m \in Nat, n \in Nat : m = Len(B) /\ n = Len(A)  BY <1>2
    <3>2. i \in 1 .. m + n /\ ~(i <= m)  BY <1>2, <2>3, <3>1
    <3>3. i - m \in 1 .. n /\ m + (i - m) = i  BY ONLY <3>2
    <3>4. i - Len(B) \in DOMAIN A /\ Len(B) + (i - Len(B)) = i  BY <1>2, <3>1, <3>3
    <3> QED  BY <2>2, <3>4
  <2> QED  BY <2>1, <2>2, <2>3
<1>4. ASSUME NEW i \in DOMAIN C PROVE Claim(c, C[i])
  BY <1>3 DEF Placed
<1>5. A # <<>> => 1 \in DOMAIN A  BY <1>1, FirstAndRest
<1>6. ASSUME NEW i \in DOMAIN C, i <= Len(B) \/ i = Len(B) + 1
      PROVE  C[i].path = q /\ C[i].key = k
  <2>1. CASE i <= Len(B)  BY <1>3, <2>1
  <2>2. CASE ~(i <= Len(B))
    <3>1. i - Len(B) \in DOMAIN A /\ C[i] = A[i - Len(B)]  BY <1>3, <2>2
    <3>2. i - Len(B) = 1 /\ A # <<>>  BY <1>2, <1>6, <2>2, <3>1
    <3> QED  BY <3>1, <3>2
  <2> QED  BY <2>1, <2>2
<1>7. ASSUME NEW i \in DOMAIN C, i + 1 \in DOMAIN C PROVE Link(C[i], C[i + 1])
  <2>1. CASE i <= Len(B)
    <3>1. i + 1 <= Len(B) \/ i + 1 = Len(B) + 1  BY <1>2, <2>1
    <3>2. C[i].path = q /\ C[i].key = k /\ C[i + 1].path = q /\ C[i + 1].key = k
      BY <1>6, <1>7, <2>1, <3>1
    <3>3. Steady(C[i])  BY <1>3, <2>1
    <3>4. C[i].key \in BOOLEAN  BY <1>4 DEF Claim
    <3> QED  BY <3>2, <3>3, <3>4 DEF Link, Steady
  <2>2. CASE ~(i <= Len(B))
    <3>1. PICK l \in DOMAIN A : i = Len(B) + l
      <4>1. i - Len(B) \in DOMAIN A  BY <1>3, <2>2
      <4>2. i = Len(B) + (i - Len(B))  BY <1>2
      <4> QED  BY <4>1, <4>2
    <3>2. C[i] = A[l]  BY <1>3, <3>1
    <3>3. i + 1 = Len(B) + (l + 1)  BY <1>2, <3>1
    <3>4. l + 1 \in DOMAIN A  BY <1>2, <1>7, <3>3
    <3>5. C[i + 1] = A[l + 1]  BY <1>3, <3>3, <3>4
    <3> QED  BY <3>2, <3>4, <3>5 DEF Placed
  <2> QED  BY <2>1, <2>2
<1>8. ASSUME NEW i \in DOMAIN C, C[i].task.op \in {"items", "entries", "subscript"}
      PROVE  i + 1 \in DOMAIN C
  <2>1. ~(i <= Len(B))  BY <1>3, <1>8 DEF Steady
  <2>2. i - Len(B) \in DOMAIN A /\ C[i] = A[i - Len(B)]  BY <1>3, <2>1
  <2>3. i - Len(B) + 1 \in DOMAIN A  BY <1>8, <2>2 DEF Placed
  <2>4. Len(B) + (i - Len(B) + 1) = i + 1  BY <1>2
  <2> QED  BY <1>3, <2>3, <2>4
<1>9. ASSUME NEW l \in DOMAIN C, C[l].task.op = "subscript"
      PROVE  /\ ~(l <= Len(B)) /\ l - Len(B) \in DOMAIN A /\ C[l] = A[l - Len(B)]
             /\ C[l] \in Owed(A)
  <2>1. ~(l <= Len(B))  BY <1>3, <1>9 DEF Steady
  <2>2. l - Len(B) \in DOMAIN A /\ C[l] = A[l - Len(B)]  BY <1>3, <2>1
  <2> QED  BY <1>9, <2>1, <2>2 DEF Owed
<1>10. ASSUME NEW l \in DOMAIN C, C[l].task.op = "subscript", NEW i \in 1 .. l
       PROVE  Subscripted(C[i].path, C[l])
  <2>1. i \in DOMAIN C  BY <1>2
  <2>2. CASE i <= Len(B)  BY <1>6, <1>9, <1>10, <2>1, <2>2
  <2>3. CASE ~(i <= Len(B))
    <3>1. i - Len(B) \in 1 .. l - Len(B) /\ C[i] = A[i - Len(B)]
      BY <1>2, <1>3, <2>1, <2>3
    <3> QED  BY <1>9, <1>10, <3>1 DEF Placed
  <2> QED  BY <2>2, <2>3
<1>11. Placed(c, C)  BY <1>2, <1>4, <1>7, <1>8, <1>10 DEF Placed
<1>12. Owed(C) = Owed(A)
  <2>1. ASSUME NEW s \in Owed(C) PROVE s \in Owed(A)
    <3>1. PICK l \in DOMAIN C : C[l].task.op = "subscript" /\ s = C[l]  BY DEF Owed
    <3> QED  BY <1>9, <3>1
  <2>2. ASSUME NEW s \in Owed(A) PROVE s \in Owed(C)
    <3>1. PICK l \in DOMAIN A : A[l].task.op = "subscript" /\ s = A[l]  BY DEF Owed
    <3> QED  BY <1>3, <3>1 DEF Owed
  <2> QED  BY <2>1, <2>2
<1>13. C # <<>> => C[1].path = q /\ C[1].key = k
  <2> SUFFICES ASSUME C # <<>> PROVE C[1].path = q /\ C[1].key = k
    OBVIOUS
  <2>1. 1 \in DOMAIN C  BY <1>2, FirstAndRest
  <2>2. 1 <= Len(B) \/ 1 = Len(B) + 1  BY <1>2
  <2> QED  BY <1>6, <2>1, <2>2
<1> QED  BY <1>11, <1>12, <1>13 DEF Begins

-----------------------------------------------------------------------------
(* Paths without some of their subscripts.                                 *)

\* A path without some subscripts is as long, with the same fields.
LEMMA WithoutIs ==
  ASSUME NEW p, IsPath(p), NEW D
  PROVE  /\ IsPath(Without(p, D)) /\ Len(Without(p, D)) = Len(p) /\ DOMAIN Without(p, D) = DOMAIN p
         /\ \A d \in DOMAIN p :
              Without(p, D)[d] = Element(p[d].field, IF d \in D THEN NoSub ELSE p[d].sub)
<1> DEFINE q == Without(p, D)
<1>1. p \in Seq(Elements) /\ Len(p) \in Nat /\ DOMAIN p = 1 .. Len(p)  BY ParentIs, PathIs
<1>2. q = [d \in 1 .. Len(p) |-> Element(p[d].field, IF d \in D THEN NoSub ELSE p[d].sub)]
  BY <1>1 DEF Without
<1> HIDE DEF q
<1>3. \A d \in 1 .. Len(p) : q[d] \in Elements
  <2> SUFFICES ASSUME NEW d \in 1 .. Len(p) PROVE q[d] \in Elements
    OBVIOUS
  <2>1. p[d] \in Elements  BY <1>1
  <2> QED  BY <1>2, <2>1 DEF Elements, Element
<1>4. q \in [1 .. Len(p) -> Elements]  BY <1>2, <1>3
<1>5. q \in Seq(Elements) /\ Len(q) = Len(p)
  <2>1. q \in Seq(Elements)  BY <1>1, <1>4, IsASeq
  <2>2. DOMAIN q = 1 .. Len(p)  BY <1>4
  <2> QED  BY <1>1, <2>1, <2>2
<1>6. IsPath(q)  BY <1>5, PathIs
<1> QED  BY <1>1, <1>2, <1>5, <1>6 DEF q

\* An element is known by its parts.
LEMMA ElementIs ==
  ASSUME NEW e \in Elements
  PROVE  e = Element(e.field, e.sub) /\ e.field \in STRING /\ e.sub \in Keys \cup Nat \cup {NoSub}
BY DEF Elements, Element

\* No depths leave out nothing.
LEMMA WithoutNone == ASSUME NEW p, IsPath(p) PROVE Without(p, {}) = p
<1>1. p \in Seq(Elements) /\ DOMAIN p = 1 .. Len(p)  BY ParentIs, PathIs
<1>2. Without(p, {}) \in Seq(Elements) /\ Len(Without(p, {})) = Len(p)  BY WithoutIs, PathIs
<1>3. ASSUME NEW d \in 1 .. Len(p) PROVE Without(p, {})[d] = p[d]
  <2>1. p[d] \in Elements /\ d \in DOMAIN p  BY <1>1
  <2>2. Without(p, {})[d] = Element(p[d].field, IF d \in {} THEN NoSub ELSE p[d].sub)
    BY <2>1, WithoutIs
  <2>3. Without(p, {})[d] = Element(p[d].field, p[d].sub)  BY <2>2
  <2> QED  BY <2>1, <2>3, ElementIs
<1> QED  BY <1>1, <1>2, <1>3, SeqEqual

\* One more element, at none of the depths.
LEMMA WithoutLonger ==
  ASSUME NEW p, IsPath(p), NEW D, \A d \in D : d \in 1 .. Len(p), NEW f \in STRING
  PROVE  Append(Without(p, D), Element(f, NoSub)) = Without(Append(p, Element(f, NoSub)), D)
<1> DEFINE e == Element(f, NoSub)
           q == Append(Without(p, D), e)
           r == Without(Append(p, e), D)
<1>1. e \in Elements /\ e.sub = NoSub /\ e.field = f  BY DEF Element, Elements
<1>2. e = Element(e.field, NoSub)  BY <1>1
<1> HIDE DEF e
<1>3. /\ IsPath(Append(p, e)) /\ Len(Append(p, e)) = Len(p) + 1
      /\ \A i \in 1 .. Len(p) : Append(p, e)[i] = p[i]
      /\ Append(p, e)[Len(p) + 1] = e
      /\ Len(p) \in Nat /\ DOMAIN p = 1 .. Len(p)
  BY <1>1, AppendIs, ParentIs
<1>4. IsPath(Without(p, D)) /\ Len(Without(p, D)) = Len(p)  BY WithoutIs
<1>5. /\ q \in Seq(Elements) /\ Len(q) = Len(p) + 1
      /\ \A i \in 1 .. Len(p) : q[i] = Without(p, D)[i]
      /\ q[Len(p) + 1] = e
  BY <1>1, <1>4, AppendIs, PathIs
<1>6. /\ r \in Seq(Elements) /\ Len(r) = Len(p) + 1
      /\ \A d \in DOMAIN Append(p, e) :
           r[d] = Element(Append(p, e)[d].field, IF d \in D THEN NoSub ELSE Append(p, e)[d].sub)
      /\ DOMAIN Append(p, e) = 1 .. Len(p) + 1
  BY <1>3, WithoutIs, ParentIs, PathIs
<1>7. ASSUME NEW i \in 1 .. Len(p) + 1 PROVE q[i] = r[i]
  <2>1. CASE i = Len(p) + 1
    <3>1. Append(p, e)[i] = e /\ i \in DOMAIN Append(p, e)  BY <1>3, <1>6, <2>1
    <3>2. r[i] = Element(e.field, IF i \in D THEN NoSub ELSE e.sub)  BY <1>6, <3>1
    <3>3. r[i] = e  BY <1>1, <1>2, <3>2
    <3> QED  BY <1>5, <2>1, <3>3
  <2>2. CASE i # Len(p) + 1
    <3>1. i \in 1 .. Len(p) /\ i \in DOMAIN p  BY <1>3, <2>2
    <3>2. r[i] = Element(p[i].field, IF i \in D THEN NoSub ELSE p[i].sub)  BY <1>3, <1>6, <3>1
    <3>3. q[i] = Element(p[i].field, IF i \in D THEN NoSub ELSE p[i].sub)  BY <1>5, <3>1, WithoutIs
    <3> QED  BY <3>2, <3>3
  <2> QED  BY <2>1, <2>2
<1> HIDE DEF q, r
<1>8. q = r  BY <1>5, <1>6, <1>7, SeqEqual
<1> QED  BY <1>8 DEF q, r, e

\* The parent of a path, without the same depths.
LEMMA WithoutParent ==
  ASSUME NEW p, IsPath(p), p # <<>>, NEW D
  PROVE  Parent(Without(p, D)) = Without(Parent(p), D)
<1> DEFINE q == Without(p, D)
           r == Without(Parent(p), D)
<1>1. /\ Len(p) \in Nat /\ Len(p) > 0 /\ IsPath(Parent(p)) /\ Len(Parent(p)) = Len(p) - 1
      /\ \A i \in 1 .. Len(p) - 1 : Parent(p)[i] = p[i]
      /\ DOMAIN p = 1 .. Len(p) /\ DOMAIN Parent(p) = 1 .. Len(p) - 1
  BY ParentIs
<1>2. /\ IsPath(q) /\ Len(q) = Len(p)
      /\ \A d \in DOMAIN p : q[d] = Element(p[d].field, IF d \in D THEN NoSub ELSE p[d].sub)
  BY WithoutIs
<1>3. /\ IsPath(r) /\ Len(r) = Len(p) - 1
      /\ \A d \in DOMAIN Parent(p) :
           r[d] = Element(Parent(p)[d].field, IF d \in D THEN NoSub ELSE Parent(p)[d].sub)
  BY <1>1, WithoutIs
<1> HIDE DEF q, r
<1>4. q # <<>>  BY <1>1, <1>2
<1>5. /\ Parent(q) \in Seq(Elements) /\ Len(Parent(q)) = Len(p) - 1
      /\ \A i \in 1 .. Len(p) - 1 : Parent(q)[i] = q[i]
  BY <1>2, <1>4, ParentIs, PathIs
<1>6. ASSUME NEW i \in 1 .. Len(p) - 1 PROVE Parent(q)[i] = r[i]
  <2>1. i \in DOMAIN p /\ i \in DOMAIN Parent(p) /\ Parent(p)[i] = p[i]  BY <1>1
  <2> QED  BY <1>2, <1>3, <1>5, <2>1
<1>7. r \in Seq(Elements)  BY <1>3, PathIs
<1>8. Parent(q) = r  BY <1>3, <1>5, <1>6, <1>7, SeqEqual
<1> QED  BY <1>8 DEF q, r

\* A path with a subscript in element d.
SetAt(p, d, sub) == [p EXCEPT ![d].sub = sub]

\* One subscript in place, on the path and on the one without D.
LEMMA WithoutSet ==
  ASSUME NEW p, IsPath(p), NEW d \in DOMAIN p, NEW D, NEW E, NEW sub \in Subs,
         NEW q, q = SetAt(p, d, sub),
         d \notin E, \A i \in DOMAIN p : i # d => (i \in D <=> i \in E)
  PROVE  SetAt(Without(p, D), d, sub) = Without(q, E)
<1> DEFINE w == Without(p, D)
           u == [w EXCEPT ![d].sub = sub]
           r == Without(q, E)
<1>1. Len(p) \in Nat /\ DOMAIN p = 1 .. Len(p) /\ p \in Seq(Elements) /\ p[d] \in Elements
  BY ParentIs, PathIs
<1>2. /\ w \in Seq(Elements) /\ Len(w) = Len(p) /\ DOMAIN w = DOMAIN p
      /\ \A i \in DOMAIN p : w[i] = Element(p[i].field, IF i \in D THEN NoSub ELSE p[i].sub)
  BY WithoutIs, PathIs
<1> DEFINE a == Element(p[d].field, sub)
<1>3. a \in Elements /\ a.field = p[d].field /\ a.sub = sub  BY <1>1 DEF Element, Elements, Subs
<1>4. a = [p[d] EXCEPT !.sub = sub]  BY <1>1 DEF Element, Elements
<1>5. a = [w[d] EXCEPT !.sub = sub]
  <2>1. w[d] = Element(p[d].field, IF d \in D THEN NoSub ELSE p[d].sub)  BY <1>2
  <2> QED  BY <2>1 DEF Element
<1> HIDE DEF a, w
<1>6. /\ q \in Seq(Elements) /\ Len(q) = Len(p) /\ DOMAIN q = DOMAIN p
      /\ q[d] = a /\ \A i \in DOMAIN p : i # d => q[i] = p[i]
  <2>1. q = [p EXCEPT ![d] = a]  BY <1>4 DEF SetAt
  <2> QED  BY <1>1, <1>3, <2>1
<1>7. /\ u \in Seq(Elements) /\ Len(u) = Len(p) /\ DOMAIN u = DOMAIN p
      /\ u[d] = a /\ \A i \in DOMAIN p : i # d => u[i] = w[i]
  <2>1. u = [w EXCEPT ![d] = a]  BY <1>5
  <2> HIDE DEF u
  <2>2. Len(w) \in Nat /\ DOMAIN w = 1 .. Len(w)  BY <1>2
  <2> QED  BY <1>1, <1>2, <1>3, <2>1, <2>2
<1>8. /\ r \in Seq(Elements) /\ Len(r) = Len(p)
      /\ \A i \in DOMAIN p : r[i] = Element(q[i].field, IF i \in E THEN NoSub ELSE q[i].sub)
  <2>1. IsPath(q)  BY <1>6, PathIs
  <2>2. /\ IsPath(r) /\ Len(r) = Len(q)
        /\ \A i \in DOMAIN q : r[i] = Element(q[i].field, IF i \in E THEN NoSub ELSE q[i].sub)
    <3> HIDE DEF u
    <3> QED  BY ONLY <2>1, WithoutIs
  <2> QED  BY <1>6, <2>2, PathIs
<1> HIDE DEF u, r
<1>9. ASSUME NEW i \in DOMAIN p PROVE u[i] = r[i]
  <2>1. CASE i = d
    <3>1. r[i] = Element(a.field, a.sub)  BY <1>6, <1>8, <2>1
    <3>2. r[i] = a  BY <1>3, <3>1, ElementIs
    <3> QED  BY <1>7, <2>1, <3>2
  <2>2. CASE i # d
    <3>1. u[i] = Element(p[i].field, IF i \in D THEN NoSub ELSE p[i].sub)  BY <1>2, <1>7, <2>2
    <3>2. r[i] = Element(p[i].field, IF i \in E THEN NoSub ELSE p[i].sub)  BY <1>6, <1>8, <2>2
    <3> QED  BY <2>2, <3>1, <3>2
  <2> QED  BY <2>1, <2>2
<1>10. u = r  BY <1>1, <1>7, <1>8, <1>9, SeqEqual
<1> QED  BY <1>10 DEF u, r, w, SetAt

\* A subscript that is left out does not show.
LEMMA WithoutHidden ==
  ASSUME NEW p, IsPath(p), p # <<>>, LastOf(p).sub = NoSub,
         NEW key \in Keys, NEW q, q = Setting(p, key),
         NEW D, NEW E, \A i \in DOMAIN p : i # Len(p) => (i \in D <=> i \in E), Len(p) \in E
  PROVE  Without(q, E) = Without(p, D)
<1>1. /\ Len(p) \in Nat /\ DOMAIN p = 1 .. Len(p) /\ LastOf(p) = p[Len(p)]
      /\ IsPath(q) /\ Len(q) = Len(p) /\ DOMAIN q = DOMAIN p
      /\ \A i \in DOMAIN p : i # Len(p) => q[i] = p[i]
      /\ q[Len(p)] = Element(LastOf(p).field, key)
  <2>1. key \in Subs  BY DEF Subs
  <2>2. Len(p) \in Nat /\ DOMAIN p = 1 .. Len(p) /\ LastOf(p) = p[Len(p)]  BY ParentIs
  <2> QED  BY <2>1, <2>2, SetLast
<1>2. q[Len(p)].field = p[Len(p)].field /\ p[Len(p)].sub = NoSub  BY <1>1 DEF Element
<1>3. Without(q, E) = [d \in DOMAIN p |-> Element(q[d].field, IF d \in E THEN NoSub ELSE q[d].sub)]
  BY <1>1 DEF Without
<1>4. ASSUME NEW d \in DOMAIN p
      PROVE  Element(q[d].field, IF d \in E THEN NoSub ELSE q[d].sub)
             = Element(p[d].field, IF d \in D THEN NoSub ELSE p[d].sub)
  <2>1. CASE d = Len(p)  BY <1>2, <2>1
  <2>2. CASE d # Len(p)  BY <1>1, <2>2
  <2> QED  BY <2>1, <2>2
<1> QED  BY <1>3, <1>4 DEF Without

-----------------------------------------------------------------------------
(* The fields of a message, and what they hold.                            *)

\* The rules of a field are of their form, and written where they say.
LEMMA FieldIs ==
  ASSUME NEW n \in Nodes, NEW v \in FieldsOf(n)
  PROVE  /\ TypeOf[n] \in Types /\ v \in FieldValidator /\ v.field \in STRING
         /\ v.value \in ValueValidator
         /\ v.items \in ItemValidator \cup {NoItem} /\ v.keys \in ItemValidator \cup {NoItem}
         /\ v.values \in ItemValidator \cup {NoItem}
         /\ v.kind \in {"scalar", "message", "list", "map"}
         /\ ~v.broken =>
              /\ \A r \in FieldRulesOf(v) : RulePath[r] = NoSub \/ Written(TypeOf[n], v.field, r)
              /\ v.field \in Presence => v.required \/ v.ignoreEmpty
<1>1. PICK i \in DOMAIN Compiled[TypeOf[n]].fields : v = Compiled[TypeOf[n]].fields[i]
  BY DEF FieldsOf
<1>2. TypeOf[n] \in Types  BY CompiledAssumption
<1>3. v \in FieldValidator  BY <1>1, RulesOf
<1>4. ~v.broken =>
        /\ \A r \in FieldRulesOf(v) : RulePath[r] = NoSub \/ Written(TypeOf[n], v.field, r)
        /\ v.field \in Presence => v.required \/ v.ignoreEmpty
  BY <1>1, <1>2, RulesAssumption
<1> QED  BY <1>2, <1>3, <1>4 DEF FieldValidator

\* A message has its fields, and they hold what they may.
LEMMA ContentFits ==
  ASSUME NEW c \in Messages, NEW n \in Nodes, NEW v \in FieldsOf(n)
  PROVE  v.field \in DOMAIN c[n] /\ Fits(TypeOf[n], v, c[n][v.field])
<1>1. PICK i \in DOMAIN Compiled[TypeOf[n]].fields : v = Compiled[TypeOf[n]].fields[i]
  BY DEF FieldsOf
<1> QED  BY <1>1, ContentAssumption

\* A key is no message.
LEMMA KeyIs ==
  ASSUME NEW c \in Messages, NEW n, NEW e, NEW y, GivesKey(c, n, e, y)
  PROVE  y \in Keys /\ y \notin Nodes /\ e.sub = y
<1>1. PICK v \in FieldsOf(n) :
        /\ v.field = e.field /\ v.kind = "map" /\ c[n][v.field] # NoValue
        /\ \E i \in DOMAIN c[n][v.field] : c[n][v.field][i].key = e.sub
  BY DEF GivesKey
<1>2. n \in Nodes /\ y = e.sub  BY DEF GivesKey
<1>3. IsEntries(c[n][v.field])  BY <1>1, <1>2, ContentFits DEF Fits
<1>4. e.sub \in Keys  BY <1>1, <1>3 DEF IsEntries
<1> QED  BY <1>2, <1>4, DistinctAssumption

\* A field's rules are at the paths that end at it.
LEMMA RuleIsAt ==
  ASSUME NEW c, NEW p, p # <<>>, NEW n \in Nodes, Leads(c, Parent(p), n),
         NEW v \in FieldsOf(n), ~v.broken, LastOf(p).field = v.field
  PROVE  \A r \in FieldRulesOf(v) : RuleAt(c, p, r)
<1>1. \A r \in FieldRulesOf(v) : RulePath[r] = NoSub \/ Written(TypeOf[n], v.field, r)
  BY FieldIs
<1> QED  BY <1>1 DEF RuleAt

\* Its rules are those of its value, of its items, of its keys and values.
LEMMA RulesAre ==
  ASSUME NEW v
  PROVE  /\ \A r \in RulesIn(v.value) : r \in FieldRulesOf(v)
         /\ v.required => "required" \in FieldRulesOf(v)
         /\ \A item \in {v.items, v.keys, v.values} :
              item # NoItem => \A r \in RulesIn(item.value) : r \in FieldRulesOf(v)
BY DEF FieldRulesOf

-----------------------------------------------------------------------------
(* Steps.                                                                  *)

\* The task at hand and what follows.
LEMMA AtHand ==
  ASSUME TypeOK, todo # <<>>, NEW A, NEW ps, Explained(A, ps)
  PROVE  /\ A # <<>> /\ A[1].task = task /\ task = Head(todo) /\ Tail(todo) = TasksOf(Tail(A))
         /\ A[1].key = forKey /\ IsTask(task) /\ content \in Messages
         /\ path = Without(A[1].path, Depths(Owed(A), Len(list) + 1))
         /\ Len(list) \in Nat
         /\ Placed(content, A) /\ Claim(content, A[1]) /\ Placed(content, Tail(A))
         /\ Tail(A) # <<>> => Link(A[1], Tail(A)[1])
         /\ A[1].task.op \in {"items", "entries", "subscript"} => Tail(A) # <<>>
         /\ \A s \in Owed(A) : Subscripted(A[1].path, s) /\ s.task.op = "subscript"
         /\ Owed(A) = Owed(Tail(A)) \cup (IF A[1].task.op = "subscript" THEN {A[1]} ELSE {})
         /\ IsPath(A[1].path)
<1>1. Placed(content, A) /\ todo = TasksOf(A)  BY DEF Explained
<1>2. A # <<>>  BY <1>1 DEF TasksOf
<1>3. IsSeq(A)  BY <1>1 DEF Placed
<1>4. Tail(todo) = TasksOf(Tail(A)) /\ Head(todo) = A[1].task
  BY <1>1, <1>2, <1>3, TasksOfTail
<1>5. task = Head(todo)  BY DEF task
<1>6. IsTask(task)  BY HeadTask
<1>7. A[1].key = forKey /\ path = Without(A[1].path, Depths(Owed(A), Len(list) + 1))
  BY <1>2 DEF Explained
<1>8. Len(list) \in Nat /\ content \in Messages  BY DEF TypeOK, IsSeq
<1>9. /\ Claim(content, A[1]) /\ Placed(content, Tail(A))
      /\ Tail(A) # <<>> => Link(A[1], Tail(A)[1])
      /\ A[1].task.op \in {"items", "entries", "subscript"} => Tail(A) # <<>>
      /\ Owed(A) = Owed(Tail(A)) \cup (IF A[1].task.op = "subscript" THEN {A[1]} ELSE {})
  BY <1>1, <1>2, PlacedFirst
<1>10. \A s \in Owed(A) : Subscripted(A[1].path, s) /\ s.task.op = "subscript"
  BY <1>1, <1>2, FirstOwes
<1>11. IsPath(A[1].path)  BY <1>9 DEF Claim
<1> QED  BY <1>1, <1>2, <1>4, <1>5, <1>6, <1>7, <1>8, <1>9, <1>10, <1>11

\* Depths lie on the path of the task at hand.
LEMMA DepthsAre ==
  ASSUME NEW W, NEW i, NEW p, \A s \in W : Subscripted(p, s)
  PROVE  \A d \in Depths(W, i) : d \in 1 .. Len(p)
BY DEF Depths, Subscripted

\* A step that leaves the violations as they are.
LEMMA Moves ==
  ASSUME NEW A, NEW ps, Explained(A, ps), UNCHANGED <<content, fails, list>>,
         NEW B, Placed(content, B), todo' = TasksOf(B), Owed(B) = Owed(A),
         B # <<>> => /\ B[1].key = forKey'
                     /\ path' = Without(B[1].path, Depths(Owed(A), Len(list) + 1))
  PROVE  Explained(B, ps)'
<1>1. Placed(content', B)  BY DEF Explained
<1>2. Accounted(Owed(B), ps)'  BY DEF Explained, Accounted
<1>3. B # <<>> => /\ B[1].key = forKey'
                  /\ path' = Without(B[1].path, Depths(Owed(B), Len(list') + 1))
  OBVIOUS
<1>4. \A s \in Owed(B) : s.task.recorded \in 0 .. Len(list')  BY DEF Explained
<1> QED  BY <1>1, <1>2, <1>3, <1>4 DEF Explained

\* A task that ends without a violation.
LEMMA TaskEnds ==
  ASSUME TypeOK, todo # <<>>, NEW A, NEW ps, Explained(A, ps),
         task.op \notin {"leave", "subscript", "keyDone"}, Then(<<>>),
         UNCHANGED <<content, fails, list, path, forKey>>
  PROVE  Explained(Tail(A), ps)'
<1>1. /\ A # <<>> /\ A[1].task = task /\ Tail(todo) = TasksOf(Tail(A))
      /\ A[1].key = forKey /\ Placed(content, Tail(A)) /\ Claim(content, A[1])
      /\ path = Without(A[1].path, Depths(Owed(A), Len(list) + 1))
      /\ Tail(A) # <<>> => Link(A[1], Tail(A)[1])
      /\ Owed(A) = Owed(Tail(A)) \cup (IF A[1].task.op = "subscript" THEN {A[1]} ELSE {})
  BY AtHand
<1>2. Owed(Tail(A)) = Owed(A)  BY <1>1
<1>3. todo' = TasksOf(Tail(A))
  <2>1. IsSeq(Tail(todo))  BY TailIs DEF TypeOK
  <2>2. <<>> \o Tail(todo) = Tail(todo)  BY <2>1, ConcatEmptySeq DEF IsSeq
  <2> QED  BY <1>1, <2>2 DEF Then
<1>4. Tail(A) # <<>> => Tail(A)[1].path = A[1].path /\ Tail(A)[1].key = A[1].key
  BY <1>1 DEF Link, Claim
<1>5. Tail(A) # <<>> =>
        /\ Tail(A)[1].key = forKey'
        /\ path' = Without(Tail(A)[1].path, Depths(Owed(A), Len(list) + 1))
  BY <1>1, <1>4
<1> QED  BY <1>1, <1>2, <1>3, <1>5, Moves

\* A step that records a violation and ends its task.
LEMMA Records ==
  ASSUME TypeOK, todo # <<>>, NEW A, NEW ps, Explained(A, ps),
         task.op \notin {"leave", "subscript", "keyDone"}, Then(<<>>),
         UNCHANGED <<content, fails, path, forKey>>,
         NEW rule, NEW where, Record(rule, where),
         NEW q, where = Without(q, Depths(Owed(A), Len(list) + 1)),
         Blamed(content, fails, rule, forKey, q),
         \A s \in Owed(A) : Subscripted(q, s)
  PROVE  \E qs : Explained(Tail(A), qs)'
<1>1. /\ A # <<>> /\ A[1].task = task /\ Tail(todo) = TasksOf(Tail(A))
      /\ A[1].key = forKey /\ Placed(content, Tail(A)) /\ Claim(content, A[1])
      /\ path = Without(A[1].path, Depths(Owed(A), Len(list) + 1))
      /\ Tail(A) # <<>> => Link(A[1], Tail(A)[1])
      /\ Owed(A) = Owed(Tail(A)) \cup (IF A[1].task.op = "subscript" THEN {A[1]} ELSE {})
      /\ Len(list) \in Nat
  BY AtHand
<1>2. Owed(Tail(A)) = Owed(A)  BY <1>1
<1>3. todo' = TasksOf(Tail(A))
  <2>1. IsSeq(Tail(todo))  BY TailIs DEF TypeOK
  <2>2. <<>> \o Tail(todo) = Tail(todo)  BY <2>1, ConcatEmptySeq DEF IsSeq
  <2> QED  BY <1>1, <2>2 DEF Then
<1>4. Tail(A) # <<>> => Tail(A)[1].path = A[1].path /\ Tail(A)[1].key = A[1].key
  BY <1>1 DEF Link, Claim
<1>5. PICK n : n = Len(list) /\ n \in Nat  BY <1>1
<1>6. \A s \in Owed(A) : s.task.recorded \in 0 .. n  BY <1>5 DEF Explained
<1>7. Depths(Owed(A), n + 2) = Depths(Owed(A), n + 1)
  <2>1. \A s \in Owed(A) : s.task.recorded < n + 2 <=> s.task.recorded < n + 1
    BY <1>5, <1>6
  <2> QED  BY <2>1 DEF Depths
<1>8. /\ Len(list') = n + 1 /\ DOMAIN list' = 1 .. n + 1 /\ DOMAIN list = 1 .. n
      /\ \A i \in 1 .. n : list'[i] = list[i]
      /\ list'[n + 1] = [path |-> where, rule |-> rule, key |-> forKey]
  <2> DEFINE w == [path |-> where, rule |-> rule, key |-> forKey]
             S == {list[i] : i \in DOMAIN list} \cup {w}
  <2>1. list' = Append(list, w)  BY DEF Record
  <2> HIDE DEF w
  <2>2. list \in Seq(S)  BY SeqMonotonic DEF TypeOK, IsSeq
  <2>3. w \in S  OBVIOUS
  <2> HIDE DEF S
  <2>4. /\ list' \in Seq(S) /\ Len(list') = Len(list) + 1
        /\ \A i \in 1 .. Len(list) : list'[i] = list[i]
        /\ list'[Len(list) + 1] = w
    BY <2>1, <2>2, <2>3, AppendProperties
  <2>5. DOMAIN list' = 1 .. n + 1 /\ DOMAIN list = 1 .. n  BY <1>5, <2>2, <2>4
  <2> QED  BY <1>5, <2>4, <2>5 DEF w
<1>9. PICK qs : qs = [i \in 1 .. n + 1 |-> IF i <= n THEN ps[i] ELSE q]
  OBVIOUS
<1>10. Accounted(Owed(A), qs)'
  <2> SUFFICES ASSUME NEW i \in DOMAIN list'
               PROVE  /\ Blamed(content', fails', list'[i].rule, list'[i].key, qs[i])
                      /\ list'[i].path = Without(qs[i], Depths(Owed(A), i))
                      /\ \A s \in Owed(A) : s.task.recorded < i => Subscripted(qs[i], s)
    BY DEF Accounted
  <2>1. CASE i <= n
    <3>1. i \in DOMAIN list /\ list'[i] = list[i] /\ qs[i] = ps[i]  BY <1>5, <1>8, <1>9, <2>1
    <3> QED  BY <3>1 DEF Explained, Accounted
  <2>2. CASE ~(i <= n)
    <3>1. i = n + 1  BY <1>5, <1>8, <2>2
    <3>2. qs[i] = q  BY <1>5, <1>9, <3>1
    <3>3. list'[i].path = where /\ list'[i].rule = rule /\ list'[i].key = forKey  BY <1>8, <3>1
    <3> QED  BY <1>5, <3>1, <3>2, <3>3
  <2> QED  BY <2>1, <2>2
<1>11. Placed(content', Tail(A))  BY <1>1
<1>12. Tail(A) # <<>> =>
        /\ Tail(A)[1].key = forKey'
        /\ path' = Without(Tail(A)[1].path, Depths(Owed(A), Len(list') + 1))
  <2>1. Len(list') + 1 = n + 2  BY <1>5, <1>8
  <2>2. path' = Without(A[1].path, Depths(Owed(A), n + 1))  BY <1>1, <1>5
  <2> QED  BY <1>1, <1>4, <1>7, <2>1, <2>2
<1>13. \A s \in Owed(A) : s.task.recorded \in 0 .. Len(list')  BY <1>5, <1>6, <1>8
<1>14. Explained(Tail(A), qs)'
  BY <1>2, <1>3, <1>10, <1>11, <1>12, <1>13 DEF Explained
<1> QED  BY <1>14

\* A step that ends its task and finds nothing, and one that raises.
LEMMA DroppedExplained ==
  ASSUME TypeOK, Explains,
         FieldBroken \/ FieldSkipped \/ ContainerEnd \/ PartSkipped \/ Unwind \/ Raise
  PROVE  Explains'
<1>1. PICK A, ps : Explained(A, ps)  BY DEF Explains
<1>2. /\ todo # <<>> /\ task.op \notin {"leave", "subscript", "keyDone"} /\ Then(<<>>)
      /\ UNCHANGED <<content, fails, list, path, forKey>>
  <2>1. CASE FieldBroken \/ FieldSkipped
    BY <2>1 DEF FieldBroken, FieldSkipped, DoingField, Doing, task, input
  <2>2. CASE ContainerEnd \/ PartSkipped
    BY <2>2 DEF ContainerEnd, PartSkipped, Doing, task, input
  <2>3. CASE Unwind
    BY <2>3 DEF Unwind, Cleanup, task, input
  <2>4. CASE Raise
    BY <2>4 DEF Raise, Doing, Reading, task, input
  <2> QED  BY <2>1, <2>2, <2>3, <2>4
<1>3. Explained(Tail(A), ps)'  BY <1>1, <1>2, TaskEnds
<1> QED  BY <1>3 DEF Explains

\* A rule on a value is recorded where the value is.
LEMMA CheckExplained == ASSUME TypeOK, Explains, Check PROVE Explains'
<1>1. PICK A, ps : Explained(A, ps)  BY DEF Explains
<1>2. /\ todo # <<>> /\ task.op = "check" /\ Then(<<>>)
      /\ UNCHANGED <<content, fails, path, forKey>>
  BY DEF Check, Doing, task, input
<1>3. CASE <<task.rule, task.value>> \in fails
  <2>1. Record(task.rule, path)  BY <1>3 DEF Check
  <2>2. /\ A[1].task = task /\ A[1].key = forKey /\ Claim(content, A[1]) /\ IsPath(A[1].path)
        /\ path = Without(A[1].path, Depths(Owed(A), Len(list) + 1))
        /\ \A s \in Owed(A) : Subscripted(A[1].path, s)
    BY <1>1, <1>2, AtHand
  <2>3. /\ At(content, A[1].path, task.value, forKey) /\ RuleAt(content, A[1].path, task.rule)
        /\ forKey \in BOOLEAN
    BY <1>2, <2>2 DEF Claim
  <2>4. Blamed(content, fails, task.rule, forKey, A[1].path)
    BY <1>3, <2>2, <2>3 DEF Blamed
  <2>5. PICK q : q = A[1].path  OBVIOUS
  <2>6. PICK rule, where : rule = task.rule /\ where = path  OBVIOUS
  <2>7. \E qs : Explained(Tail(A), qs)'
    BY <1>1, <1>2, <2>1, <2>2, <2>4, Records
  <2> QED  BY <2>7 DEF Explains
<1>4. CASE <<task.rule, task.value>> \notin fails
  <2>1. UNCHANGED <<content, fails, list, path, forKey>>  BY <1>2, <1>4 DEF Check
  <2>2. Explained(Tail(A), ps)'  BY <1>1, <1>2, <2>1, TaskEnds
  <2> QED  BY <2>2 DEF Explains
<1> QED  BY <1>3, <1>4

\* A (message).oneof rule is recorded at the message.
LEMMA OneofExplained == ASSUME TypeOK, Explains, Oneof PROVE Explains'
<1>1. PICK A, ps : Explained(A, ps)  BY DEF Explains
<1>2. /\ todo # <<>> /\ task.op = "oneof" /\ Then(<<>>)
      /\ UNCHANGED <<content, fails, path, forKey>>
      /\ Record("message.oneof", path) \/ UNCHANGED list
  BY DEF Oneof, Doing, task, input
<1>3. CASE Record("message.oneof", path)
  <2>1. /\ A[1].task = task /\ A[1].key = forKey /\ Claim(content, A[1]) /\ IsPath(A[1].path)
        /\ path = Without(A[1].path, Depths(Owed(A), Len(list) + 1))
        /\ \A s \in Owed(A) : Subscripted(A[1].path, s)
    BY <1>1, <1>2, AtHand
  <2>2. RulePath["message.oneof"] = NoSub /\ forKey \in BOOLEAN
    BY <1>2, <2>1 DEF Claim
  <2>3. Blamed(content, fails, "message.oneof", forKey, A[1].path)
    BY <2>1, <2>2 DEF Blamed, RuleAt
  <2>4. \E qs : Explained(Tail(A), qs)'
    BY <1>1, <1>2, <1>3, <2>1, <2>3, Records
  <2> QED  BY <2>4 DEF Explains
<1>4. CASE UNCHANGED list
  <2>1. Explained(Tail(A), ps)'  BY <1>1, <1>2, <1>4, TaskEnds
  <2> QED  BY <2>1 DEF Explains
<1> QED  BY <1>2, <1>3, <1>4

\* A violation one element below the path of the task at hand.
LEMMA RecordsBelow ==
  ASSUME TypeOK, todo # <<>>, NEW A, NEW ps, Explained(A, ps),
         task.op \notin {"leave", "subscript", "keyDone"}, Then(<<>>),
         UNCHANGED <<content, fails, path, forKey>>,
         NEW f \in STRING, Record("required", Append(path, Element(f, NoSub))),
         \/ RuleAt(content, Append(A[1].path, Element(f, NoSub)), "required")
         \/ OneofAt(content, Append(A[1].path, Element(f, NoSub)))
  PROVE  Explains'
<1>1. /\ A[1].key = forKey /\ IsPath(A[1].path)
      /\ path = Without(A[1].path, Depths(Owed(A), Len(list) + 1))
      /\ \A s \in Owed(A) : Subscripted(A[1].path, s)
      /\ Claim(content, A[1])
  BY AtHand
<1>2. PICK p : p = A[1].path  OBVIOUS
<1>3. PICK D : D = Depths(Owed(A), Len(list) + 1)  OBVIOUS
<1>4. \A d \in D : d \in 1 .. Len(p)  BY <1>1, <1>2, <1>3, DepthsAre
<1>5. PICK e : e = Element(f, NoSub)  OBVIOUS
<1>6. PICK q : q = Append(p, e)  OBVIOUS
<1>7. Append(path, e) = Without(q, D)
  BY <1>1, <1>2, <1>3, <1>4, <1>5, <1>6, WithoutLonger
<1>8. e \in Elements  BY <1>5 DEF Element, Elements
<1>9. /\ IsPath(q) /\ Len(q) = Len(p) + 1 /\ Len(p) \in Nat
      /\ \A i \in 1 .. Len(p) : q[i] = p[i]
  BY <1>1, <1>2, <1>6, <1>8, AppendIs, ParentIs
<1>10. ASSUME NEW s \in Owed(A) PROVE Subscripted(q, s)
  <2>1. Subscripted(p, s)  BY <1>1, <1>2
  <2> QED  BY <1>9, <2>1 DEF Subscripted
<1>11. Blamed(content, fails, "required", forKey, q)
  <2>1. forKey \in BOOLEAN  BY DEF TypeOK
  <2>2. RuleAt(content, q, "required") \/ OneofAt(content, q)  BY <1>2, <1>5, <1>6
  <2> QED  BY <1>9, <2>1, <2>2 DEF Blamed
<1>12. \E qs : Explained(Tail(A), qs)'
  <2>1. Record("required", Append(path, e))  BY <1>5
  <2> QED  BY <1>3, <1>7, <1>10, <1>11, <2>1, Records
<1> QED  BY <1>12 DEF Explains

\* A required oneof that is not set is recorded by its name, which is no field.
LEMMA RequiredExplained == ASSUME TypeOK, Explains, OneofRequired PROVE Explains'
<1>1. PICK A, ps : Explained(A, ps)  BY DEF Explains
<1>2. /\ todo # <<>> /\ task.op = "required" /\ Then(<<>>)
      /\ UNCHANGED <<content, fails, path, forKey>>
      /\ Record("required", Append(path, Element(task.oneof.name, NoSub))) \/ UNCHANGED list
  BY DEF OneofRequired, Doing, task, input
<1>3. CASE Record("required", Append(path, Element(task.oneof.name, NoSub)))
  <2>1. A[1].task = task /\ Claim(content, A[1]) /\ IsPath(A[1].path) /\ IsTask(task)
    BY <1>1, <1>2, AtHand
  <2>2. PICK f : f = task.oneof.name  OBVIOUS
  <2>3. f \in STRING  BY <1>2, <2>1, <2>2 DEF IsTask
  <2>4. PICK n \in Nodes : n = task.node /\ Leads(content, A[1].path, n)
    BY <1>2, <2>1 DEF Claim
  <2>5. \E i \in DOMAIN Compiled[TypeOf[n]].required :
          task.oneof = Compiled[TypeOf[n]].required[i]
    BY <1>2, <2>1, <2>4 DEF Claim
  <2>6. Element(f, NoSub) \in Elements  BY <2>3 DEF Element, Elements
  <2>7. /\ Append(A[1].path, Element(f, NoSub)) # <<>>
        /\ Parent(Append(A[1].path, Element(f, NoSub))) = A[1].path
        /\ LastOf(Append(A[1].path, Element(f, NoSub))).field = f
    <3>1. Element(f, NoSub).field = f  BY DEF Element
    <3> QED  BY <2>1, <2>6, <3>1, AppendIs
  <2>8. OneofAt(content, Append(A[1].path, Element(f, NoSub)))
    BY <2>2, <2>4, <2>5, <2>7 DEF OneofAt
  <2>9. Record("required", Append(path, Element(f, NoSub)))  BY <1>3, <2>2
  <2> QED  BY <1>1, <1>2, <2>3, <2>8, <2>9, RecordsBelow
<1>4. CASE UNCHANGED list
  <2>1. Explained(Tail(A), ps)'  BY <1>1, <1>2, <1>4, TaskEnds
  <2> QED  BY <2>1 DEF Explains
<1> QED  BY <1>2, <1>3, <1>4

\* A required field that is not set is recorded as itself.
LEMMA MissingExplained == ASSUME TypeOK, Explains, FieldMissing PROVE Explains'
<1>1. PICK A, ps : Explained(A, ps)  BY DEF Explains
<1>2. /\ todo # <<>> /\ task.op = "field" /\ Then(<<>>)
      /\ UNCHANGED <<content, fails, path, forKey>>
      /\ Record("required", Append(path, Element(task.rules.field, NoSub)))
      /\ ~task.rules.broken /\ task.rules.required
  BY DEF FieldMissing, DoingField, Doing, task, input
<1>3. A[1].task = task /\ Claim(content, A[1]) /\ IsPath(A[1].path) /\ IsTask(task)
  BY <1>1, <1>2, AtHand
<1>4. PICK v : v = task.rules  OBVIOUS
<1>5. PICK n \in Nodes : n = task.node /\ Leads(content, A[1].path, n)
  BY <1>2, <1>3 DEF Claim
<1>6. v \in FieldsOf(n)  BY <1>2, <1>3, <1>4, <1>5 DEF IsTask, FieldsOf
<1>7. v.field \in STRING  BY <1>6, FieldIs
<1>8. Element(v.field, NoSub) \in Elements  BY <1>7 DEF Element, Elements
<1>9. /\ Append(A[1].path, Element(v.field, NoSub)) # <<>>
      /\ Parent(Append(A[1].path, Element(v.field, NoSub))) = A[1].path
      /\ LastOf(Append(A[1].path, Element(v.field, NoSub))).field = v.field
  <2>1. Element(v.field, NoSub).field = v.field  BY DEF Element
  <2> QED  BY <1>3, <1>8, <2>1, AppendIs
<1>10. ~v.broken /\ v.required  BY <1>2, <1>4
<1>11. PICK c : c = content  OBVIOUS
<1>12. PICK q : q = Append(A[1].path, Element(v.field, NoSub))  OBVIOUS
<1>13. \A r \in FieldRulesOf(v) : RuleAt(c, q, r)
  <2>1. q # <<>> /\ Leads(c, Parent(q), n) /\ LastOf(q).field = v.field
    BY <1>5, <1>9, <1>11, <1>12
  <2> QED  BY <1>6, <1>10, <2>1, RuleIsAt
<1>14. "required" \in FieldRulesOf(v)  BY <1>10, RulesAre
<1>15. RuleAt(content, Append(A[1].path, Element(v.field, NoSub)), "required")
  BY <1>11, <1>12, <1>13, <1>14
<1>16. Record("required", Append(path, Element(v.field, NoSub)))  BY <1>2, <1>4
<1> QED  BY <1>1, <1>2, <1>7, <1>15, <1>16, RecordsBelow

\* A task at its path.
Place(s, p, k) == [task |-> s, path |-> p, key |-> k]

\* Tasks at one path that leave it as it is.
AreSteady(c, t, q, k) ==
  IsSeq(t) /\ \A i \in DOMAIN t :
    Claim(c, Place(t[i], q, k)) /\ Steady(Place(t[i], q, k))

\* Such tasks after such tasks.
LEMMA SteadyConcat ==
  ASSUME NEW c, NEW q, NEW k, NEW t, NEW u, AreSteady(c, t, q, k), AreSteady(c, u, q, k)
  PROVE  AreSteady(c, t \o u, q, k)
<1>1. IsSeq(t) /\ IsSeq(u)  BY DEF AreSteady
<1>2. PICK w : w = t \o u  OBVIOUS
<1>3. IsSeq(w) /\ \A i \in DOMAIN w :
        (\E j \in DOMAIN t : w[i] = t[j]) \/ (\E j \in DOMAIN u : w[i] = u[j])
  BY <1>1, <1>2, ConcatIs
<1>4. AreSteady(c, w, q, k)  BY <1>3 DEF AreSteady
<1> QED  BY <1>2, <1>4

\* No task, and one.
LEMMA SteadyNone == ASSUME NEW c, NEW q, NEW k PROVE AreSteady(c, <<>>, q, k)
BY DEF AreSteady, IsSeq

\* One such task alone.
LEMMA SteadyOne ==
  ASSUME NEW c, NEW q, NEW k, NEW s, Claim(c, Place(s, q, k)), Steady(Place(s, q, k))
  PROVE  AreSteady(c, <<s>>, q, k)
<1> DEFINE t == <<s>>
<1>1. t = [i \in 1 .. 1 |-> t[i]] /\ \A i \in 1 .. 1 : t[i] = s  OBVIOUS
<1>2. IsSeq(t) /\ DOMAIN t = 1 .. 1  BY <1>1, IndexedIs
<1> HIDE DEF t
<1>3. AreSteady(c, t, q, k)  BY <1>1, <1>2 DEF AreSteady
<1> QED  BY <1>3 DEF t

\* One task for each element of a sequence.
LEMMA MappedIs ==
  ASSUME NEW S, NEW s \in Seq(S), NEW t, t = [i \in DOMAIN s |-> t[i]]
  PROVE  IsSeq(t) /\ DOMAIN t = DOMAIN s
<1>1. Len(s) \in Nat /\ DOMAIN s = 1 .. Len(s)  OBVIOUS
<1> QED  BY <1>1, IndexedIs

\* A step that replaces its task by such tasks.
LEMMA BlockMoves ==
  ASSUME TypeOK, todo # <<>>, NEW A, NEW ps, Explained(A, ps), Steady(A[1]),
         NEW c, c = content, NEW q, q = A[1].path, NEW k, k = A[1].key,
         NEW t, AreSteady(c, t, q, k), Then(t),
         UNCHANGED <<content, fails, list, path, forKey>>
  PROVE  Explains'
<1>1. /\ A[1].task = task /\ Tail(todo) = TasksOf(Tail(A))
      /\ A[1].key = forKey /\ Placed(content, Tail(A)) /\ Claim(content, A[1])
      /\ path = Without(A[1].path, Depths(Owed(A), Len(list) + 1))
      /\ Tail(A) # <<>> => Link(A[1], Tail(A)[1])
      /\ Owed(A) = Owed(Tail(A)) \cup (IF A[1].task.op = "subscript" THEN {A[1]} ELSE {})
      /\ \A s \in Owed(A) : Subscripted(A[1].path, s)
  BY AtHand
<1>2. k \in BOOLEAN  BY <1>1 DEF Claim
<1>3. Owed(Tail(A)) = Owed(A)  BY <1>1 DEF Steady
<1>4. Tail(A) # <<>> => Tail(A)[1].path = q /\ Tail(A)[1].key = k
  BY <1>1, <1>2 DEF Link, Steady
<1> DEFINE B == [i \in DOMAIN t |-> Place(t[i], q, k)]
<1>5. IsSeq(t) /\ \A i \in DOMAIN t : Claim(c, Place(t[i], q, k)) /\ Steady(Place(t[i], q, k))
  BY DEF AreSteady
<1>6. IsSeq(B) /\ DOMAIN B = DOMAIN t
  <2>1. B = [i \in DOMAIN t |-> B[i]]  OBVIOUS
  <2> HIDE DEF B
  <2> QED  BY <1>5, <2>1, MappedIs DEF IsSeq
<1>7. TasksOf(B) = t
  <2>1. \A i \in DOMAIN t : B[i].task = t[i]  BY DEF Place
  <2>2. TasksOf(B) = [i \in DOMAIN t |-> B[i].task]  BY DEF TasksOf
  <2>3. t = [i \in DOMAIN t |-> t[i]]  BY <1>5 DEF IsSeq
  <2> HIDE DEF B
  <2> QED  BY <2>1, <2>2, <2>3
<1>8. Block(c, B, q, k)
  <2> SUFFICES ASSUME NEW i \in DOMAIN B
               PROVE  Claim(c, B[i]) /\ Steady(B[i]) /\ B[i].path = q /\ B[i].key = k
    BY <1>6 DEF Block
  <2>1. B[i] = Place(t[i], q, k)  BY <1>6
  <2> HIDE DEF B
  <2>2. B[i].path = q /\ B[i].key = k  BY <2>1 DEF Place
  <2> QED  BY <1>5, <1>6, <2>1, <2>2
<1> HIDE DEF B
<1>9. Placed(c, Tail(A)) /\ Owes(Tail(A), q)  BY <1>1, <1>3 DEF Owes
<1>10. PICK C : C = Joined(B, Tail(A))  OBVIOUS
<1>11. PICK T : T = Tail(A)  OBVIOUS
<1>12. Placed(c, C) /\ Owed(C) = Owed(T) /\ Begins(C, q, k)
  <2>1. Placed(c, T) /\ Owes(T, q) /\ C = Joined(B, T) /\ Begins(T, q, k)
    BY <1>4, <1>9, <1>10, <1>11 DEF Begins
  <2> QED  BY <1>8, <2>1, PlacedBlock
<1>13. todo' = TasksOf(C)
  <2>1. IsSeq(Tail(A))  BY <1>1 DEF Placed
  <2>2. TasksOf(C) = TasksOf(B) \o TasksOf(Tail(A))  BY <1>6, <1>10, <2>1, JoinedIs
  <2> QED  BY <1>1, <1>7, <2>2 DEF Then
<1>14. C # <<>> => /\ C[1].key = forKey'
                   /\ path' = Without(C[1].path, Depths(Owed(A), Len(list) + 1))
  BY <1>1, <1>12 DEF Begins
<1>15. Explained(C, ps)'
  <2>1. Placed(content, C) /\ Owed(C) = Owed(A)  BY <1>3, <1>11, <1>12
  <2> QED  BY <1>13, <1>14, <2>1, Moves
<1> QED  BY <1>15 DEF Explains

\* A message: its own rules are about it, its fields are its fields.
LEMMA MessageExplained == ASSUME TypeOK, Explains, Message PROVE Explains'
<1>1. PICK A, ps : Explained(A, ps)  BY DEF Explains
<1>2. todo # <<>> /\ task.op = "message" /\ UNCHANGED <<content, fails, list, path, forKey>>
  BY DEF Message, Doing, task, input
<1>3. A[1].task = task /\ Claim(content, A[1])  BY <1>1, <1>2, AtHand
<1>4. PICK c, q, k : c = content /\ q = A[1].path /\ k = A[1].key  OBVIOUS
<1>5. PICK n \in Nodes : n = task.node  BY <1>2, <1>3 DEF Claim
<1>6. Leads(c, q, n) /\ k = FALSE /\ IsPath(q)
  BY <1>2, <1>3, <1>4, <1>5 DEF Claim
<1>7. PICK r : r = Compiled[TypeOf[n]]  OBVIOUS
<1>8. /\ r.cel \in Seq(STRING) /\ r.fields \in Seq(FieldValidator)
      /\ r.oneofs \in Seq([fields : Seq(STRING), required : BOOLEAN])
      /\ r.required \in Seq([name : STRING, members : SUBSET STRING])
  BY <1>7, RulesOf DEF MessageValidator
<1>9. TypeOf[n] \in Types  BY CompiledAssumption
<1> DEFINE cel == [i \in DOMAIN r.cel |-> CheckOf(r.cel[i], n, n)]
           oneofs == [i \in DOMAIN r.oneofs |->
                        [op |-> "oneof", node |-> n, oneof |-> r.oneofs[i]]]
           required == [i \in DOMAIN r.required |->
                          [op |-> "required", node |-> n, oneof |-> r.required[i]]]
           fields == [i \in DOMAIN r.fields |->
                        [op |-> "field", node |-> n, rules |-> r.fields[i]]]
<1>10. \A s : /\ Place(s, q, k).task = s /\ Place(s, q, k).path = q
              /\ Place(s, q, k).key = FALSE
  BY <1>6 DEF Place
<1>11. AreSteady(c, cel, q, k)
  <2>1. IsSeq(cel) /\ DOMAIN cel = DOMAIN r.cel
    <3>1. cel = [i \in DOMAIN r.cel |-> cel[i]]  OBVIOUS
    <3> HIDE DEF cel
    <3> QED  BY <1>8, <3>1, MappedIs
  <2>2. ASSUME NEW i \in DOMAIN cel
        PROVE  Claim(c, Place(cel[i], q, k)) /\ Steady(Place(cel[i], q, k))
    <3>1. PICK s : s = cel[i]  OBVIOUS
    <3>2. s.op = "check" /\ s.rule = r.cel[i] /\ s.value = n  BY <2>1, <3>1 DEF CheckOf
    <3>3. RulePath[s.rule] = NoSub
      <4>1. i \in DOMAIN r.cel  BY <2>1
      <4> QED  BY <1>7, <1>9, <3>2, <4>1, RulesAssumption
    <3>4. At(c, q, s.value, FALSE) /\ RuleAt(c, q, s.rule)  BY <1>6, <3>2, <3>3 DEF At, RuleAt
    <3>5. Claim(c, Place(s, q, k)) /\ Steady(Place(s, q, k))
      BY <1>6, <1>10, <3>2, <3>4 DEF Claim, Steady
    <3> QED  BY <3>1, <3>5
  <2> HIDE DEF cel
  <2> QED  BY <2>1, <2>2 DEF AreSteady
<1>12. AreSteady(c, oneofs, q, k)
  <2>1. IsSeq(oneofs) /\ DOMAIN oneofs = DOMAIN r.oneofs
    <3>1. oneofs = [i \in DOMAIN r.oneofs |-> oneofs[i]]  OBVIOUS
    <3> HIDE DEF oneofs
    <3> QED  BY <1>8, <3>1, MappedIs
  <2>2. ASSUME NEW i \in DOMAIN oneofs
        PROVE  Claim(c, Place(oneofs[i], q, k)) /\ Steady(Place(oneofs[i], q, k))
    <3>1. PICK s : s = oneofs[i]  OBVIOUS
    <3>2. s.op = "oneof" /\ s.node = n  BY <2>1, <3>1
    <3>3. RulePath["message.oneof"] = NoSub
      <4>1. i \in DOMAIN r.oneofs  BY <2>1
      <4>2. r.oneofs # <<>>  BY <4>1
      <4> QED  BY <1>7, <1>9, <4>2, RulesAssumption
    <3>4. Claim(c, Place(s, q, k)) /\ Steady(Place(s, q, k))
      BY <1>6, <1>10, <3>2, <3>3 DEF Claim, Steady
    <3> QED  BY <3>1, <3>4
  <2> HIDE DEF oneofs
  <2> QED  BY <2>1, <2>2 DEF AreSteady
<1>13. AreSteady(c, required, q, k)
  <2>1. IsSeq(required) /\ DOMAIN required = DOMAIN r.required
    <3>1. required = [i \in DOMAIN r.required |-> required[i]]  OBVIOUS
    <3> HIDE DEF required
    <3> QED  BY <1>8, <3>1, MappedIs
  <2>2. ASSUME NEW i \in DOMAIN required
        PROVE  Claim(c, Place(required[i], q, k)) /\ Steady(Place(required[i], q, k))
    <3>1. PICK s : s = required[i]  OBVIOUS
    <3>2. s.op = "required" /\ s.node = n /\ s.oneof = r.required[i]  BY <2>1, <3>1
    <3>3. \E j \in DOMAIN Compiled[TypeOf[n]].required :
            s.oneof = Compiled[TypeOf[n]].required[j]
      BY <1>7, <2>1, <3>2
    <3>4. Claim(c, Place(s, q, k)) /\ Steady(Place(s, q, k))
      BY <1>6, <1>10, <3>2, <3>3 DEF Claim, Steady
    <3> QED  BY <3>1, <3>4
  <2> HIDE DEF required
  <2> QED  BY <2>1, <2>2 DEF AreSteady
<1>14. AreSteady(c, fields, q, k)
  <2>1. IsSeq(fields) /\ DOMAIN fields = DOMAIN r.fields
    <3>1. fields = [i \in DOMAIN r.fields |-> fields[i]]  OBVIOUS
    <3> HIDE DEF fields
    <3> QED  BY <1>8, <3>1, MappedIs
  <2>2. ASSUME NEW i \in DOMAIN fields
        PROVE  Claim(c, Place(fields[i], q, k)) /\ Steady(Place(fields[i], q, k))
    <3>1. PICK s : s = fields[i]  OBVIOUS
    <3>2. s.op = "field" /\ s.node = n  BY <2>1, <3>1
    <3>3. Claim(c, Place(s, q, k)) /\ Steady(Place(s, q, k))
      BY <1>6, <1>10, <3>2 DEF Claim, Steady
    <3> QED  BY <3>1, <3>3
  <2> HIDE DEF fields
  <2> QED  BY <2>1, <2>2 DEF AreSteady
<1>15. Then(cel \o oneofs \o required \o fields)
  BY <1>5, <1>7 DEF Message
<1> HIDE DEF cel, oneofs, required, fields
<1>16. PICK t : t = cel \o oneofs \o required \o fields  OBVIOUS
<1>17. AreSteady(c, t, q, k)
  <2>1. AreSteady(c, cel \o oneofs, q, k)  BY <1>11, <1>12, SteadyConcat
  <2>2. AreSteady(c, cel \o oneofs \o required, q, k)  BY <1>13, <2>1, SteadyConcat
  <2>3. AreSteady(c, cel \o oneofs \o required \o fields, q, k)  BY <1>14, <2>2, SteadyConcat
  <2> QED  BY <1>16, <2>3
<1>18. Then(t)  BY <1>15, <1>16
<1>19. Steady(A[1])  BY <1>2, <1>3 DEF Steady
<1> QED  BY <1>1, <1>2, <1>4, <1>17, <1>18, <1>19, BlockMoves

\* A value: its rules are about it, and so is the walk of the message it is.
LEMMA ValueExplained == ASSUME TypeOK, Explains, Value PROVE Explains'
<1>1. PICK A, ps : Explained(A, ps)  BY DEF Explains
<1>2. todo # <<>> /\ task.op = "value" /\ UNCHANGED <<content, fails, list, path, forKey>>
  BY DEF Value, Doing, task, input
<1>3. A[1].task = task /\ Claim(content, A[1]) /\ IsTask(task) /\ content \in Messages
  BY <1>1, <1>2, AtHand
<1>4. PICK c, q, k : c = content /\ q = A[1].path /\ k = A[1].key  OBVIOUS
<1>5. PICK s : s = task  OBVIOUS
<1>6. /\ At(c, q, s.value, k) /\ k \in BOOLEAN /\ IsPath(q)
      /\ \A r \in RulesIn(s.rules) : RuleAt(c, q, r)
  BY <1>2, <1>3, <1>4, <1>5 DEF Claim
<1>7. s.rules \in ValueValidator  BY <1>2, <1>3, <1>5 DEF IsTask
<1> DEFINE rules == s.rules.custom \o s.rules.checks \o s.rules.predefined
           checks == [i \in DOMAIN rules |-> CheckOf(rules[i], s.value, s.frame)]
           below == IF s.value \in Nodes
                      THEN <<[op |-> "message", node |-> s.value]>> ELSE <<>>
<1>8. rules \in Seq(STRING)
  <2>1. s.rules.custom \in Seq(STRING) /\ s.rules.checks \in Seq(STRING)
        /\ s.rules.predefined \in Seq(STRING)
    BY <1>7 DEF ValueValidator
  <2>2. s.rules.custom \o s.rules.checks \in Seq(STRING)  BY <2>1, ConcatProperties
  <2> QED  BY <2>1, <2>2, ConcatProperties
<1>9. \A i \in DOMAIN rules : rules[i] \in RulesIn(s.rules)  BY DEF RulesIn
<1>10. Then(checks \o below)  BY <1>5 DEF Value
<1>11. \A t : /\ Place(t, q, k).task = t /\ Place(t, q, k).path = q
              /\ Place(t, q, k).key = k
  BY DEF Place
<1> HIDE DEF rules
<1>12. AreSteady(c, checks, q, k)
  <2>1. IsSeq(checks) /\ DOMAIN checks = DOMAIN rules
    <3>1. checks = [i \in DOMAIN rules |-> checks[i]]  OBVIOUS
    <3> HIDE DEF checks
    <3> QED  BY <1>8, <3>1, MappedIs
  <2>2. ASSUME NEW i \in DOMAIN checks
        PROVE  Claim(c, Place(checks[i], q, k)) /\ Steady(Place(checks[i], q, k))
    <3>1. PICK t : t = checks[i]  OBVIOUS
    <3>2. t.op = "check" /\ t.rule = rules[i] /\ t.value = s.value  BY <2>1, <3>1 DEF CheckOf
    <3>3. At(c, q, t.value, k) /\ RuleAt(c, q, t.rule)
      <4>1. t.rule \in RulesIn(s.rules)  BY <1>9, <2>1, <3>2
      <4> QED  BY <1>6, <3>2, <4>1
    <3>4. Claim(c, Place(t, q, k)) /\ Steady(Place(t, q, k))
      BY <1>6, <1>11, <3>2, <3>3 DEF Claim, Steady
    <3> QED  BY <3>1, <3>4
  <2> HIDE DEF checks
  <2> QED  BY <2>1, <2>2 DEF AreSteady
<1>13. AreSteady(c, below, q, k)
  <2>1. CASE s.value \in Nodes
    <3>1. k = FALSE
      <4>1. SUFFICES ASSUME k = TRUE PROVE FALSE  BY <1>6
      <4>2. PICK n \in Nodes : GivesKey(c, n, LastOf(q), s.value)
        BY <1>6, <4>1 DEF At, LeadsToKey
      <4> QED  BY <1>3, <1>4, <2>1, <4>2, KeyIs
    <3>2. PICK t : t = [op |-> "message", node |-> s.value]  OBVIOUS
    <3>3. t.op = "message" /\ t.node = s.value  BY <3>2
    <3>4. Leads(c, q, s.value)  BY <1>6, <3>1 DEF At
    <3>5. Claim(c, Place(t, q, k)) /\ Steady(Place(t, q, k))
      BY <1>6, <1>11, <2>1, <3>1, <3>3, <3>4 DEF Claim, Steady
    <3>6. below = <<t>>  BY <2>1, <3>2
    <3>7. AreSteady(c, <<t>>, q, k)  BY <3>5, SteadyOne
    <3> QED  BY <3>6, <3>7
  <2>2. CASE s.value \notin Nodes
    <3>1. AreSteady(c, <<>>, q, k)  BY SteadyNone
    <3> QED  BY <2>2, <3>1
  <2> QED  BY <2>1, <2>2
<1> HIDE DEF checks, below
<1>14. PICK t : t = checks \o below  OBVIOUS
<1>15. AreSteady(c, t, q, k)
  <2>1. AreSteady(c, checks \o below, q, k)  BY <1>12, <1>13, SteadyConcat
  <2> QED  BY <1>14, <2>1
<1>16. Then(t)  BY <1>10, <1>14
<1>17. Steady(A[1])  BY <1>2, <1>3 DEF Steady
<1> QED  BY <1>1, <1>2, <1>4, <1>15, <1>16, <1>17, BlockMoves

\* An entry's value is where its key leads.
LEMMA EntryValueExplained == ASSUME TypeOK, Explains, EntryValue PROVE Explains'
<1>1. PICK A, ps : Explained(A, ps)  BY DEF Explains
<1>2. /\ todo # <<>> /\ task.op = "entryValue" /\ task.item # NoItem
      /\ Then(<<ItemTask(task.item, task.value)>>)
      /\ UNCHANGED <<content, fails, list, path, forKey>>
  BY DEF EntryValue, EntrySkipped, Doing, task, input
<1>3. A[1].task = task /\ Claim(content, A[1])  BY <1>1, <1>2, AtHand
<1>4. PICK c, q, k : c = content /\ q = A[1].path /\ k = A[1].key  OBVIOUS
<1>5. PICK s : s = task  OBVIOUS
<1>6. /\ Leads(c, q, s.value) /\ k = FALSE /\ IsPath(q)
      /\ \A r \in RulesIn(s.item.value) : RuleAt(c, q, r)
  BY <1>2, <1>3, <1>4, <1>5 DEF Claim
<1>7. PICK t : t = ItemTask(s.item, s.value)  OBVIOUS
<1>8. t.op = "value" /\ t.rules = s.item.value /\ t.value = s.value  BY <1>7 DEF ItemTask
<1>9. Place(t, q, k).task = t /\ Place(t, q, k).path = q /\ Place(t, q, k).key = FALSE
  BY <1>6 DEF Place
<1>10. Claim(c, Place(t, q, k)) /\ Steady(Place(t, q, k))
  BY <1>6, <1>8, <1>9 DEF Claim, Steady, At
<1>11. AreSteady(c, <<t>>, q, k)  BY <1>10, SteadyOne
<1>12. PICK u : u = <<t>>  OBVIOUS
<1>13. AreSteady(c, u, q, k) /\ Then(u)  BY <1>2, <1>5, <1>7, <1>11, <1>12
<1>14. Steady(A[1])  BY <1>2, <1>3 DEF Steady
<1> QED  BY <1>1, <1>2, <1>4, <1>13, <1>14, BlockMoves

-----------------------------------------------------------------------------
(* An agenda, task by task.                                                *)

\* The tasks t can be placed, the first at path q, with the subscripts W still
\* to be set.
Ready(c, t, q, k, W) ==
  \E A : /\ Placed(c, A) /\ TasksOf(A) = t /\ Owed(A) = W
         /\ Begins(A, q, k) /\ Owes(A, q)

\* A task before others.
Before(s, t) == <<s>> \o t

\* A sequence of two.
LEMMA PairIs ==
  ASSUME NEW a, NEW b
  PROVE  <<a, b>> = <<a>> \o <<b>>
<1> DEFINE S == {a, b}
<1>1. <<a>> \in Seq(S) /\ <<b>> \in Seq(S) /\ <<a, b>> \in Seq(S)  OBVIOUS
<1> HIDE DEF S
<1>2. PICK r, s, t : r = <<a>> /\ s = <<b>> /\ t = <<a, b>>  OBVIOUS
<1>3. Len(r) = 1 /\ Len(s) = 1 /\ r[1] = a /\ s[1] = b /\ Len(t) = 2 /\ t[1] = a /\ t[2] = b
  BY <1>2
<1>4. r \in Seq(S) /\ s \in Seq(S) /\ t \in Seq(S)  BY <1>1, <1>2
<1>5. PICK u : u = r \o s  OBVIOUS
<1>6. /\ u \in Seq(S) /\ Len(u) = Len(r) + Len(s)
      /\ \A i \in 1 .. Len(r) + Len(s) : u[i] = IF i <= Len(r) THEN r[i] ELSE s[i - Len(r)]
  BY <1>4, <1>5, ConcatProperties
<1>7. Len(u) = 2 /\ u[1] = a /\ u[2] = b  BY <1>3, <1>6
<1>8. u = t
  <2>1. \A i \in 1 .. Len(t) : u[i] = t[i]  BY <1>3, <1>7
  <2> QED  BY <1>3, <1>4, <1>6, <1>7, <2>1, SeqEqual
<1> QED  BY <1>2, <1>5, <1>8

\* One task before others.
LEMMA BeforeIs ==
  ASSUME NEW t, IsSeq(t), NEW s
  PROVE  /\ IsSeq(Before(s, t)) /\ Before(s, t) # <<>> /\ Head(Before(s, t)) = s
         /\ <<s>> \o t = Before(s, t)
<1> DEFINE S == {t[i] : i \in DOMAIN t} \cup {s}
<1>1. t \in Seq(S)  BY SeqMonotonic DEF IsSeq
<1>2. s \in S /\ <<s>> \in Seq(S)  OBVIOUS
<1> HIDE DEF S
<1>3. <<s>> \o t \in Seq(S)  BY <1>1, <1>2, ConcatProperties
<1>4. <<s>> \o t # <<>> /\ Head(<<s>> \o t) = s
  <2>1. /\ Len(<<s>> \o t) = Len(<<s>>) + Len(t) /\ Len(t) \in Nat
        /\ \A i \in 1 .. Len(<<s>>) + Len(t) :
             (<<s>> \o t)[i] = IF i <= Len(<<s>>) THEN <<s>>[i] ELSE t[i - Len(<<s>>)]
    BY <1>1, <1>2, ConcatProperties
  <2>2. Len(<<s>>) = 1 /\ <<s>>[1] = s  OBVIOUS
  <2>3. Len(<<s>> \o t) = 1 + Len(t) /\ (<<s>> \o t)[1] = s  BY <2>1, <2>2
  <2> QED  BY <1>1, <1>3, <2>1, <2>3, HeadTailProperties
<1>5. IsSeq(<<s>> \o t)  BY <1>3, SeqIs
<1> QED  BY <1>4, <1>5 DEF Before

\* Two, and four.
LEMMA BeforeTwo ==
  ASSUME NEW t, IsSeq(t), NEW s1, NEW s2
  PROVE  <<s1, s2>> \o t = Before(s1, Before(s2, t))
<1> DEFINE S == {t[i] : i \in DOMAIN t} \cup {s1, s2}
<1>1. t \in Seq(S)  BY SeqMonotonic DEF IsSeq
<1>2. <<s1>> \in Seq(S) /\ <<s2>> \in Seq(S)  OBVIOUS
<1> HIDE DEF S
<1>3. <<s1, s2>> = <<s1>> \o <<s2>>  BY PairIs
<1>4. (<<s1>> \o <<s2>>) \o t = <<s1>> \o (<<s2>> \o t)  BY <1>1, <1>2, ConcatAssociative
<1> QED  BY <1>3, <1>4 DEF Before

\* Four tasks before others.
LEMMA BeforeFour ==
  ASSUME NEW t, IsSeq(t), NEW s1, NEW s2, NEW s3, NEW s4
  PROVE  <<s1, s2, s3, s4>> \o t = Before(s1, Before(s2, Before(s3, Before(s4, t))))
<1> DEFINE S == {t[i] : i \in DOMAIN t} \cup {s1, s2, s3, s4}
<1>1. t \in Seq(S)  BY SeqMonotonic DEF IsSeq
<1>2. <<s1, s2>> \in Seq(S) /\ <<s3, s4>> \in Seq(S)  OBVIOUS
<1>3. <<s1, s2, s3, s4>> = <<s1, s2>> \o <<s3, s4>>  OBVIOUS
<1> HIDE DEF S
<1>4. (<<s1, s2>> \o <<s3, s4>>) \o t = <<s1, s2>> \o (<<s3, s4>> \o t)
  BY <1>1, <1>2, ConcatAssociative
<1>5. <<s3, s4>> \o t = Before(s3, Before(s4, t))  BY BeforeTwo
<1>6. PICK u : u = Before(s3, Before(s4, t))  OBVIOUS
<1>7. IsSeq(u)
  <2>1. IsSeq(Before(s4, t))  BY BeforeIs
  <2> QED  BY <1>6, <2>1, BeforeIs
<1>8. <<s1, s2>> \o u = Before(s1, Before(s2, u))  BY <1>7, BeforeTwo
<1> QED  BY <1>3, <1>4, <1>5, <1>6, <1>8

\* The tasks of an agenda are a sequence.
LEMMA ReadySeq ==
  ASSUME NEW c, NEW t, NEW q, NEW k, NEW W, Ready(c, t, q, k, W)
  PROVE  IsSeq(t)
<1>1. PICK A : Placed(c, A) /\ TasksOf(A) = t  BY DEF Ready
<1>2. IsSeq(A)  BY <1>1 DEF Placed
<1>3. Len(A) \in Nat /\ DOMAIN A = 1 .. Len(A)  BY <1>2 DEF IsSeq
<1>4. t = [i \in DOMAIN A |-> t[i]]  BY <1>1 DEF TasksOf
<1> QED  BY <1>3, <1>4, IndexedIs

\* One more task, where its claim holds and what follows is linked to it.
LEMMA ReadyNext ==
  ASSUME NEW c, NEW t, NEW q, NEW k, NEW W, Ready(c, t, q, k, W),
         NEW s, NEW p, NEW j, Claim(c, Place(s, p, j)),
         s.op \in {"items", "entries", "subscript"} => t # <<>>,
         \A b : b.path = q /\ b.key = k /\ b.task = Head(t) => Link(Place(s, p, j), b),
         \A d \in W : Subscripted(q, d) => Subscripted(p, d),
         s.op = "subscript" => Subscripted(p, Place(s, p, j)),
         NEW V, V = W \cup (IF s.op = "subscript" THEN {Place(s, p, j)} ELSE {})
  PROVE  Ready(c, Before(s, t), p, j, V)
<1>1. PICK A : /\ Placed(c, A) /\ TasksOf(A) = t /\ Owed(A) = W
               /\ Begins(A, q, k) /\ Owes(A, q)
  BY DEF Ready
<1>2. PICK a : a = Place(s, p, j)  OBVIOUS
<1>3. a.task = s /\ a.path = p /\ a.key = j  BY <1>2 DEF Place
<1>4. A # <<>> => Link(a, A[1])
  <2> SUFFICES ASSUME A # <<>> PROVE Link(a, A[1])
    OBVIOUS
  <2>1. A[1].task = Head(t)
    <3>1. IsSeq(A)  BY <1>1 DEF Placed
    <3> QED  BY <1>1, <3>1, TasksOfTail
  <2>2. A[1].path = q /\ A[1].key = k  BY <1>1 DEF Begins
  <2> QED  BY <1>2, <2>1, <2>2
<1>5. Owes(A, a.path)  BY <1>1, <1>3 DEF Owes
<1>6. PICK B : B = Joined(<<a>>, A)  OBVIOUS
<1>7. a.task.op \in {"items", "entries", "subscript"} => A # <<>>
  <2>1. A = <<>> => t = <<>>  BY <1>1 DEF TasksOf
  <2> QED  BY <1>3, <2>1
<1>8. Claim(c, a) /\ (a.task.op = "subscript" => Subscripted(a.path, a))  BY <1>2, <1>3
<1>9. /\ Placed(c, B) /\ B # <<>> /\ B[1] = a
      /\ Owed(B) = Owed(A) \cup (IF a.task.op = "subscript" THEN {a} ELSE {})
      /\ TasksOf(B) = <<a.task>> \o TasksOf(A)
  BY <1>1, <1>4, <1>5, <1>6, <1>7, <1>8, PlacedNext
<1>10. Owed(B) = V  BY <1>1, <1>2, <1>3, <1>9
<1>11. Begins(B, p, j)  BY <1>3, <1>9 DEF Begins
<1>12. Owes(B, p)  BY <1>1, <1>3, <1>5, <1>8, <1>9 DEF Owes
<1>13. TasksOf(B) = Before(s, t)  BY <1>1, <1>3, <1>9 DEF Before
<1> QED  BY <1>9, <1>10, <1>11, <1>12, <1>13 DEF Ready

\* One at the same path.
LEMMA ReadySteady ==
  ASSUME NEW c, NEW t, NEW q, NEW k, NEW W, Ready(c, t, q, k, W),
         NEW s, Claim(c, Place(s, q, k)), Steady(Place(s, q, k))
  PROVE  Ready(c, Before(s, t), q, k, W)
<1>1. PICK a : a = Place(s, q, k)  OBVIOUS
<1>2. a.task = s /\ a.path = q /\ a.key = k  BY <1>1 DEF Place
<1>3. s.op \notin {"leave", "subscript", "items", "entries", "keyDone"}
  BY <1>1, <1>2 DEF Steady
<1>4. k \in BOOLEAN  BY <1>1, <1>2 DEF Claim
<1>5. \A b : b.path = q /\ b.key = k => Link(a, b)
  BY <1>2, <1>3, <1>4 DEF Link
<1>6. \A b : b.path = q /\ b.key = k /\ b.task = Head(t) => Link(Place(s, q, k), b)  BY <1>1, <1>5
<1>7. s.op # "subscript" /\ s.op \notin {"items", "entries"}  BY <1>3
<1>8. \A d \in W : Subscripted(q, d) => Subscripted(q, d)  OBVIOUS
<1>9. W = W \cup (IF s.op = "subscript" THEN {Place(s, q, k)} ELSE {})  BY <1>7
<1> QED  BY <1>6, <1>7, <1>8, <1>9, ReadyNext

\* The end of a field, one element further on the path.
LEMMA ReadyLeave ==
  ASSUME NEW c, NEW q, IsPath(q), q # <<>>, NEW p, p = Parent(q), NEW k, k = FALSE,
         NEW t, NEW W, Ready(c, t, p, k, W), NEW s, s.op = "leave"
  PROVE  Ready(c, Before(s, t), q, k, W)
<1>1. PICK a : a = Place(s, q, k)  OBVIOUS
<1>2. a.task = s /\ a.path = q /\ a.key = FALSE  BY <1>1 DEF Place
<1>3. Claim(c, a)  BY <1>2 DEF Claim
<1>4. \A b : b.path = p /\ b.key = k => Link(a, b)  BY <1>2 DEF Link
<1>5. ASSUME NEW d \in W, Subscripted(p, d) PROVE Subscripted(q, d)
  <2>1. /\ Len(q) \in Nat /\ Len(p) = Len(q) - 1
        /\ \A i \in 1 .. Len(q) - 1 : p[i] = q[i]
    BY ParentIs
  <2>2. PICK m : m = Len(d.path)  OBVIOUS
  <2>3. m \in 1 .. Len(q) - 1 /\ p[m].sub = d.task.key  BY <1>5, <2>1, <2>2 DEF Subscripted
  <2>4. m \in 1 .. Len(q) /\ q[m].sub = d.task.key  BY <2>1, <2>3
  <2> QED  BY <2>2, <2>4 DEF Subscripted
<1>6. Claim(c, Place(s, q, k))
      /\ \A b : b.path = p /\ b.key = k /\ b.task = Head(t) => Link(Place(s, q, k), b)
  BY <1>1, <1>3, <1>4
<1>7. s.op # "subscript" /\ s.op \notin {"items", "entries"}  OBVIOUS
<1>8. W = W \cup (IF s.op = "subscript" THEN {Place(s, q, k)} ELSE {})  BY <1>7
<1> QED  BY <1>5, <1>6, <1>7, <1>8, ReadyNext

\* The end of a key, after which the walk is at an entry.
LEMMA ReadyKeyDone ==
  ASSUME NEW c, NEW q, IsPath(q), NEW k, k = FALSE, NEW j, j = TRUE,
         NEW t, NEW W, Ready(c, t, q, k, W), NEW s, s.op = "keyDone"
  PROVE  Ready(c, Before(s, t), q, j, W)
<1>1. PICK a : a = Place(s, q, j)  OBVIOUS
<1>2. a.task = s /\ a.path = q /\ a.key = TRUE  BY <1>1 DEF Place
<1>3. Claim(c, a)  BY <1>2 DEF Claim
<1>4. \A b : b.path = q /\ b.key = k => Link(a, b)  BY <1>2 DEF Link
<1>5. Claim(c, Place(s, q, j))
      /\ \A b : b.path = q /\ b.key = k /\ b.task = Head(t) => Link(Place(s, q, j), b)
  BY <1>1, <1>3, <1>4
<1>6. s.op # "subscript" /\ s.op \notin {"items", "entries"}  OBVIOUS
<1>7. \A d \in W : Subscripted(q, d) => Subscripted(q, d)  OBVIOUS
<1>8. W = W \cup (IF s.op = "subscript" THEN {Place(s, q, j)} ELSE {})  BY <1>6
<1> QED  BY <1>5, <1>6, <1>7, <1>8, ReadyNext

\* The container at hand.
Container(u) == u.op \in {"items", "entries"}

\* What is inside a field, before the end of the field.
LEMMA ReadyInside ==
  ASSUME NEW c, NEW q, IsPath(q), q # <<>>, NEW p, p = Parent(q), NEW k, k = FALSE,
         NEW t, NEW W, Ready(c, t, p, k, W), NEW s, s.op = "leave",
         NEW u, Container(u), Claim(c, Place(u, q, k))
  PROVE  Ready(c, Before(u, Before(s, t)), q, k, W)
<1>1. Ready(c, Before(s, t), q, k, W)  BY ReadyLeave
<1>2. PICK r : r = Before(s, t)  OBVIOUS
<1>3. r # <<>> /\ Head(r) = s
  <2>1. IsSeq(t)  BY ReadySeq
  <2> QED  BY <1>2, <2>1, BeforeIs
<1>4. PICK a : a = Place(u, q, k)  OBVIOUS
<1>5. a.task = u /\ a.path = q /\ a.key = FALSE  BY <1>4 DEF Place
<1>6. \A b : b.path = q /\ b.key = k /\ b.task = Head(r) => Link(Place(u, q, k), b)
  BY <1>3, <1>4, <1>5 DEF Link, Container
<1>7. u.op # "subscript"  BY DEF Container
<1>8. \A d \in W : Subscripted(q, d) => Subscripted(q, d)  OBVIOUS
<1>9. W = W \cup (IF u.op = "subscript" THEN {Place(u, q, k)} ELSE {})  BY <1>7
<1>10. Ready(c, r, q, k, W)  BY <1>1, <1>2
<1>11. Ready(c, Before(u, r), q, k, W)  BY <1>3, <1>6, <1>7, <1>8, <1>9, <1>10, ReadyNext
<1> QED  BY <1>2, <1>11

\* A subscript to be set on the way out of an entry.
LEMMA ReadySubscript ==
  ASSUME NEW c, NEW q, IsPath(q), q # <<>>, LastOf(q).sub = NoSub, NEW k, k = FALSE,
         NEW t, t # <<>>, Head(t).op = "entries", NEW W, Ready(c, t, q, k, W),
         \A d \in W : Len(d.path) # Len(q),
         NEW s, s.op = "subscript", s.key \in Keys,
         NEW p, p = Setting(q, s.key)
  PROVE  Ready(c, Before(s, t), p, k, W \cup {Place(s, p, k)})
<1>1. PICK a : a = Place(s, p, k)  OBVIOUS
<1>2. a.task = s /\ a.path = p /\ a.key = FALSE  BY <1>1 DEF Place
<1>3. PICK key : key = s.key  OBVIOUS
<1>4. /\ IsPath(p) /\ p # <<>> /\ Len(p) = Len(q) /\ DOMAIN p = DOMAIN q
      /\ \A i \in DOMAIN q : i # Len(q) => p[i] = q[i]
      /\ p[Len(q)] = Element(LastOf(q).field, key)
  <2>1. key \in Subs /\ p = Setting(q, key)  BY <1>3 DEF Subs
  <2> QED  BY <2>1, SetLast
<1>5. p[Len(q)].sub = s.key  BY <1>3, <1>4 DEF Element
<1>6. Len(q) \in Nat /\ DOMAIN q = 1 .. Len(q) /\ Len(q) > 0 /\ LastOf(q) = q[Len(q)]
  BY ParentIs
<1>7. Claim(c, a)  BY <1>2, <1>4 DEF Claim
<1>8. q = Setting(p, NoSub)
  <2>1. NoSub \in Subs  BY DEF Subs
  <2>2. PICK r : r = Setting(p, NoSub)  OBVIOUS
  <2>3. /\ IsPath(r) /\ Len(r) = Len(p) /\ DOMAIN r = DOMAIN p
        /\ \A i \in DOMAIN p : i # Len(p) => r[i] = p[i]
        /\ r[Len(p)] = Element(LastOf(p).field, NoSub)
    BY <1>4, <2>1, <2>2, SetLast
  <2>4. LastOf(p).field = LastOf(q).field  BY <1>4 DEF LastOf, Element
  <2>5. q[Len(q)] = Element(LastOf(q).field, NoSub)
    <3>1. LastOf(q) \in Elements  BY ParentIs
    <3> QED  BY <1>6, <3>1, ElementIs
  <2>6. \A i \in 1 .. Len(q) : r[i] = q[i]  BY <1>4, <1>6, <2>3, <2>4, <2>5
  <2>7. r \in Seq(Elements) /\ q \in Seq(Elements) /\ Len(r) = Len(q)  BY <1>4, <2>3, PathIs
  <2>8. r = q  BY <2>6, <2>7, SeqEqual
  <2> QED  BY <2>2, <2>8
<1>9. \A b : b.path = q /\ b.key = k /\ b.task = Head(t) => Link(Place(s, p, k), b)
  <2>1. \A b : b.path = q /\ b.key = k /\ b.task = Head(t) => Link(a, b)
    BY <1>2, <1>4, <1>8 DEF Link, Setting
  <2> QED  BY <1>1, <2>1
<1>10. ASSUME NEW d \in W, Subscripted(q, d) PROVE Subscripted(p, d)
  <2>1. Len(d.path) \in 1 .. Len(q) /\ Len(d.path) # Len(q) /\ q[Len(d.path)].sub = d.task.key
    BY <1>10 DEF Subscripted
  <2> QED  BY <1>4, <1>6, <2>1 DEF Subscripted
<1>11. Subscripted(p, Place(s, p, k))
  <2>1. Len(p) \in 1 .. Len(p)  BY <1>4, <1>6
  <2>2. Subscripted(p, a)  BY <1>2, <1>4, <1>5, <2>1 DEF Subscripted
  <2> QED  BY <1>1, <2>2
<1>12. Claim(c, Place(s, p, k))  BY <1>1, <1>7
<1>13. PICK V : V = W \cup {Place(s, p, k)}  OBVIOUS
<1>14. V = W \cup (IF s.op = "subscript" THEN {Place(s, p, k)} ELSE {})  BY <1>13
<1>15. Ready(c, Before(s, t), p, k, V)
  BY <1>9, <1>10, <1>11, <1>12, <1>14, ReadyNext
<1> QED  BY <1>13, <1>15

\* What is left when a task is done that leaves the path as it is; and when a
\* field or what is in it ends.
LEMMA RestReady ==
  ASSUME TypeOK, todo # <<>>, NEW A, NEW ps, Explained(A, ps),
         NEW c, c = content, NEW q, q = A[1].path, NEW k, k = A[1].key,
         NEW W, W = Owed(A), NEW t, t = Tail(todo)
  PROVE  /\ IsPath(q) /\ \A s \in W : Subscripted(q, s)
         /\ path = Without(q, Depths(W, Len(list) + 1))
         /\ A[1].task = task /\ k = forKey /\ Claim(c, A[1])
         /\ Steady(A[1]) => Ready(c, t, q, k, W)
<1>1. /\ A[1].task = task /\ Tail(todo) = TasksOf(Tail(A))
      /\ A[1].key = forKey /\ Placed(content, Tail(A)) /\ Claim(content, A[1])
      /\ path = Without(A[1].path, Depths(Owed(A), Len(list) + 1))
      /\ Tail(A) # <<>> => Link(A[1], Tail(A)[1])
      /\ Owed(A) = Owed(Tail(A)) \cup (IF A[1].task.op = "subscript" THEN {A[1]} ELSE {})
      /\ \A s \in Owed(A) : Subscripted(A[1].path, s)
      /\ IsPath(A[1].path)
  BY AtHand
<1>2. ASSUME Steady(A[1]) PROVE Ready(c, t, q, k, W)
  <2>1. k \in BOOLEAN  BY <1>1 DEF Claim
  <2>2. PICK T : T = Tail(A)  OBVIOUS
  <2>3. Owed(T) = W  BY <1>1, <1>2, <2>2 DEF Steady
  <2>4. T # <<>> => T[1].path = q /\ T[1].key = k
    BY <1>1, <1>2, <2>1, <2>2 DEF Link, Steady
  <2>5. Begins(T, q, k)  BY <2>4 DEF Begins
  <2>6. Owes(T, q)  BY <1>1, <2>3 DEF Owes
  <2>7. Placed(c, T) /\ TasksOf(T) = t  BY <1>1, <2>2
  <2> QED  BY <2>3, <2>5, <2>6, <2>7 DEF Ready
<1> QED  BY <1>1, <1>2

\* A step to an agenda that is ready where the walk is.
LEMMA ReadyMoves ==
  ASSUME NEW A, NEW ps, Explained(A, ps), UNCHANGED <<content, fails, list>>,
         NEW c, c = content, NEW t, t = todo', NEW q, NEW k, k = forKey',
         NEW W, W = Owed(A), Ready(c, t, q, k, W),
         path' = Without(q, Depths(W, Len(list) + 1))
  PROVE  Explains'
<1>1. PICK B : /\ Placed(c, B) /\ TasksOf(B) = t /\ Owed(B) = W
               /\ Begins(B, q, k) /\ Owes(B, q)
  BY DEF Ready
<1>2. B # <<>> => /\ B[1].key = forKey'
                  /\ path' = Without(B[1].path, Depths(Owed(A), Len(list) + 1))
  BY <1>1 DEF Begins
<1>3. Placed(content, B) /\ todo' = TasksOf(B) /\ Owed(B) = Owed(A)  BY <1>1
<1>4. Explained(B, ps)'  BY <1>2, <1>3, Moves
<1> QED  BY <1>4 DEF Explains

\* The path one element further on.
Onto(p, f) == Append(p, Element(f, NoSub))

\* A path one element further on, of which no subscript is left out there.
LEMMA FurtherOn ==
  ASSUME NEW p, IsPath(p), NEW W, \A s \in W : Subscripted(p, s), NEW n,
         NEW f, Element(f, NoSub) \in Elements, NEW q, q = Onto(p, f)
  PROVE  /\ IsPath(q) /\ q # <<>> /\ Parent(q) = p /\ LastOf(q) = Element(f, NoSub)
         /\ LastOf(q).field = f /\ LastOf(q).sub = NoSub
         /\ Onto(Without(p, Depths(W, n)), f) = Without(q, Depths(W, n))
<1>1. PICK e : e = Element(f, NoSub)  OBVIOUS
<1>2. e \in Elements /\ e.field = f /\ e.sub = NoSub /\ f \in STRING  BY <1>1 DEF Element, Elements
<1>3. IsPath(q) /\ q # <<>> /\ Parent(q) = p /\ LastOf(q) = e
  <2>1. q = Append(p, e)  BY <1>1 DEF Onto
  <2>2. /\ IsPath(Append(p, e)) /\ Append(p, e) # <<>>
        /\ Parent(Append(p, e)) = p /\ LastOf(Append(p, e)) = e
    BY <1>2, AppendIs
  <2> QED  BY <2>1, <2>2
<1>4. PICK D : D = Depths(W, n)  OBVIOUS
<1>5. \A d \in D : d \in 1 .. Len(p)  BY <1>4, DepthsAre
<1>6. Onto(Without(p, D), f) = Without(q, D)
  <2>1. Append(Without(p, D), Element(f, NoSub)) = Without(Append(p, Element(f, NoSub)), D)
    BY <1>2, <1>5, WithoutLonger
  <2> QED  BY <2>1 DEF Onto
<1> QED  BY <1>1, <1>2, <1>3, <1>4, <1>6

\* A field: its value is where its path leads, and so is what is inside.
LEMMA FieldExplained == ASSUME TypeOK, Explains, FieldEntered PROVE Explains'
<1>1. PICK A, ps : Explained(A, ps)  BY DEF Explains
<1>2. todo # <<>> /\ task.op = "field" /\ ~task.rules.broken
      /\ UNCHANGED <<content, fails, list, forKey>>
  BY DEF FieldEntered, DoingField, Doing, task, input
<1>3. PICK c, p, k, W, t : c = content /\ p = A[1].path /\ k = A[1].key /\ W = Owed(A) /\ t = Tail(todo)
  OBVIOUS
<1>4. /\ IsPath(p) /\ (\A s \in W : Subscripted(p, s)) /\ path = Without(p, Depths(W, Len(list) + 1))
      /\ A[1].task = task /\ k = forKey /\ Claim(c, A[1])
      /\ Steady(A[1]) => Ready(c, t, p, k, W)
  BY <1>1, <1>2, <1>3, RestReady
<1>5. IsTask(task) /\ c \in Messages  BY <1>1, <1>2, <1>3, AtHand
<1>6. PICK v : v = task.rules  OBVIOUS
<1>7. PICK n \in Nodes : n = task.node  BY <1>2, <1>4 DEF Claim
<1>8. Leads(c, p, n) /\ k = FALSE  BY <1>2, <1>3, <1>4, <1>7 DEF Claim
<1>9. v \in FieldsOf(n) /\ ~v.broken
  BY <1>2, <1>5, <1>6, <1>7 DEF IsTask, FieldsOf
<1>10. PICK x : x = c[n][v.field]  OBVIOUS
<1>11. v.field \in STRING /\ (v.field \in Presence => v.required \/ v.ignoreEmpty)
  BY <1>9, FieldIs
<1>12. Fits(TypeOf[n], v, x)  BY <1>5, <1>9, <1>10, ContentFits
<1>13. x # NoValue
  <2>1. IsSet(n, v.field) \/ (~v.required /\ ~v.ignoreEmpty)
    BY <1>3, <1>6, <1>7 DEF FieldEntered
  <2>2. CASE IsSet(n, v.field)  BY <1>3, <1>10, <2>2 DEF IsSet
  <2>3. CASE ~v.required /\ ~v.ignoreEmpty  BY <1>11, <1>12, <2>3 DEF Fits
  <2> QED  BY <2>1, <2>2, <2>3
<1>14. PICK e, q : e = Element(v.field, NoSub) /\ q = Onto(p, v.field)  OBVIOUS
<1>15. /\ IsPath(q) /\ q # <<>> /\ Parent(q) = p /\ LastOf(q) = e /\ e.field = v.field /\ e.sub = NoSub
       /\ Onto(Without(p, Depths(W, Len(list) + 1)), v.field) = Without(q, Depths(W, Len(list) + 1))
  <2>1. PICK m, f : m = Len(list) + 1 /\ f = v.field  OBVIOUS
  <2>3. Element(f, NoSub) \in Elements  BY <1>11, <2>1 DEF Element, Elements
  <2>2. /\ IsPath(q) /\ q # <<>> /\ Parent(q) = p /\ LastOf(q) = Element(f, NoSub)
        /\ LastOf(q).field = f /\ LastOf(q).sub = NoSub
        /\ Onto(Without(p, Depths(W, m)), f) = Without(q, Depths(W, m))
    BY <1>4, <1>14, <2>1, <2>3, FurtherOn
  <2> QED  BY <1>14, <2>1, <2>2
<1>16. Leads(c, q, x)
  <2>1. Gives(c, n, LastOf(q), x)  BY <1>9, <1>10, <1>13, <1>15 DEF Gives
  <2> QED  BY <1>8, <1>15, <2>1, LeadsOn
<1>17. \A r \in RulesIn(v.value) : RuleAt(c, q, r)
  <2>1. \A r \in FieldRulesOf(v) : RuleAt(c, q, r)  BY <1>8, <1>9, <1>15, RuleIsAt
  <2> QED  BY <2>1, RulesAre
<1>18. PICK value, leave, inside :
         /\ value = [op |-> "value", rules |-> v.value, value |-> x, frame |-> FrameOf(v, n)]
         /\ leave = [op |-> "leave"]
         /\ inside = [op |-> "inside", rules |-> v, value |-> x]
  OBVIOUS
<1>19. Ready(c, t, p, k, W)  BY <1>2, <1>4 DEF Steady
<1>20. IsSeq(t)  BY <1>19, ReadySeq
<1>21. Ready(c, Before(inside, t), p, k, W)
  <2>1. PICK a : a = Place(inside, p, k)  OBVIOUS
  <2>2. a.task = inside /\ a.path = p /\ a.key = FALSE  BY <1>8, <2>1 DEF Place
  <2>3. inside.op = "inside" /\ inside.rules = v /\ inside.value = x  BY <1>18
  <2>4. InField(c, p, inside)  BY <1>8, <1>9, <1>10, <1>13, <2>3 DEF InField
  <2>5. Claim(c, a) /\ Steady(a)  BY <1>4, <2>2, <2>3, <2>4 DEF Claim, Steady
  <2> QED  BY <1>19, <2>1, <2>5, ReadySteady
<1>22. PICK u \in {t, Before(inside, t)} : todo' = Before(value, Before(leave, u))
  <2>1. <<inside>> \o t = Before(inside, t)  BY <1>20, BeforeIs
  <2>2. <<>> \o t = t  BY <1>20, ConcatEmptySeq DEF IsSeq
  <2>3. todo' = (<<value, leave>> \o <<inside>>) \o t \/ todo' = (<<value, leave>> \o <<>>) \o t
    BY <1>3, <1>6, <1>7, <1>10, <1>18 DEF FieldEntered, Then
  <2>4. PICK S : S = {t[i] : i \in DOMAIN t} \cup {value, leave, inside}  OBVIOUS
  <2>5. t \in Seq(S)  BY <1>20, <2>4, SeqMonotonic DEF IsSeq
  <2>6. <<value, leave>> \in Seq(S) /\ <<inside>> \in Seq(S) /\ <<>> \in Seq(S)  BY <2>4
  <2>7. (<<value, leave>> \o <<inside>>) \o t = <<value, leave>> \o (<<inside>> \o t)
        /\ (<<value, leave>> \o <<>>) \o t = <<value, leave>> \o (<<>> \o t)
    BY <2>5, <2>6, ConcatAssociative
  <2>8. todo' = <<value, leave>> \o Before(inside, t) \/ todo' = <<value, leave>> \o t
    BY <2>1, <2>2, <2>3, <2>7
  <2>9. IsSeq(Before(inside, t))  BY <1>20, BeforeIs
  <2>10. PICK r : r = Before(inside, t)  OBVIOUS
  <2>11. /\ <<value, leave>> \o t = Before(value, Before(leave, t))
         /\ <<value, leave>> \o r = Before(value, Before(leave, r))
    BY <1>20, <2>9, <2>10, BeforeTwo
  <2> QED  BY <2>8, <2>10, <2>11
<1>23. Ready(c, u, p, k, W)  BY <1>19, <1>21, <1>22
<1>24. Ready(c, Before(leave, u), q, k, W)
  <2>1. leave.op = "leave"  BY <1>18
  <2> QED  BY <1>8, <1>15, <1>23, <2>1, ReadyLeave
<1>25. Ready(c, Before(value, Before(leave, u)), q, k, W)
  <2>1. PICK a : a = Place(value, q, k)  OBVIOUS
  <2>2. a.task = value /\ a.path = q /\ a.key = FALSE  BY <1>8, <2>1 DEF Place
  <2>3. value.op = "value" /\ value.rules = v.value /\ value.value = x  BY <1>18
  <2>4. At(c, q, value.value, a.key)  BY <1>16, <2>2, <2>3 DEF At
  <2>5. Claim(c, a) /\ Steady(a)  BY <1>15, <1>17, <2>2, <2>3, <2>4 DEF Claim, Steady
  <2> QED  BY <1>24, <2>1, <2>5, ReadySteady
<1>26. path' = Without(q, Depths(W, Len(list) + 1))
  BY <1>4, <1>6, <1>14, <1>15 DEF FieldEntered, Onto
<1>27. k = forKey'  BY <1>2, <1>4
<1> QED  BY <1>1, <1>2, <1>3, <1>22, <1>25, <1>26, <1>27, ReadyMoves

\* A sequence is its first task before the others.
LEMMA BeforeHead ==
  ASSUME NEW t, IsSeq(t), t # <<>>
  PROVE  t = Before(Head(t), Tail(t))
<1> DEFINE S == {t[i] : i \in DOMAIN t}
<1>1. t \in Seq(S)  BY DEF IsSeq
<1> HIDE DEF S
<1>2. t = <<Head(t)>> \o Tail(t)
  <2>1. /\ Tail(t) \in Seq(S) /\ Len(Tail(t)) = Len(t) - 1 /\ Len(t) \in Nat \ {0}
        /\ \A i \in 1 .. Len(Tail(t)) : Tail(t)[i] = t[i + 1]
        /\ Head(t) = t[1] /\ Head(t) \in S
    BY <1>1, HeadTailProperties
  <2>2. PICK h, r : h = <<Head(t)>> /\ r = Tail(t)  OBVIOUS
  <2>3. h \in Seq(S) /\ Len(h) = 1 /\ h[1] = Head(t)  BY <2>1, <2>2
  <2>4. PICK u : u = h \o r  OBVIOUS
  <2>5. /\ u \in Seq(S) /\ Len(u) = Len(h) + Len(r)
        /\ \A i \in 1 .. Len(h) + Len(r) : u[i] = IF i <= Len(h) THEN h[i] ELSE r[i - Len(h)]
    BY <2>1, <2>2, <2>3, <2>4, ConcatProperties
  <2>6. PICK m \in Nat \ {0} : m = Len(t) /\ Len(r) = m - 1  BY <2>1, <2>2
  <2>7. Len(u) = m  BY <2>3, <2>5, <2>6
  <2>8. ASSUME NEW i \in 1 .. m PROVE u[i] = t[i]
    <3>1. CASE i = 1  BY <2>1, <2>3, <2>5, <2>6, <3>1
    <3>2. CASE i # 1
      <4>1. i \in 1 .. Len(h) + Len(r) /\ ~(i <= Len(h)) /\ i - Len(h) = i - 1
        BY <2>3, <2>6, <3>2
      <4>2. i - 1 \in 1 .. m - 1 /\ (i - 1) + 1 = i  BY <3>2
      <4>3. u[i] = r[i - 1]  BY <2>5, <4>1
      <4>4. r[i - 1] = t[(i - 1) + 1]  BY <2>1, <2>2, <2>6, <4>2
      <4> QED  BY <4>2, <4>3, <4>4
    <3> QED  BY <3>1, <3>2
  <2>9. u = t  BY <1>1, <2>5, <2>6, <2>7, <2>8, SeqEqual
  <2> QED  BY <2>2, <2>4, <2>9
<1> QED  BY <1>2 DEF Before

\* The walk is not at a key.
NotKey(k) == k = FALSE

\* The tasks t begin with the end of a field, whose message is at p.
Closing(c, t, p, k, W) ==
  \E leave, r : leave.op = "leave" /\ t = Before(leave, r) /\ Ready(c, r, p, k, W)

\* A container's task has the end of its field after it, and the subscripts
\* still to be set are those of containers around that.
LEMMA ContainerRest ==
  ASSUME NEW c, NEW A, Placed(c, A), A # <<>>, Container(A[1].task),
         NEW q, q = A[1].path, NEW k, k = A[1].key, NEW W, W = Owed(A),
         NEW p, p = Parent(q), NEW t, t = TasksOf(Tail(A))
  PROVE  /\ IsPath(q) /\ q # <<>> /\ NotKey(k)
         /\ \A s \in W : Subscripted(p, s)
         /\ Closing(c, t, p, k, W)
<1>1. /\ Claim(c, A[1]) /\ Placed(c, Tail(A)) /\ Tail(A) # <<>> /\ Link(A[1], Tail(A)[1])
      /\ Owed(A) = Owed(Tail(A)) \cup (IF A[1].task.op = "subscript" THEN {A[1]} ELSE {})
  BY PlacedFirst DEF Container
<1>2. IsPath(q) /\ q # <<>> /\ k = FALSE  BY <1>1 DEF Claim, Container
<1>3. PICK T : T = Tail(A)  OBVIOUS
<1>4. T[1].path = q /\ T[1].key = k /\ T[1].task.op = "leave" /\ Owed(T) = W
  BY <1>1, <1>2, <1>3 DEF Link, Container
<1>5. PICK R : R = Tail(T)  OBVIOUS
<1>6. /\ IsSeq(T) /\ Placed(c, R) /\ (R # <<>> => Link(T[1], R[1]))
      /\ Owed(T) = Owed(R) \cup (IF T[1].task.op = "subscript" THEN {T[1]} ELSE {})
  BY <1>1, <1>3, <1>5, PlacedFirst
<1>7. Owed(R) = W  BY <1>4, <1>6
<1>8. R # <<>> => R[1].path = p /\ R[1].key = k
  BY <1>2, <1>4, <1>6 DEF Link
<1>9. ASSUME NEW s \in W PROVE Subscripted(p, s)
  <2>1. R # <<>>  BY <1>7, PlacedNone
  <2>2. Subscripted(R[1].path, s)  BY <1>6, <1>7, <2>1, FirstOwes
  <2> QED  BY <1>8, <2>1, <2>2
<1>10. Ready(c, TasksOf(R), p, k, W)
  BY <1>6, <1>7, <1>8, <1>9 DEF Ready, Begins, Owes
<1>11. /\ t # <<>> /\ Head(t) = T[1].task /\ Tail(t) = TasksOf(R)
  BY <1>1, <1>3, <1>5, <1>6, TasksOfTail
<1>12. IsSeq(t)
  <2>1. Len(T) \in Nat /\ DOMAIN T = 1 .. Len(T)  BY <1>6 DEF IsSeq
  <2>2. t = [i \in DOMAIN T |-> t[i]]  BY <1>3 DEF TasksOf
  <2> QED  BY <2>1, <2>2, IndexedIs
<1>13. t = Before(T[1].task, TasksOf(R))  BY <1>11, <1>12, BeforeHead
<1> QED  BY <1>2, <1>4, <1>9, <1>10, <1>13 DEF Closing, NotKey

\* Inside a field: the walk is at the field once more.
LEMMA InsideExplained == ASSUME TypeOK, Explains, Inside PROVE Explains'
<1>1. PICK A, ps : Explained(A, ps)  BY DEF Explains
<1>2. todo # <<>> /\ task.op = "inside" /\ UNCHANGED <<content, fails, list, forKey>>
  BY DEF Inside, Doing, task, input
<1>3. PICK c, p, k, W, t : c = content /\ p = A[1].path /\ k = A[1].key /\ W = Owed(A) /\ t = Tail(todo)
  OBVIOUS
<1>4. /\ IsPath(p) /\ (\A s \in W : Subscripted(p, s)) /\ path = Without(p, Depths(W, Len(list) + 1))
      /\ A[1].task = task /\ k = forKey /\ Claim(c, A[1])
      /\ Steady(A[1]) => Ready(c, t, p, k, W)
  BY <1>1, <1>2, <1>3, RestReady
<1>5. IsTask(task)  BY <1>1, <1>2, AtHand
<1>6. PICK s : s = task  OBVIOUS
<1>7. InField(c, p, s) /\ k = FALSE  BY <1>2, <1>3, <1>4, <1>6 DEF Claim
<1>8. PICK n \in Nodes : Leads(c, p, n) /\ s.rules \in FieldsOf(n) /\ ~s.rules.broken
                         /\ s.value = c[n][s.rules.field] /\ s.value # NoValue
  BY <1>7 DEF InField
<1>9. PICK f : f = s.rules.field  OBVIOUS
<1>10. f \in STRING  BY <1>8, <1>9, FieldIs
<1>11. Element(f, NoSub) \in Elements  BY <1>10 DEF Element, Elements
<1>12. PICK m, q : m = Len(list) + 1 /\ q = Onto(p, f)  OBVIOUS
<1>13. /\ IsPath(q) /\ q # <<>> /\ Parent(q) = p
       /\ LastOf(q).field = f /\ LastOf(q).sub = NoSub
       /\ Onto(Without(p, Depths(W, m)), f) = Without(q, Depths(W, m))
  BY <1>4, <1>11, <1>12, FurtherOn
<1>14. s.rules.kind \in {"list", "map"}  BY <1>2, <1>5, <1>6 DEF IsTask
<1>15. PICK u, leave :
         /\ u = [op |-> IF s.rules.kind = "list" THEN "items" ELSE "entries",
                 rules |-> s.rules, value |-> s.value, next |-> 1]
         /\ leave = [op |-> "leave"]
  OBVIOUS
<1>16. /\ u.op \in {"items", "entries"} /\ u.rules = s.rules /\ u.value = s.value
       /\ u.op = "items" => s.rules.kind = "list"
       /\ u.op = "entries" => s.rules.kind = "map"
       /\ leave.op = "leave"
  BY <1>14, <1>15
<1>17. Ready(c, t, p, k, W)  BY <1>2, <1>4 DEF Steady
<1>18. todo' = Before(u, Before(leave, t))
  <2>1. IsSeq(t)  BY <1>17, ReadySeq
  <2>2. <<u, leave>> \o t = Before(u, Before(leave, t))  BY <2>1, BeforeTwo
  <2> QED  BY <1>3, <1>6, <1>15, <2>2 DEF Inside, Then
<1>19. Ready(c, Before(u, Before(leave, t)), q, k, W)
  <2>1. PICK a : a = Place(u, q, k)  OBVIOUS
  <2>2. a.task = u /\ a.path = q /\ a.key = FALSE  BY <1>7, <2>1 DEF Place
  <2>3. InField(c, p, u)  BY <1>8, <1>16 DEF InField
  <2>4. Claim(c, a)  BY <1>9, <1>13, <1>16, <2>2, <2>3 DEF Claim
  <2>5. Claim(c, Place(u, q, k))  BY <2>1, <2>4
  <2>6. IsPath(q) /\ q # <<>> /\ p = Parent(q)  BY <1>13
  <2>7. k = FALSE  BY <1>7
  <2>8. leave.op = "leave"  BY <1>16
  <2>9. Container(u)  BY <1>16 DEF Container
  <2> QED  BY ONLY <1>17, <2>5, <2>6, <2>7, <2>8, <2>9, ReadyInside
<1>20. path' = Without(q, Depths(W, Len(list) + 1))
  BY <1>4, <1>6, <1>9, <1>12, <1>13 DEF Inside, Onto
<1>21. k = forKey'  BY <1>2, <1>4
<1> QED  BY <1>1, <1>2, <1>3, <1>18, <1>19, <1>20, <1>21, ReadyMoves

-----------------------------------------------------------------------------
(* Items and entries.                                                      *)

\* At an item or an entry: what the container's task says, and what follows.
LEMMA AtContainer ==
  ASSUME TypeOK, todo # <<>>, NEW A, NEW ps, Explained(A, ps),
         NEW s, s = task, Container(s),
         NEW c, c = content, NEW q, q = A[1].path, NEW k, k = forKey,
         NEW W, W = Owed(A), NEW p, p = Parent(q), NEW t, t = Tail(todo)
  PROVE  /\ IsPath(q) /\ q # <<>> /\ NotKey(k) /\ IsTask(s) /\ c \in Messages
         /\ path = Without(q, Depths(W, Len(list) + 1))
         /\ InField(c, p, s) /\ LastOf(q).field = s.rules.field
         /\ s.op = "items" => s.rules.kind = "list"
         /\ s.op = "entries" => s.rules.kind = "map" /\ LastOf(q).sub = NoSub
         /\ \A d \in W : Subscripted(p, d)
         /\ Closing(c, t, p, k, W)
<1>1. /\ A # <<>> /\ A[1].task = s /\ t = TasksOf(Tail(A)) /\ A[1].key = k
      /\ IsTask(s) /\ c \in Messages /\ path = Without(q, Depths(W, Len(list) + 1))
      /\ Placed(c, A) /\ Claim(c, A[1])
  BY AtHand
<1>2. Container(A[1].task)  BY <1>1
<1>3. k = A[1].key  BY <1>1
<1>4. /\ IsPath(q) /\ q # <<>> /\ NotKey(k)
      /\ \A d \in W : Subscripted(p, d)
      /\ Closing(c, t, p, k, W)
  BY <1>1, <1>2, <1>3, ContainerRest
<1>5. /\ InField(c, p, s) /\ LastOf(q).field = s.rules.field
      /\ s.op = "items" => s.rules.kind = "list"
      /\ s.op = "entries" => s.rules.kind = "map" /\ LastOf(q).sub = NoSub
  BY <1>1, <1>2 DEF Claim, Container, NotKey
<1> QED  BY <1>1, <1>4, <1>5

\* The container's task, one item further on.
LEMMA OnwardIs ==
  ASSUME NEW s, s = task, NEW u, u = Onward, Container(s),
         NEW c, NEW q, IsPath(q), q # <<>>, NEW k, k = FALSE,
         NEW p, p = Parent(q), InField(c, p, s), LastOf(q).field = s.rules.field,
         s.op = "items" => s.rules.kind = "list",
         s.op = "entries" => s.rules.kind = "map" /\ LastOf(q).sub = NoSub
  PROVE  /\ Container(u) /\ u.op = s.op /\ u.rules = s.rules /\ u.value = s.value
         /\ Claim(c, Place(u, q, k))
<1>1. u.op = s.op /\ u.rules = s.rules /\ u.value = s.value  BY DEF Onward
<1>2. PICK a : a = Place(u, q, k)  OBVIOUS
<1>3. a.task = u /\ a.path = q /\ a.key = FALSE  BY <1>2 DEF Place
<1>4. InField(c, p, u)  BY <1>1 DEF InField
<1>5. Container(u)  BY <1>1 DEF Container
<1>6. u.op = "items" \/ u.op = "entries"  BY <1>5 DEF Container
<1>7. Claim(c, a)  BY <1>1, <1>3, <1>4, <1>6 DEF Claim
<1> QED  BY <1>1, <1>2, <1>5, <1>7

\* An item passed over.
LEMMA ItemSkippedExplained == ASSUME TypeOK, Explains, ItemSkipped PROVE Explains'
<1>1. PICK A, ps : Explained(A, ps)  BY DEF Explains
<1>2. todo # <<>> /\ task.op = "items" /\ Then(<<Onward>>)
      /\ UNCHANGED <<content, fails, list, path, forKey>>
  BY DEF ItemSkipped, Doing, task, input
<1>3. PICK s, u, c, q, k, W, p, t :
        /\ s = task /\ u = Onward /\ c = content /\ q = A[1].path /\ k = forKey
        /\ W = Owed(A) /\ p = Parent(q) /\ t = Tail(todo)
  OBVIOUS
<1>4. Container(s)  BY <1>2, <1>3 DEF Container
<1>5. /\ IsPath(q) /\ q # <<>> /\ NotKey(k)
      /\ path = Without(q, Depths(W, Len(list) + 1))
      /\ InField(c, p, s) /\ LastOf(q).field = s.rules.field
      /\ s.op = "items" => s.rules.kind = "list"
      /\ s.op = "entries" => s.rules.kind = "map" /\ LastOf(q).sub = NoSub
      /\ Closing(c, t, p, k, W)
  BY <1>1, <1>2, <1>3, <1>4, AtContainer
<1>5a. k = FALSE  BY <1>5 DEF NotKey
<1>6. PICK leave, r : leave.op = "leave" /\ t = Before(leave, r) /\ Ready(c, r, p, k, W)
  BY <1>5 DEF Closing
<1>7. Container(u) /\ Claim(c, Place(u, q, k))  BY <1>3, <1>4, <1>5, <1>5a, OnwardIs
<1>8. Ready(c, Before(u, Before(leave, r)), q, k, W)
  BY <1>3, <1>5, <1>5a, <1>6, <1>7, ReadyInside
<1>9. todo' = Before(u, t)
  <2>0. IsSeq(Tail(todo))  BY <1>2, TailIs DEF TypeOK
  <2>1. IsSeq(t)  BY <1>3, <2>0
  <2>2. <<u>> \o t = Before(u, t)  BY <2>1, BeforeIs
  <2> QED  BY <1>2, <1>3, <2>2 DEF Then
<1>10. path' = Without(q, Depths(W, Len(list) + 1))  BY <1>2, <1>5
<1>11. k = forKey' /\ UNCHANGED <<content, fails, list>>  BY <1>2, <1>3
<1>12. Ready(c, todo', q, k, W)  BY <1>6, <1>8, <1>9
<1> QED  BY <1>1, <1>3, <1>10, <1>11, <1>12, ReadyMoves

\* An item, at its subscript.
LEMMA ItemExplained == ASSUME TypeOK, Explains, Item PROVE Explains'
<1>1. PICK A, ps : Explained(A, ps)  BY DEF Explains
<1>2. /\ todo # <<>> /\ task.op = "items" /\ ~Ended(task)
      /\ path' = [path EXCEPT ![Len(path)].sub = task.next - 1]
      /\ Then(<<ItemTask(task.rules.items, task.value[task.next]), Onward>>)
      /\ UNCHANGED <<content, fails, list, forKey>>
  BY DEF Item, Doing, task, input
<1>3. PICK s, u, c, q, k, W, p, t :
        /\ s = task /\ u = Onward /\ c = content /\ q = A[1].path /\ k = forKey
        /\ W = Owed(A) /\ p = Parent(q) /\ t = Tail(todo)
  OBVIOUS
<1>4. Container(s)  BY <1>2, <1>3 DEF Container
<1>5. /\ IsPath(q) /\ q # <<>> /\ NotKey(k) /\ IsTask(s) /\ c \in Messages
      /\ path = Without(q, Depths(W, Len(list) + 1))
      /\ InField(c, p, s) /\ LastOf(q).field = s.rules.field /\ s.rules.kind = "list"
      /\ \A d \in W : Subscripted(p, d)
      /\ Closing(c, t, p, k, W)
  BY <1>1, <1>2, <1>3, <1>4, AtContainer
<1>5a. k = FALSE  BY <1>5 DEF NotKey
<1>6. PICK leave, r : leave.op = "leave" /\ t = Before(leave, r) /\ Ready(c, r, p, k, W)
  BY <1>5 DEF Closing
<1>7. PICK v, f : v = s.rules /\ f = v.field  OBVIOUS
<1>8. PICK n \in Nodes : /\ Leads(c, p, n) /\ v \in FieldsOf(n) /\ ~v.broken
                         /\ s.value = c[n][f] /\ s.value # NoValue
  BY <1>5, <1>7 DEF InField
<1>9. v.items # NoItem /\ s.next \in Nat \ {0}
  BY <1>2, <1>3, <1>5, <1>7 DEF IsTask
<1>10. PICK j \in Nat : j = s.next - 1 /\ j + 1 = s.next  BY <1>9
<1>11. j + 1 \in DOMAIN s.value /\ s.value[j + 1] # NoValue
  <2>1. Fits(TypeOf[n], v, s.value)  BY <1>5, <1>7, <1>8, ContentFits
  <2>2. IsSeq(s.value) /\ \A i \in DOMAIN s.value : s.value[i] # NoValue
    BY <1>5, <1>7, <2>1 DEF Fits
  <2>3. Len(s.value) \in Nat /\ DOMAIN s.value = 1 .. Len(s.value)  BY <2>2 DEF IsSeq
  <2>4. ~(s.next > Len(s.value))  BY <1>2, <1>3 DEF Ended
  <2>5. j + 1 \in 1 .. Len(s.value)  BY <1>9, <1>10, <2>3, <2>4
  <2> QED  BY <2>2, <2>3, <2>5
<1>12. PICK x : x = s.value[j + 1]  OBVIOUS
<1>13. j \in Subs  BY <1>10 DEF Subs
<1>14. PICK q2 : q2 = Setting(q, j)  OBVIOUS
<1>15. /\ IsPath(q2) /\ q2 # <<>> /\ Parent(q2) = p
       /\ LastOf(q2) = Element(LastOf(q).field, j)
  BY <1>3, <1>5, <1>13, <1>14, SetLast
<1>16. LastOf(q2).field = f /\ LastOf(q2).sub = j
  BY <1>5, <1>7, <1>15 DEF Element
<1>17. Leads(c, q2, x)
  <2>1. Gives(c, n, LastOf(q2), x)
    <3>1. v.kind = "list" /\ j \in Nat /\ j + 1 \in DOMAIN c[n][f] /\ x = c[n][f][j + 1]
      BY <1>5, <1>7, <1>8, <1>11, <1>12
    <3>2. x # NoValue /\ c[n][f] # NoValue  BY <1>8, <1>11, <1>12
    <3> QED  BY <1>7, <1>8, <1>16, <3>1, <3>2 DEF Gives
  <2> QED  BY <1>8, <1>15, <2>1, LeadsOn
<1>18. PICK item : item = v.items  OBVIOUS
<1>19. \A rule \in RulesIn(item.value) : RuleAt(c, q2, rule)
  <2>1. \A rule \in FieldRulesOf(v) : RuleAt(c, q2, rule)
    BY <1>7, <1>8, <1>15, <1>16, RuleIsAt
  <2>2. \A rule \in RulesIn(item.value) : rule \in FieldRulesOf(v)
    BY <1>9, <1>18, RulesAre
  <2> QED  BY <2>1, <2>2
<1>20. PICK value : value = ItemTask(item, x)  OBVIOUS
<1>21. value.op = "value" /\ value.rules = item.value /\ value.value = x
  BY <1>20 DEF ItemTask
<1>22. Container(u) /\ Claim(c, Place(u, q2, k))
  <2>1. p = Parent(q2) /\ LastOf(q2).field = s.rules.field  BY <1>7, <1>15, <1>16
  <2>2. s.op = "items" => s.rules.kind = "list"  BY <1>5
  <2>3. s.op # "entries"  BY <1>2, <1>3
  <2> QED  BY <1>3, <1>4, <1>5, <1>5a, <1>15, <2>1, <2>2, <2>3, OnwardIs
<1>23. Ready(c, Before(u, t), q2, k, W)
  <2>1. p = Parent(q2)  BY <1>15
  <2> QED  BY <1>5, <1>5a, <1>6, <1>15, <1>22, <2>1, ReadyInside
<1>24. Ready(c, Before(value, Before(u, t)), q2, k, W)
  <2>1. PICK a : a = Place(value, q2, k)  OBVIOUS
  <2>2. a.task = value /\ a.path = q2 /\ a.key = FALSE  BY <1>5, <1>5a, <2>1 DEF Place
  <2>3. At(c, q2, value.value, a.key)  BY <1>17, <1>21, <2>2 DEF At
  <2>4. Claim(c, a) /\ Steady(a)  BY <1>15, <1>19, <1>21, <2>2, <2>3 DEF Claim, Steady
  <2> QED  BY <1>23, <2>1, <2>4, ReadySteady
<1>25. todo' = Before(value, Before(u, t))
  <2>0. IsSeq(Tail(todo))  BY <1>2, TailIs DEF TypeOK
  <2>1. IsSeq(t)  BY <1>3, <2>0
  <2>2. <<value, u>> \o t = Before(value, Before(u, t))  BY <2>1, BeforeTwo
  <2>3. Then(<<value, u>>)  BY <1>2, <1>3, <1>7, <1>10, <1>12, <1>18, <1>20
  <2> QED  BY <1>3, <2>2, <2>3 DEF Then
<1>26. path' = Without(q2, Depths(W, Len(list) + 1))
  <2>1. PICK D : D = Depths(W, Len(list) + 1)  OBVIOUS
  <2>2. /\ Len(q) \in Nat /\ DOMAIN q = 1 .. Len(q) /\ Len(q) > 0 /\ Len(p) = Len(q) - 1
    BY <1>3, <1>5, ParentIs
  <2>3. \A d \in D : d \in 1 .. Len(p)  BY <1>5, <2>1, DepthsAre
  <2>4. Len(q) \notin D /\ Len(q) \in DOMAIN q  BY <2>2, <2>3
  <2>5. path = Without(q, D)  BY <1>5, <2>1
  <2>6. Len(path) = Len(q)  BY <1>5, <2>5, WithoutIs
  <2>7. PICK d \in DOMAIN q : d = Len(q)  BY <2>4
  <2>8. q2 = SetAt(q, d, j)  BY <1>14, <2>7 DEF Setting, SetAt
  <2>9. SetAt(Without(q, D), d, j) = Without(q2, D)
    <3>1. IsPath(q) /\ d \in DOMAIN q /\ d \notin D  BY <1>5, <2>4, <2>7
    <3> QED  BY ONLY <1>13, <2>8, <3>1, WithoutSet
  <2>10. path' = SetAt(path, d, j)  BY <1>2, <1>3, <1>10, <2>6, <2>7 DEF SetAt
  <2> QED  BY <2>1, <2>5, <2>9, <2>10
<1>27. k = forKey' /\ UNCHANGED <<content, fails, list>>  BY <1>2, <1>3
<1>28. Ready(c, todo', q2, k, W)  BY <1>24, <1>25
<1> QED  BY <1>1, <1>3, <1>26, <1>27, <1>28, ReadyMoves

\* A step to an agenda with other subscripts still to be set.
LEMMA ReadyExplained ==
  ASSUME NEW A, NEW ps, Explained(A, ps), UNCHANGED <<content, fails, list>>,
         NEW c, c = content, NEW t, t = todo', NEW q, NEW k, k = forKey',
         NEW V, Ready(c, t, q, k, V), path' = Without(q, Depths(V, Len(list) + 1)),
         \A s \in V : s.task.recorded \in 0 .. Len(list), Accounted(V, ps)
  PROVE  Explains'
<1>1. PICK B : /\ Placed(c, B) /\ TasksOf(B) = t /\ Owed(B) = V
               /\ Begins(B, q, k) /\ Owes(B, q)
  BY DEF Ready
<1>2. Placed(content', B) /\ todo' = TasksOf(B)  BY <1>1
<1>3. B # <<>> => /\ B[1].key = forKey'
                  /\ path' = Without(B[1].path, Depths(Owed(B), Len(list') + 1))
  BY <1>1 DEF Begins
<1>4. \A s \in Owed(B) : s.task.recorded \in 0 .. Len(list')  BY <1>1
<1>5. Accounted(Owed(B), ps)'  BY <1>1 DEF Accounted
<1>6. Explained(B, ps)'  BY <1>2, <1>3, <1>4, <1>5 DEF Explained
<1> QED  BY <1>6 DEF Explains

\* An entry: its key, its value, and the subscript of both, which the path and
\* the violations do not have yet.
LEMMA EntryExplained == ASSUME TypeOK, Explains, Entry PROVE Explains'
<1>1. PICK A, ps : Explained(A, ps)  BY DEF Explains
<1>2. /\ todo # <<>> /\ task.op = "entries" /\ ~Ended(task)
      /\ UNCHANGED <<content, fails, list, path, forKey>>
  BY DEF Entry, Doing, task, input
<1>3. PICK s, u, c, q, k, W, p, t :
        /\ s = task /\ u = Onward /\ c = content /\ q = A[1].path /\ k = forKey
        /\ W = Owed(A) /\ p = Parent(q) /\ t = Tail(todo)
  OBVIOUS
<1>4. Container(s)  BY <1>2, <1>3 DEF Container
<1>5. /\ IsPath(q) /\ q # <<>> /\ NotKey(k) /\ IsTask(s) /\ c \in Messages
      /\ path = Without(q, Depths(W, Len(list) + 1))
      /\ InField(c, p, s) /\ LastOf(q).field = s.rules.field
      /\ s.op = "items" => s.rules.kind = "list"
      /\ s.op = "entries" => s.rules.kind = "map" /\ LastOf(q).sub = NoSub
      /\ \A d \in W : Subscripted(p, d)
      /\ Closing(c, t, p, k, W)
  BY <1>1, <1>2, <1>3, <1>4, AtContainer
<1>6. k = FALSE /\ s.rules.kind = "map" /\ LastOf(q).sub = NoSub
  BY <1>2, <1>3, <1>5 DEF NotKey
<1>7. PICK leave, r : leave.op = "leave" /\ t = Before(leave, r) /\ Ready(c, r, p, k, W)
  BY <1>5 DEF Closing
<1>8. PICK v, f : v = s.rules /\ f = v.field  OBVIOUS
<1>9. PICK n \in Nodes : /\ Leads(c, p, n) /\ v \in FieldsOf(n) /\ ~v.broken
                         /\ s.value = c[n][f] /\ s.value # NoValue
  BY <1>5, <1>8 DEF InField
<1>10. PICK j : j = s.next  OBVIOUS
<1>11. PICK key, x : key = s.value[j].key /\ x = s.value[j].value  OBVIOUS
<1>12. j \in DOMAIN s.value /\ key \in Keys /\ x # NoValue
  <2>1. Fits(TypeOf[n], v, s.value)  BY <1>5, <1>8, <1>9, ContentFits
  <2>2. IsEntries(s.value) /\ \A i \in DOMAIN s.value : s.value[i].value # NoValue
    BY <1>6, <1>8, <2>1 DEF Fits
  <2>3. IsSeq(s.value) /\ \A i \in DOMAIN s.value : s.value[i].key \in Keys
    BY <2>2 DEF IsEntries
  <2>4. Len(s.value) \in Nat /\ DOMAIN s.value = 1 .. Len(s.value)  BY <2>3 DEF IsSeq
  <2>5. ~(j > Len(s.value))  BY <1>2, <1>3, <1>10 DEF Ended
  <2>6. j \in Nat \ {0}  BY <1>2, <1>3, <1>5, <1>10 DEF IsTask
  <2>7. j \in DOMAIN s.value  BY <2>4, <2>5, <2>6
  <2> QED  BY <1>11, <2>2, <2>3, <2>7
<1>13. PICK q2 : q2 = Setting(q, key)  OBVIOUS
<1>14. /\ IsPath(q2) /\ q2 # <<>> /\ Parent(q2) = p /\ Len(q2) = Len(q)
       /\ LastOf(q2) = Element(LastOf(q).field, key)
  <2>1. key \in Subs  BY <1>12 DEF Subs
  <2> QED  BY <1>3, <1>5, <1>13, <2>1, SetLast
<1>15. LastOf(q2).field = f /\ LastOf(q2).sub = key
  BY <1>5, <1>8, <1>14 DEF Element
<1>16. Leads(c, q2, x) /\ LeadsToKey(c, q2, key)
  <2>1. /\ v.kind = "map" /\ j \in DOMAIN c[n][f] /\ x = c[n][f][j].value
        /\ c[n][f][j].key = key /\ c[n][f] # NoValue
    BY <1>6, <1>8, <1>9, <1>11, <1>12
  <2>2. Gives(c, n, LastOf(q2), x)  BY <1>8, <1>9, <1>12, <1>15, <2>1 DEF Gives
  <2>3. GivesKey(c, n, LastOf(q2), key)  BY <1>8, <1>9, <1>15, <2>1 DEF GivesKey
  <2>4. Leads(c, q2, x)  BY <1>9, <1>14, <2>2, LeadsOn
  <2> QED  BY <1>9, <1>14, <2>3, <2>4 DEF LeadsToKey
<1>17. \A item \in {v.keys, v.values} :
         item # NoItem => \A rule \in RulesIn(item.value) : RuleAt(c, q2, rule)
  <2>1. \A rule \in FieldRulesOf(v) : RuleAt(c, q2, rule)
    BY <1>8, <1>9, <1>14, <1>15, RuleIsAt
  <2> QED  BY <2>1, RulesAre
<1>18. PICK tk, tv, ts :
         /\ tk = [op |-> "key", item |-> v.keys, value |-> key]
         /\ tv = [op |-> "entryValue", item |-> v.values, value |-> x]
         /\ ts = [op |-> "subscript", recorded |-> Len(list), key |-> key]
  OBVIOUS
<1>19. /\ tk.op = "key" /\ tk.item = v.keys /\ tk.value = key
       /\ tv.op = "entryValue" /\ tv.item = v.values /\ tv.value = x
       /\ ts.op = "subscript" /\ ts.recorded = Len(list) /\ ts.key = key
  BY <1>18
<1>20. Container(u) /\ u.op = "entries" /\ Claim(c, Place(u, q, k))
  BY <1>2, <1>3, <1>4, <1>5, <1>6, OnwardIs
<1>21. PICK w : w = Before(u, t)  OBVIOUS
<1>22. Ready(c, w, q, k, W)  BY <1>3, <1>5, <1>6, <1>7, <1>20, <1>21, ReadyInside
<1>23. IsSeq(t)
  <2>1. IsSeq(Tail(todo))  BY <1>2, TailIs DEF TypeOK
  <2> QED  BY <1>3, <2>1
<1>24. w # <<>> /\ Head(w).op = "entries"  BY <1>20, <1>21, <1>23, BeforeIs
<1>25. /\ Len(q) \in Nat /\ DOMAIN q = 1 .. Len(q) /\ Len(q) > 0 /\ Len(p) = Len(q) - 1
  BY <1>3, <1>5, ParentIs
<1>26. \A d \in W : Len(d.path) # Len(q)  BY <1>5, <1>25 DEF Subscripted
<1>27. PICK a, V : a = Place(ts, q2, k) /\ V = W \cup {a}  OBVIOUS
<1>28. a.task = ts /\ a.path = q2  BY <1>27 DEF Place
<1>29. PICK z : z = Before(ts, w)  OBVIOUS
<1>30. Ready(c, z, q2, k, V)
  <2>1. q2 = Setting(q, ts.key) /\ ts.key \in Keys /\ ts.op = "subscript"
    BY <1>12, <1>13, <1>19
  <2>2. Ready(c, Before(ts, w), q2, k, W \cup {Place(ts, q2, k)})
    BY <1>5, <1>6, <1>22, <1>24, <1>26, <2>1, ReadySubscript
  <2> QED  BY <1>27, <1>29, <2>2
<1>31. Ready(c, Before(tv, z), q2, k, V)
  <2>1. PICK b : b = Place(tv, q2, k)  OBVIOUS
  <2>2. b.task = tv /\ b.path = q2 /\ b.key = FALSE  BY <1>6, <2>1 DEF Place
  <2>3. Claim(c, b) /\ Steady(b)  BY <1>14, <1>16, <1>17, <1>19, <2>2 DEF Claim, Steady
  <2> QED  BY <1>30, <2>1, <2>3, ReadySteady
<1>32. Ready(c, Before(tk, Before(tv, z)), q2, k, V)
  <2>1. PICK b : b = Place(tk, q2, k)  OBVIOUS
  <2>2. b.task = tk /\ b.path = q2 /\ b.key = FALSE  BY <1>6, <2>1 DEF Place
  <2>3. Claim(c, b) /\ Steady(b)  BY <1>14, <1>16, <1>17, <1>19, <2>2 DEF Claim, Steady
  <2> QED  BY <1>31, <2>1, <2>3, ReadySteady
<1>33. todo' = Before(tk, Before(tv, z))
  <2>1. <<tk, tv, ts, u>> \o t = Before(tk, Before(tv, Before(ts, Before(u, t))))
    BY <1>23, BeforeFour
  <2>2. Then(<<tk, tv, ts, u>>)
    BY <1>3, <1>8, <1>10, <1>11, <1>18 DEF Entry
  <2> QED  BY <1>3, <1>21, <1>29, <2>1, <2>2 DEF Then
<1>34. PICK m \in Nat : m = Len(list)  BY DEF TypeOK, IsSeq
<1>35. a.task.recorded = m /\ Len(a.path) = Len(q)  BY <1>14, <1>19, <1>28, <1>34
<1>36. path' = Without(q2, Depths(V, Len(list) + 1))
  <2>1. PICK D, E : D = Depths(W, m + 1) /\ E = Depths(V, m + 1)  OBVIOUS
  <2>2. \A i : i \in E <=> i \in D \/ i = Len(q)
    <3>1. m < m + 1  BY <1>34
    <3> QED  BY <1>27, <1>35, <2>1, <3>1 DEF Depths
  <2>3. \A i \in DOMAIN q : i # Len(q) => (i \in D <=> i \in E)  BY <2>2
  <2>4. Len(q) \in E  BY <2>2
  <2>5. Without(q2, E) = Without(q, D)
    BY <1>5, <1>6, <1>12, <1>13, <2>3, <2>4, WithoutHidden
  <2> QED  BY <1>2, <1>5, <1>34, <2>1, <2>5
<1>37. \A d \in V : d.task.recorded \in 0 .. Len(list)
  BY <1>1, <1>3, <1>27, <1>34, <1>35 DEF Explained
<1>38. Accounted(V, ps)
  <2>1. Accounted(W, ps)  BY <1>1, <1>3 DEF Explained
  <2>2. DOMAIN list = 1 .. m  BY <1>34 DEF TypeOK, IsSeq
  <2>3. ASSUME NEW i \in 1 .. m
        PROVE  Depths(V, i) = Depths(W, i) /\ ~(a.task.recorded < i)
    <3>1. ~(m < i)  BY <2>3
    <3> QED  BY <1>27, <1>35, <3>1 DEF Depths
  <2> QED  BY <1>27, <2>1, <2>2, <2>3 DEF Accounted
<1>39. k = forKey' /\ UNCHANGED <<content, fails, list>>  BY <1>2, <1>3
<1>40. Ready(c, todo', q2, k, V)  BY <1>32, <1>33
<1> QED  BY <1>1, <1>3, <1>36, <1>37, <1>38, <1>39, <1>40, ReadyExplained

\* A key, about which the walk is until it is done.
LEMMA KeyExplained == ASSUME TypeOK, Explains, Key PROVE Explains'
<1>1. PICK A, ps : Explained(A, ps)  BY DEF Explains
<1>2. /\ todo # <<>> /\ task.op = "key" /\ task.item # NoItem /\ forKey' = TRUE
      /\ Then(<<ItemTask(task.item, task.value), [op |-> "keyDone"]>>)
      /\ UNCHANGED <<content, fails, list, path>>
  BY DEF Key, EntrySkipped, Doing, task, input
<1>3. PICK c, q, k, W, t : c = content /\ q = A[1].path /\ k = A[1].key /\ W = Owed(A) /\ t = Tail(todo)
  OBVIOUS
<1>4. /\ IsPath(q) /\ path = Without(q, Depths(W, Len(list) + 1))
      /\ A[1].task = task /\ k = forKey /\ Claim(c, A[1])
      /\ Steady(A[1]) => Ready(c, t, q, k, W)
  BY <1>1, <1>2, <1>3, RestReady
<1>5. PICK s : s = task  OBVIOUS
<1>6. /\ LeadsToKey(c, q, s.value) /\ k = FALSE
      /\ \A r \in RulesIn(s.item.value) : RuleAt(c, q, r)
  BY <1>2, <1>3, <1>4, <1>5 DEF Claim
<1>7. Ready(c, t, q, k, W)  BY <1>2, <1>4 DEF Steady
<1>8. PICK value, done :
        value = ItemTask(s.item, s.value) /\ done = [op |-> "keyDone"]
  OBVIOUS
<1>9. value.op = "value" /\ value.rules = s.item.value /\ value.value = s.value
      /\ done.op = "keyDone"
  BY <1>8 DEF ItemTask
<1>10. PICK j : j = TRUE  OBVIOUS
<1>11. Ready(c, Before(done, t), q, j, W)  BY <1>4, <1>6, <1>7, <1>9, <1>10, ReadyKeyDone
<1>12. Ready(c, Before(value, Before(done, t)), q, j, W)
  <2>1. PICK a : a = Place(value, q, j)  OBVIOUS
  <2>2. a.task = value /\ a.path = q /\ a.key = TRUE  BY <1>10, <2>1 DEF Place
  <2>3. At(c, q, value.value, a.key)  BY <1>6, <1>9, <2>2 DEF At
  <2>4. Claim(c, a) /\ Steady(a)  BY <1>4, <1>6, <1>9, <2>2, <2>3 DEF Claim, Steady
  <2> QED  BY <1>11, <2>1, <2>4, ReadySteady
<1>13. todo' = Before(value, Before(done, t))
  <2>1. IsSeq(Tail(todo))  BY <1>2, TailIs DEF TypeOK
  <2>2. IsSeq(t)  BY <1>3, <2>1
  <2>3. <<value, done>> \o t = Before(value, Before(done, t))  BY <2>2, BeforeTwo
  <2>4. Then(<<value, done>>)  BY <1>2, <1>5, <1>8
  <2> QED  BY <1>3, <2>3, <2>4 DEF Then
<1>14. path' = Without(q, Depths(W, Len(list) + 1))  BY <1>2, <1>4
<1>15. j = forKey' /\ UNCHANGED <<content, fails, list>>  BY <1>2, <1>10
<1>16. Ready(c, todo', q, j, W)  BY <1>12, <1>13
<1> QED  BY <1>1, <1>3, <1>14, <1>15, <1>16, ReadyMoves

\* The end of a task leaves those after it.
LEMMA NextIs ==
  ASSUME TypeOK, todo # <<>>, Then(<<>>), NEW A, NEW ps, Explained(A, ps), NEW T, T = Tail(A)
  PROVE  todo' = TasksOf(T) /\ Placed(content, T)
<1>1. Tail(todo) = TasksOf(T) /\ Placed(content, T)  BY AtHand
<1>2. IsSeq(Tail(todo))  BY TailIs DEF TypeOK
<1>3. <<>> \o Tail(todo) = Tail(todo)  BY <1>2, ConcatEmptySeq DEF IsSeq
<1> QED  BY <1>1, <1>3 DEF Then

\* The end of a key.
LEMMA KeyDoneExplained == ASSUME TypeOK, Explains, KeyDone PROVE Explains'
<1>1. PICK A, ps : Explained(A, ps)  BY DEF Explains
<1>2. /\ todo # <<>> /\ task.op = "keyDone" /\ forKey' = FALSE /\ Then(<<>>)
      /\ UNCHANGED <<content, fails, list, path>>
  BY DEF KeyDone, Returning, task, input
<1>3. PICK T : T = Tail(A)  OBVIOUS
<1>4. /\ A[1].task = task /\ Placed(content, T)
      /\ path = Without(A[1].path, Depths(Owed(A), Len(list) + 1))
      /\ T # <<>> => Link(A[1], T[1])
      /\ Owed(A) = Owed(T) \cup (IF A[1].task.op = "subscript" THEN {A[1]} ELSE {})
  BY <1>1, <1>2, <1>3, AtHand
<1>5. Owed(T) = Owed(A)  BY <1>2, <1>4
<1>6. T # <<>> => T[1].path = A[1].path /\ T[1].key = FALSE
  BY <1>2, <1>4 DEF Link
<1>7. todo' = TasksOf(T)  BY <1>1, <1>2, <1>3, NextIs
<1>8. T # <<>> => /\ T[1].key = forKey'
                  /\ path' = Without(T[1].path, Depths(Owed(A), Len(list) + 1))
  BY <1>2, <1>4, <1>6
<1>9. Explained(T, ps)'  BY <1>1, <1>2, <1>4, <1>5, <1>7, <1>8, Moves
<1> QED  BY <1>9 DEF Explains

\* The end of a field: the walk is at its message again.
LEMMA LeaveExplained == ASSUME TypeOK, Explains, Leave PROVE Explains'
<1>1. PICK A, ps : Explained(A, ps)  BY DEF Explains
<1>2. /\ todo # <<>> /\ task.op = "leave" /\ path' = Parent(path) /\ Then(<<>>)
      /\ UNCHANGED <<content, fails, list, forKey>>
  BY DEF Leave, Returning, task, input, Parent
<1>3. PICK T, q, D : T = Tail(A) /\ q = A[1].path /\ D = Depths(Owed(A), Len(list) + 1)
  OBVIOUS
<1>4. /\ A[1].task = task /\ A[1].key = forKey /\ Placed(content, T) /\ Claim(content, A[1])
      /\ path = Without(q, D) /\ IsPath(q)
      /\ T # <<>> => Link(A[1], T[1])
      /\ Owed(A) = Owed(T) \cup (IF A[1].task.op = "subscript" THEN {A[1]} ELSE {})
  BY <1>1, <1>2, <1>3, AtHand
<1>5. Owed(T) = Owed(A)  BY <1>2, <1>4
<1>6. T # <<>> => q # <<>> /\ T[1].path = Parent(q) /\ T[1].key = A[1].key
  BY <1>2, <1>3, <1>4 DEF Link, Claim
<1>7. todo' = TasksOf(T)  BY <1>1, <1>2, <1>3, NextIs
<1>8. T # <<>> => path' = Without(T[1].path, D)
  BY <1>2, <1>4, <1>6, WithoutParent
<1>9. T # <<>> => /\ T[1].key = forKey'
                  /\ path' = Without(T[1].path, Depths(Owed(A), Len(list) + 1))
  BY <1>2, <1>3, <1>4, <1>6, <1>8
<1>10. Explained(T, ps)'  BY <1>1, <1>2, <1>4, <1>5, <1>7, <1>9, Moves
<1> QED  BY <1>10 DEF Explains

\* Paths that differ by a subscript that is left out, or is none.
LEMMA WithoutSame ==
  ASSUME NEW p, NEW D, NEW q, NEW E, DOMAIN q = DOMAIN p,
         \A i \in DOMAIN p :
           /\ q[i].field = p[i].field
           /\ \/ i \in E /\ (i \in D \/ p[i].sub = NoSub)
              \/ i \notin E /\ i \notin D /\ q[i].sub = p[i].sub
  PROVE  Without(q, E) = Without(p, D)
<1>1. \A i \in DOMAIN p :
        Element(q[i].field, IF i \in E THEN NoSub ELSE q[i].sub)
        = Element(p[i].field, IF i \in D THEN NoSub ELSE p[i].sub)
  OBVIOUS
<1> QED  BY <1>1 DEF Without

\* A subscript that is on the path appears once it is set.
LEMMA WithoutThen ==
  ASSUME NEW p, IsPath(p), NEW d \in DOMAIN p, NEW sub, sub \in Subs, p[d].sub = sub,
         NEW D, NEW E, d \notin E, \A i \in DOMAIN p : i # d => (i \in D <=> i \in E)
  PROVE  SetAt(Without(p, D), d, sub) = Without(p, E)
<1>1. p = SetAt(p, d, sub)
  <2>1. p \in Seq(Elements) /\ DOMAIN p = 1 .. Len(p)  BY ParentIs, PathIs
  <2>2. p[d] \in Elements  BY <2>1
  <2>3. p[d] = [p[d] EXCEPT !.sub = sub]  BY <2>2 DEF Elements
  <2>4. p = [p EXCEPT ![d] = p[d]]  BY <2>1
  <2> QED  BY <2>3, <2>4 DEF SetAt
<1> QED  BY ONLY <1>1, IsPath(p), d \in DOMAIN p, sub \in Subs, d \notin E,
                 \A i \in DOMAIN p : i # d => (i \in D <=> i \in E), WithoutSet

\* The end of an entry: its subscript is set on its violations, and is no more
\* on the path.
LEMMA SubscriptExplained == ASSUME TypeOK, Explains, Subscript PROVE Explains'
<1>1. PICK A, ps : Explained(A, ps)  BY DEF Explains
<1>2. /\ todo # <<>> /\ task.op = "subscript" /\ Then(<<>>)
      /\ list' = [i \in DOMAIN list |->
           IF i > task.recorded THEN [list[i] EXCEPT !.path[Len(path)].sub = task.key] ELSE list[i]]
      /\ UNCHANGED <<content, fails, path, forKey>>
  BY DEF Subscript, Returning, task, input
<1>3. PICK T, a, q, V, c : T = Tail(A) /\ a = A[1] /\ q = a.path /\ V = Owed(A) /\ c = content
  OBVIOUS
<1>4. /\ a.task = task /\ a.key = forKey /\ Placed(c, T) /\ Claim(c, a) /\ IsTask(task)
      /\ path = Without(q, Depths(V, Len(list) + 1)) /\ IsPath(q)
      /\ T # <<>> /\ Link(a, T[1])
  BY <1>1, <1>2, <1>3, AtHand
<1>5. PICK W : W = Owed(T)  OBVIOUS
<1>6. V = W \cup {a} /\ a \in V /\ \A d \in V : Subscripted(q, d)
  <2>1. /\ Owed(A) = Owed(T) \cup (IF A[1].task.op = "subscript" THEN {A[1]} ELSE {})
        /\ \A d \in Owed(A) : Subscripted(A[1].path, d)
    BY <1>1, <1>2, <1>3, AtHand
  <2> QED  BY <1>2, <1>3, <1>4, <1>5, <2>1
<1>7. PICK m, key : m = task.recorded /\ key = task.key /\ key \in Keys
  BY <1>2, <1>4 DEF IsTask
<1>8. PICK l \in Nat : l = Len(list)  BY DEF TypeOK, IsSeq
<1>9. m \in 0 .. l  BY <1>1, <1>3, <1>4, <1>6, <1>7, <1>8 DEF Explained
<1>10. PICK r : r = Setting(q, NoSub)  OBVIOUS
<1>11. T[1].path = r /\ T[1].key = a.key /\ q # <<>> /\ T[1].task.op = "entries"
  BY <1>2, <1>3, <1>4, <1>10 DEF Link, Claim
<1>12. /\ IsPath(r) /\ r # <<>> /\ Len(r) = Len(q) /\ DOMAIN r = DOMAIN q
       /\ \A i \in DOMAIN q : i # Len(q) => r[i] = q[i]
       /\ r[Len(q)] = Element(LastOf(q).field, NoSub)
  <2>1. NoSub \in Subs  BY DEF Subs
  <2> QED  BY <1>4, <1>10, <1>11, <2>1, SetLast
<1>13. PICK n : n = Len(q)  OBVIOUS
<1>14. n \in Nat /\ DOMAIN q = 1 .. n /\ n > 0 /\ LastOf(q) = q[n]
  BY <1>4, <1>11, <1>13, ParentIs
<1>15. \A d \in W : Len(d.path) \in 1 .. n - 1
  <2>1. PICK p, k, t : p = Parent(r) /\ k = T[1].key /\ t = TasksOf(Tail(T))  OBVIOUS
  <2>2. Container(T[1].task)  BY <1>11 DEF Container
  <2>3. r = T[1].path  BY <1>11
  <2>4. \A d \in W : Subscripted(p, d)
    BY <1>4, <1>5, <2>1, <2>2, <2>3, ContainerRest
  <2>5. Len(p) = n - 1  BY <1>12, <1>13, <2>1, ParentIs
  <2> QED  BY <2>4, <2>5 DEF Subscripted
<1>16. a.task.recorded = m /\ a.task.key = key /\ Len(a.path) = n
  BY <1>3, <1>4, <1>7, <1>13
<1>17. \A i : /\ n \notin Depths(W, i)
              /\ \A d : d # n => (d \in Depths(V, i) <=> d \in Depths(W, i))
              /\ m < i => n \in Depths(V, i)
              /\ ~(m < i) => Depths(V, i) = Depths(W, i)
  <2> SUFFICES ASSUME NEW i
               PROVE  /\ n \notin Depths(W, i)
                      /\ \A d : d # n => (d \in Depths(V, i) <=> d \in Depths(W, i))
                      /\ m < i => n \in Depths(V, i)
                      /\ ~(m < i) => Depths(V, i) = Depths(W, i)
    OBVIOUS
  <2>1. n \notin Depths(W, i)
    <3>1. \A d \in W : Len(d.path) # n  BY <1>14, <1>15
    <3> QED  BY <3>1 DEF Depths
  <2>2. Depths(V, i) = Depths(W, i) \cup (IF m < i THEN {n} ELSE {})
    BY <1>6, <1>16 DEF Depths
  <2> QED  BY <2>1, <2>2
<1>18. Without(q, Depths(V, l + 1)) = Without(r, Depths(W, l + 1))
  <2>1. PICK D, E : D = Depths(W, l + 1) /\ E = Depths(V, l + 1)  OBVIOUS
  <2>2. m < l + 1  BY <1>8, <1>9
  <2>3. n \in E /\ n \notin D /\ \A d : d # n => (d \in E <=> d \in D)
    BY <1>17, <2>1, <2>2
  <2>4. ASSUME NEW i \in DOMAIN r
        PROVE  /\ q[i].field = r[i].field
               /\ \/ i \in E /\ (i \in D \/ r[i].sub = NoSub)
                  \/ i \notin E /\ i \notin D /\ q[i].sub = r[i].sub
    <3>1. CASE i = n
      <4>1. r[i] = Element(q[i].field, NoSub)  BY <1>12, <1>13, <1>14, <3>1
      <4>2. r[i].field = q[i].field /\ r[i].sub = NoSub  BY <4>1 DEF Element
      <4> QED  BY <2>3, <3>1, <4>2
    <3>2. CASE i # n
      <4>1. r[i] = q[i]  BY <1>12, <1>13, <3>2
      <4> QED  BY <2>3, <3>2, <4>1
    <3> QED  BY <3>1, <3>2
  <2>5. Without(q, E) = Without(r, D)  BY <1>12, <2>4, WithoutSame
  <2> QED  BY <2>1, <2>5
<1>19. Len(path) = n  BY <1>4, <1>13, WithoutIs
<1>20. /\ DOMAIN list = 1 .. l /\ DOMAIN list' = 1 .. l /\ Len(list') = l
       /\ \A i \in DOMAIN list : IsViolation(list[i])
  <2>1. DOMAIN list = 1 .. l /\ \A i \in DOMAIN list : IsViolation(list[i])
    BY <1>8 DEF TypeOK, IsSeq
  <2>2. DOMAIN list' = 1 .. l  BY <1>2, <2>1
  <2>3. list' = [i \in 1 .. l |-> list'[i]]  BY <1>2, <2>1
  <2>4. IsSeq(list')  BY <2>3, IndexedIs
  <2>5. Len(list') = l  BY <2>2, <2>4 DEF IsSeq
  <2> QED  BY <2>1, <2>2, <2>5
<1>21. Accounted(V, ps)  BY <1>1, <1>3 DEF Explained
<1>22. Accounted(W, ps)'
  <2> SUFFICES ASSUME NEW i \in DOMAIN list'
               PROVE  /\ Blamed(content', fails', list'[i].rule, list'[i].key, ps[i])
                      /\ list'[i].path = Without(ps[i], Depths(W, i))
                      /\ \A s \in W : s.task.recorded < i => Subscripted(ps[i], s)
    BY DEF Accounted
  <2>1. i \in 1 .. l /\ i \in DOMAIN list /\ IsViolation(list[i])  BY <1>20
  <2>2. /\ Blamed(content, fails, list[i].rule, list[i].key, ps[i])
        /\ list[i].path = Without(ps[i], Depths(V, i))
        /\ \A s \in V : s.task.recorded < i => Subscripted(ps[i], s)
    BY <1>21, <2>1 DEF Accounted
  <2>3. CASE m < i
    <3>1. PICK v : v = list[i]  OBVIOUS
    <3>2. i > task.recorded  BY <1>7, <1>8, <1>9, <2>1, <2>3
    <3>3. list'[i] = [v EXCEPT !.path[n].sub = key]
      BY <1>2, <1>7, <1>19, <2>1, <3>1, <3>2
    <3>4. v = [path |-> v.path, rule |-> v.rule, key |-> v.key]
      BY <2>1, <3>1 DEF IsViolation
    <3>5. /\ list'[i].rule = v.rule /\ list'[i].key = v.key
          /\ list'[i].path = SetAt(v.path, n, key)
      BY <3>3, <3>4 DEF SetAt
    <3>6. PICK p, D, E : p = ps[i] /\ D = Depths(V, i) /\ E = Depths(W, i)  OBVIOUS
    <3>7. IsPath(p)  BY <2>2, <3>6 DEF Blamed
    <3>8. n \in DOMAIN p /\ p[n].sub = key
      <4>1. Subscripted(p, a)  BY <1>6, <1>16, <2>2, <2>3, <3>6
      <4>2. DOMAIN p = 1 .. Len(p)  BY <3>7, ParentIs
      <4> QED  BY <1>16, <4>1, <4>2 DEF Subscripted
    <3>9. n \notin E /\ \A d \in DOMAIN p : d # n => (d \in D <=> d \in E)
      BY <1>17, <3>6
    <3>10. key \in Subs  BY <1>7 DEF Subs
    <3>11. SetAt(Without(p, D), n, key) = Without(p, E)
      BY ONLY <3>7, <3>8, <3>9, <3>10, WithoutThen
    <3>12. list'[i].path = Without(p, E)  BY <2>2, <3>1, <3>5, <3>6, <3>11
    <3> QED  BY <1>2, <1>6, <2>2, <3>1, <3>5, <3>6, <3>12
  <2>4. CASE ~(m < i)
    <3>1. ~(i > task.recorded)  BY <1>7, <1>8, <1>9, <2>1, <2>4
    <3>2. list'[i] = list[i]  BY <1>2, <2>1, <3>1
    <3>3. Depths(V, i) = Depths(W, i)  BY <1>17, <2>4
    <3> QED  BY <1>2, <1>6, <2>2, <3>2, <3>3
  <2> QED  BY <2>3, <2>4
<1>23. Placed(content', T) /\ todo' = TasksOf(T)  BY <1>1, <1>2, <1>3, <1>4, NextIs
<1>24. T[1].key = forKey' /\ path' = Without(T[1].path, Depths(Owed(T), Len(list') + 1))
  BY <1>2, <1>4, <1>5, <1>8, <1>11, <1>18, <1>20
<1>25. \A s \in Owed(T) : s.task.recorded \in 0 .. Len(list')
  BY <1>1, <1>3, <1>5, <1>6, <1>8, <1>20 DEF Explained
<1>26. Explained(T, ps)'
  BY <1>5, <1>22, <1>23, <1>24, <1>25 DEF Explained
<1> QED  BY <1>26 DEF Explains

\* Before the walk: the message validated, at the empty path.
LEMMA ExplainsInitial == Init => Explains
<1> SUFFICES ASSUME Init PROVE Explains
  OBVIOUS
<1>1. PICK c, s, q, k, W :
        /\ c = content /\ s = [op |-> "message", node |-> Root]
        /\ q = <<>> /\ k = FALSE /\ W = {}
  OBVIOUS
<1>2. PICK t : t = <<>>  OBVIOUS
<1>3. IsSeq(t)  BY <1>2 DEF IsSeq
<1>4. Ready(c, t, q, k, W)
  <2>1. Placed(c, <<>>) /\ Owed(<<>>) = {}  BY PlacedNone
  <2>2. TasksOf(<<>>) = <<>>  BY DEF TasksOf
  <2>3. Begins(<<>>, q, k) /\ Owes(<<>>, q)  BY <2>1 DEF Begins, Owes
  <2> QED  BY <1>1, <1>2, <2>1, <2>2, <2>3 DEF Ready
<1>5. s.op = "message" /\ s.node = Root  BY <1>1
<1>6. IsPath(q)  BY <1>1 DEF IsPath, IsSeq
<1>7. Ready(c, Before(s, t), q, k, W)
  <2>1. PICK a : a = Place(s, q, k)  OBVIOUS
  <2>2. a.task = s /\ a.path = q /\ a.key = FALSE  BY <1>1, <2>1 DEF Place
  <2>3. Root \in Nodes  BY CompiledAssumption
  <2>4. Leads(c, q, Root)
    <3>1. Leads(c, <<>>, Root)  BY LeadsNowhere
    <3> QED  BY <1>1, <3>1
  <2>5. Claim(c, a) /\ Steady(a)  BY <1>5, <1>6, <2>2, <2>3, <2>4 DEF Claim, Steady
  <2> QED  BY <1>4, <2>1, <2>5, ReadySteady
<1>8. todo = Before(s, t)
  <2>1. <<s>> \o <<>> = <<s>>
    <3>1. <<s>> \in Seq({s})  OBVIOUS
    <3> QED  BY <3>1, ConcatEmptySeq
  <2>2. <<s>> \o t = Before(s, t)  BY <1>3, BeforeIs
  <2> QED  BY <1>1, <1>2, <2>1, <2>2 DEF Init
<1>9. PICK B : /\ Placed(c, B) /\ TasksOf(B) = todo /\ Owed(B) = W /\ Begins(B, q, k)
  BY <1>7, <1>8 DEF Ready
<1>10. B # <<>> => B[1].key = forKey /\ path = Without(B[1].path, Depths(Owed(B), Len(list) + 1))
  <2> SUFFICES ASSUME B # <<>>
               PROVE  B[1].key = forKey /\ path = Without(B[1].path, Depths(Owed(B), Len(list) + 1))
    OBVIOUS
  <2>1. B[1].path = q /\ B[1].key = FALSE  BY <1>1, <1>9 DEF Begins
  <2>2. Depths(Owed(B), Len(list) + 1) = {}  BY <1>1, <1>9 DEF Depths
  <2>3. path = q /\ forKey = FALSE  BY <1>1 DEF Init
  <2>4. Without(q, {}) = q  BY <1>6, WithoutNone
  <2> QED  BY <2>1, <2>2, <2>3, <2>4
<1>11. \A s2 \in Owed(B) : s2.task.recorded \in 0 .. Len(list)  BY <1>1, <1>9
<1>12. Accounted(Owed(B), <<>>)
  <2>1. DOMAIN list = {}  BY DEF Init
  <2> QED  BY <2>1 DEF Accounted
<1>13. Explained(B, <<>>)
  BY <1>1, <1>9, <1>10, <1>11, <1>12 DEF Explained
<1> QED  BY <1>13 DEF Explains

\* Every step of the walk keeps the violations explained.
LEMMA StepExplained == TypeOK /\ Explains /\ [Next]_vars => Explains'
<1> SUFFICES ASSUME TypeOK, Explains, [Next]_vars PROVE Explains'
  OBVIOUS
<1>1. CASE UNCHANGED vars
  <2>1. PICK A, ps : Explained(A, ps)  BY DEF Explains
  <2>2. UNCHANGED <<content, fails, list, todo, path, forKey>>  BY <1>1 DEF vars
  <2>3. Accounted(Owed(A), ps)'  BY <2>1, <2>2 DEF Explained, Accounted
  <2>4. Explained(A, ps)'  BY <2>1, <2>2, <2>3 DEF Explained
  <2> QED  BY <2>4 DEF Explains
<1>2. CASE Message \/ Check \/ Oneof \/ OneofRequired \/ FieldMissing
  BY <1>2, MessageExplained, CheckExplained, OneofExplained, RequiredExplained, MissingExplained
<1>3. CASE FieldBroken \/ FieldSkipped \/ ContainerEnd \/ PartSkipped \/ Unwind \/ Raise
  BY <1>3, DroppedExplained
<1>4. CASE FieldEntered \/ Value \/ Inside
  BY <1>4, FieldExplained, ValueExplained, InsideExplained
<1>5. CASE ItemSkipped \/ Item \/ Entry \/ Key \/ EntryValue
  BY <1>5, ItemSkippedExplained, ItemExplained, EntryExplained, KeyExplained, EntryValueExplained
<1>6. CASE Leave \/ KeyDone \/ Subscript
  BY <1>6, LeaveExplained, KeyDoneExplained, SubscriptExplained
<1> QED  BY <1>1, <1>2, <1>3, <1>4, <1>5, <1>6 DEF Next, Step

\* The walk records every violation at a path that leads to what it is about:
\* through each field, item and entry, to the value or to the key.
THEOREM ViolationsExplained == Spec => []Explains
  BY ExplainsInitial, StepExplained, TypeCorrect, PTL DEF Spec

-----------------------------------------------------------------------------
(* The way back to a value.                                                *)

\* The message has the fields it had, and they hold what they may.
StillFits ==
  /\ message = [n \in Nodes |-> message[n]]
  /\ \A n \in Nodes :
       /\ message[n] = [f \in DOMAIN message[n] |-> message[n][f]]
       /\ DOMAIN message[n] = DOMAIN content[n]
       /\ \A v \in FieldsOf(n) : Fits(TypeOf[n], v, message[n][v.field])

\* The values ns that the elements of p before the i-th pass through.
Passes(c, p, i, ns) ==
  ns[1] = Root /\ \A j \in 1 .. i - 1 : Gives(c, ns[j], p[j], ns[j + 1])

\* The value is what the violation is about, if nothing was changed, or there is
\* none, if an error was swallowed on the way.
Arrived(x) ==
  changes = 0 /\ violation.path # <<>> =>
    IF "field" \in swallowed THEN x = NoValue
    ELSE \A y : At(content, violation.path, y, violation.key) => x = y

\* The walk along the path is where the path leads, if nothing was changed; if
\* something was, at a message of the same type.
Underway ==
  hop.next \in 1 .. Len(violation.path) =>
    \A ns : Passes(content, violation.path, hop.next, ns) =>
      /\ changes = 0 => hop.value = ns[hop.next]
      /\ hop.value \in Nodes /\ ns[hop.next] \in Nodes =>
           TypeOf[hop.value] = TypeOf[ns[hop.next]]

\* At the end it is at the field the path ends at, which is no oneof.
Landed ==
  hop.next = Len(violation.path) + 1 /\ hop.value # NoValue =>
    LET p == violation.path IN
    /\ p # <<>> /\ hop.leaf # None /\ hop.leaf.field = LastOf(p).field
    /\ \A ns : Passes(content, p, Len(p), ns) /\ ns[Len(p)] \in Nodes =>
         hop.leaf.type = TypeOf[ns[Len(p)]]
    /\ \A i \in DOMAIN Compiled[hop.leaf.type].required :
         Compiled[hop.leaf.type].required[i].name # LastOf(p).field

\* A swallowed error ends the way.
OnTheWay ==
  /\ swallowed \subseteq {"field"}
  /\ swallowed # {} => hop.next = Len(violation.path) + 1
  /\ hop.next \in 1 .. Len(violation.path) + 1
  /\ hop.next = Len(violation.path) + 1 => Arrived(hop.value)
  /\ Underway /\ Landed

Retraced ==
  /\ StillFits
  /\ changes = 0 => message = content
  /\ hop # None => OnTheWay
  /\ cell # None => Arrived(cell.field) /\ RuleOfValue

\* What an element gives is of the type its field holds.
LEMMA GivesIs ==
  ASSUME NEW c \in Messages, NEW n, NEW e, NEW y, Gives(c, n, e, y)
  PROVE  /\ n \in Nodes /\ y # NoValue
         /\ \E v \in FieldsOf(n) :
              /\ v.field = e.field /\ c[n][v.field] # NoValue
              /\ Fits(TypeOf[n], v, c[n][v.field])
              /\ Holds(TypeOf[n], v.field, y)
              /\ \/ e.sub = NoSub /\ y = c[n][v.field]
                 \/ /\ v.kind = "list" /\ e.sub \in Nat /\ e.sub + 1 \in DOMAIN c[n][v.field]
                    /\ y = c[n][v.field][e.sub + 1]
                 \/ /\ v.kind = "map" /\ e.sub \in Keys
                    /\ \E i \in DOMAIN c[n][v.field] :
                         c[n][v.field][i].key = e.sub /\ y = c[n][v.field][i].value
<1>1. n \in Nodes /\ y # NoValue  BY DEF Gives
<1>2. PICK v \in FieldsOf(n) :
        /\ v.field = e.field /\ c[n][v.field] # NoValue
        /\ \/ e.sub = NoSub /\ y = c[n][v.field]
           \/ /\ v.kind = "list" /\ e.sub \in Nat /\ e.sub + 1 \in DOMAIN c[n][v.field]
              /\ y = c[n][v.field][e.sub + 1]
           \/ /\ v.kind = "map"
              /\ \E i \in DOMAIN c[n][v.field] :
                   c[n][v.field][i].key = e.sub /\ y = c[n][v.field][i].value
  BY DEF Gives
<1>3. PICK x, t : x = c[n][v.field] /\ t = TypeOf[n]  OBVIOUS
<1>4. Fits(t, v, x)  BY <1>1, <1>3, ContentFits
<1>5. CASE e.sub = NoSub /\ y = x
  <2>1. Holds(t, v.field, y)  BY <1>4, <1>5 DEF Fits
  <2> QED  BY <1>1, <1>2, <1>3, <1>4, <1>5, <2>1
<1>6. CASE v.kind = "list" /\ e.sub \in Nat /\ e.sub + 1 \in DOMAIN x /\ y = x[e.sub + 1]
  <2>1. Holds(t, v.field, y)  BY <1>4, <1>6 DEF Fits
  <2> QED  BY <1>1, <1>2, <1>3, <1>4, <1>6, <2>1
<1>7. ASSUME NEW i \in DOMAIN x, v.kind = "map", x[i].key = e.sub, y = x[i].value
      PROVE  Holds(t, v.field, y) /\ e.sub \in Keys
  <2>1. Holds(t, v.field, x[i].value) /\ IsEntries(x)  BY <1>4, <1>7 DEF Fits
  <2> QED  BY <1>7, <2>1 DEF IsEntries
<1> QED  BY <1>1, <1>2, <1>3, <1>4, <1>5, <1>6, <1>7

\* The element is the last of a key's path.
IsKey(last) == violation.key /\ last

\* An element leads where it gives, in the same message.
LEMMA FindsGiven ==
  ASSUME message = content, content \in Messages, NEW n, NEW e, NEW y, Gives(content, n, e, y),
         NEW last, ~IsKey(last), NEW x, x = Found(n, e, last)
  PROVE  x = y
<1>1. n \in Nodes /\ y # NoValue  BY GivesIs
<1>2. PICK v \in FieldsOf(n) :
        /\ v.field = e.field /\ content[n][v.field] # NoValue
        /\ Fits(TypeOf[n], v, content[n][v.field])
        /\ \/ e.sub = NoSub /\ y = content[n][v.field]
           \/ /\ v.kind = "list" /\ e.sub \in Nat /\ e.sub + 1 \in DOMAIN content[n][v.field]
              /\ y = content[n][v.field][e.sub + 1]
           \/ /\ v.kind = "map" /\ e.sub \in Keys
              /\ \E i \in DOMAIN content[n][v.field] :
                   content[n][v.field][i].key = e.sub /\ y = content[n][v.field][i].value
  BY GivesIs
<1>3. PICK f, z : f = e.field /\ z = content[n][f]  OBVIOUS
<1>4. f \in DOMAIN message[n]  BY <1>1, <1>2, <1>3, ContentFits
<1>5. Fetch(n, f) = z  BY <1>2, <1>3 DEF Fetch
<1>6. z # NoValue  BY <1>2, <1>3
<1>7. x = IF e.sub = NoSub THEN z ELSE ItemAt(f, z, e.sub)
  BY <1>1, <1>3, <1>4, <1>5, <1>6 DEF Found, IsKey
<1>8. CASE e.sub = NoSub /\ y = z  BY <1>7, <1>8
<1>9. CASE e.sub \in Nat /\ e.sub + 1 \in DOMAIN z /\ y = z[e.sub + 1]
  <2>1. e.sub # NoSub /\ e.sub \notin Keys  BY <1>9, DistinctAssumption
  <2> QED  BY <1>7, <1>9, <2>1 DEF ItemAt
<1>10. ASSUME v.kind = "map", e.sub \in Keys, NEW i \in DOMAIN z, z[i].key = e.sub, y = z[i].value
       PROVE  x = y
  <2>1. e.sub # NoSub  BY <1>10, DistinctAssumption
  <2>2. \A j \in DOMAIN z : z[j].key = z[i].key => j = i  BY <1>2, <1>3, <1>10 DEF Fits
  <2>3. PICK at : at = {j \in DOMAIN z : z[j].key = e.sub}  OBVIOUS
  <2>4. at = {i}  BY <1>10, <2>2, <2>3
  <2>5. (CHOOSE j \in at : TRUE) = i  BY <2>4
  <2>6. ItemAt(f, z, e.sub) = z[i].value  BY <1>10, <2>3, <2>4, <2>5 DEF ItemAt
  <2> QED  BY <1>7, <1>10, <2>1, <2>6
<1> QED  BY <1>2, <1>3, <1>8, <1>9, <1>10

\* The last element of a key's path leads to the key.
LEMMA FindsKey ==
  ASSUME message = content, content \in Messages, NEW n, NEW e, NEW y, GivesKey(content, n, e, y),
         NEW last, IsKey(last), NEW x, x = Found(n, e, last)
  PROVE  x = y
<1>1. PICK v \in FieldsOf(n) :
        /\ v.field = e.field /\ v.kind = "map" /\ content[n][v.field] # NoValue
  BY DEF GivesKey
<1>2. n \in Nodes /\ y = e.sub /\ y \in Keys  BY KeyIs DEF GivesKey
<1>3. PICK f, z : f = e.field /\ z = content[n][f]  OBVIOUS
<1>4. f \in DOMAIN message[n]  BY <1>1, <1>2, <1>3, ContentFits
<1>5. Fetch(n, f) = z /\ z # NoValue  BY <1>1, <1>3 DEF Fetch
<1>6. e.sub # NoSub  BY <1>2, DistinctAssumption
<1> QED  BY <1>2, <1>3, <1>4, <1>5, <1>6 DEF Found, IsKey

\* From messages of one type an element leads to messages of one type.
LEMMA FindsType ==
  ASSUME StillFits, content \in Messages, NEW m, NEW e, NEW y, Gives(content, m, e, y), y \in Nodes,
         NEW n \in Nodes, TypeOf[n] = TypeOf[m],
         NEW last, ~IsKey(last), NEW x, x = Found(n, e, last), x \in Nodes
  PROVE  TypeOf[x] = TypeOf[y]
<1>1. m \in Nodes  BY GivesIs
<1>2. PICK v \in FieldsOf(m) :
        /\ v.field = e.field
        /\ Holds(TypeOf[m], v.field, y)
        /\ \/ e.sub = NoSub
           \/ v.kind = "list" /\ e.sub \in Nat
           \/ v.kind = "map" /\ e.sub \in Keys
  BY GivesIs
<1>3. PICK t, f, z : t = TypeOf[n] /\ f = v.field /\ z = message[n][f]  OBVIOUS
<1>4. v \in FieldsOf(n)  BY <1>2 DEF FieldsOf
<1>5. Fits(t, v, z)  BY <1>3, <1>4 DEF StillFits
<1>6. TypeOf[y] = FieldType[t][f]  BY <1>2, <1>3 DEF Holds
<1>7. v.kind # "list" => Holds(t, f, Default[f])
  <2>1. PICK i \in DOMAIN Compiled[TypeOf[n]].fields : v = Compiled[TypeOf[n]].fields[i]
    BY <1>4 DEF FieldsOf
  <2> QED  BY <1>3, <2>1, ContentAssumption
<1>8. v.kind \in {"scalar", "message", "list", "map"}  BY <1>4, FieldIs
<1>9. PICK w : w = Fetch(n, f)  OBVIOUS
<1>10. Holds(t, f, w) /\ (z # NoValue => w = z) /\ (v.kind = "list" \/ v.kind = "map" => z # NoValue)
  <2>1. Holds(t, f, z) /\ (z = NoValue => v.kind \in {"scalar", "message"})
    BY <1>3, <1>5 DEF Fits
  <2>2. CASE z # NoValue  BY <1>3, <1>9, <2>1, <2>2 DEF Fetch
  <2>3. CASE z = NoValue
    <3>1. v.kind # "list" /\ v.kind # "map"  BY <2>1, <2>3
    <3>2. w = z \/ w = Default[f]  BY <1>3, <1>9 DEF Fetch
    <3> QED  BY <1>7, <2>1, <2>3, <3>1, <3>2
  <2> QED  BY <2>2, <2>3
<1>11. x # NoValue  BY DistinctAssumption
<1>12. w # NoValue /\ x = IF e.sub = NoSub THEN w ELSE ItemAt(f, w, e.sub)
  BY <1>2, <1>3, <1>9, <1>11 DEF Found, IsKey
<1>13. Holds(t, f, x)
  <2>1. CASE e.sub = NoSub  BY <1>10, <1>12, <2>1
  <2>2. CASE v.kind = "list" /\ e.sub \in Nat
    <3>1. e.sub # NoSub /\ e.sub \notin Keys /\ w = z  BY <1>10, <2>2, DistinctAssumption
    <3>2. x = IF e.sub + 1 \in DOMAIN w THEN w[e.sub + 1] ELSE NoValue
      BY <1>12, <3>1 DEF ItemAt
    <3>3. e.sub + 1 \in DOMAIN z /\ x = z[e.sub + 1]  BY <1>11, <3>1, <3>2
    <3> QED  BY <1>3, <1>5, <2>2, <3>3 DEF Fits
  <2>3. CASE v.kind = "map" /\ e.sub \in Keys
    <3>1. e.sub # NoSub /\ w = z  BY <1>10, <2>3, DistinctAssumption
    <3>2. PICK at : at = {i \in DOMAIN z : z[i].key = e.sub}  OBVIOUS
    <3>3. x = IF at # {} THEN z[CHOOSE i \in at : TRUE].value
              ELSE IF runtime = "google" THEN Default[f] ELSE NoValue
      BY <1>12, <2>3, <3>1, <3>2 DEF ItemAt
    <3>4. CASE at # {}
      <4>1. PICK i \in DOMAIN z : x = z[i].value  BY <3>2, <3>3, <3>4
      <4> QED  BY <1>3, <1>5, <2>3, <4>1 DEF Fits
    <3>5. CASE at = {}
      <4>1. x = Default[f]  BY <1>11, <3>3, <3>5
      <4> QED  BY <1>7, <2>3, <4>1
    <3> QED  BY <3>4, <3>5
  <2> QED  BY <1>2, <2>1, <2>2, <2>3
<1> QED  BY <1>6, <1>13 DEF Holds

\* A way one element further on.
LEMMA PassesOn ==
  ASSUME NEW c, NEW p, NEW i \in Nat, NEW j \in 1 .. i, NEW ns, Passes(c, p, i + 1, ns)
  PROVE  Passes(c, p, j, ns) /\ Gives(c, ns[j], p[j], ns[j + 1])
<1>1. j \in 1 .. (i + 1) - 1 /\ \A l \in 1 .. j - 1 : l \in 1 .. (i + 1) - 1  OBVIOUS
<1> QED  BY <1>1 DEF Passes

\* The way to the message whose field a path ends at, and to a value.
LEMMA ParentPasses ==
  ASSUME NEW c, NEW p, IsPath(p), p # <<>>, NEW n, Leads(c, Parent(p), n)
  PROVE  \E ns : Passes(c, p, Len(p), ns) /\ ns[Len(p)] = n
<1>1. /\ Len(p) \in Nat /\ Len(p) > 0 /\ Len(Parent(p)) = Len(p) - 1
      /\ \A i \in 1 .. Len(p) - 1 : Parent(p)[i] = p[i]
  BY ParentIs
<1>2. PICK ns : Follows(c, Parent(p), ns) /\ ns[Len(Parent(p)) + 1] = n  BY DEF Leads
<1>3. ns[Len(p)] = n  BY <1>1, <1>2
<1>4. Passes(c, p, Len(p), ns)  BY <1>1, <1>2 DEF Follows, Passes
<1> QED  BY <1>3, <1>4

\* What is at a path is given by its last element, where the rest leads.
LEMMA AtPasses ==
  ASSUME NEW c, NEW p, IsPath(p), p # <<>>, NEW y, NEW key, At(c, p, y, key)
  PROVE  \E ns : /\ Passes(c, p, Len(p), ns)
                 /\ ~key => Gives(c, ns[Len(p)], LastOf(p), y)
                 /\ key => GivesKey(c, ns[Len(p)], LastOf(p), y)
<1>1. Len(p) \in Nat /\ Len(p) > 0 /\ LastOf(p) = p[Len(p)]  BY ParentIs
<1>2. CASE key
  <2>1. PICK n \in Nodes : Leads(c, Parent(p), n) /\ GivesKey(c, n, LastOf(p), y)
    BY <1>2 DEF At, LeadsToKey
  <2>2. PICK ns : Passes(c, p, Len(p), ns) /\ ns[Len(p)] = n  BY <2>1, ParentPasses
  <2> QED  BY <1>2, <2>1, <2>2
<1>3. CASE ~key
  <2>1. Leads(c, p, y)  BY <1>3 DEF At
  <2>2. PICK ns : Follows(c, p, ns) /\ ns[Len(p) + 1] = y  BY <2>1 DEF Leads
  <2>3. Passes(c, p, Len(p), ns)  BY <1>1, <2>2 DEF Follows, Passes
  <2>4. Gives(c, ns[Len(p)], LastOf(p), y)  BY <1>1, <2>2 DEF Follows
  <2> QED  BY <1>3, <2>3, <2>4
<1> QED  BY <1>2, <1>3

\* What the next element leads to, in a message that was not changed.
LEMMA HopFinds ==
  ASSUME message = content, changes = 0, content \in Messages, Underway,
         NEW p, p = violation.path, IsPath(p), p # <<>>,
         NEW i, i = hop.next, i \in 1 .. Len(p),
         NEW x, x = Found(hop.value, p[i], i = Len(p))
  PROVE  /\ \A ns : i # Len(p) /\ Passes(content, p, i + 1, ns) =>
              x = ns[i + 1] /\ x # NoValue
         /\ \A y : At(content, p, y, violation.key) => x # NoValue /\ (i = Len(p) => x = y)
<1>1. Len(p) \in Nat /\ Len(p) > 0 /\ LastOf(p) = p[Len(p)]  BY ParentIs
<1>2. \A ns : Passes(content, p, i, ns) => hop.value = ns[i]  BY DEF Underway
<1>3. ASSUME NEW ns, i # Len(p), Passes(content, p, i + 1, ns)
      PROVE  x = ns[i + 1] /\ x # NoValue
  <2>1. i \in Nat /\ i \in 1 .. i  BY <1>1
  <2>2. Passes(content, p, i, ns) /\ Gives(content, ns[i], p[i], ns[i + 1])
    BY <1>3, <2>1, PassesOn
  <2>3. PICK n, e, y, last : n = hop.value /\ e = p[i] /\ y = ns[i + 1] /\ last = (i = Len(p))
    OBVIOUS
  <2>4. Gives(content, n, e, y) /\ ~IsKey(last)  BY <1>2, <1>3, <2>2, <2>3 DEF IsKey
  <2>5. x = Found(n, e, last)  BY <2>3
  <2>6. x = y /\ y # NoValue  BY <2>4, <2>5, FindsGiven, GivesIs
  <2> QED  BY <2>3, <2>6
<1>4. ASSUME NEW y, At(content, p, y, violation.key)
      PROVE  x # NoValue /\ (i = Len(p) => x = y)
  <2>1. PICK ns : /\ Passes(content, p, Len(p), ns)
                  /\ ~violation.key => Gives(content, ns[Len(p)], LastOf(p), y)
                  /\ violation.key => GivesKey(content, ns[Len(p)], LastOf(p), y)
    BY <1>4, AtPasses
  <2>2. CASE i = Len(p)
    <3>1. PICK n, e, last : n = hop.value /\ e = p[i] /\ last = (i = Len(p))  OBVIOUS
    <3>2. n = ns[Len(p)] /\ e = LastOf(p) /\ x = Found(n, e, last)
      BY <1>1, <1>2, <2>1, <2>2, <3>1
    <3>3. CASE violation.key
      <4>1. GivesKey(content, n, e, y)  BY <2>1, <3>2, <3>3
      <4>2. IsKey(last)  BY <2>2, <3>1, <3>3 DEF IsKey
      <4>3. x = y /\ y \in Keys  BY <3>2, <4>1, <4>2, FindsKey, KeyIs
      <4> QED  BY <4>3, DistinctAssumption
    <3>4. CASE ~violation.key
      <4>1. Gives(content, n, e, y)  BY <2>1, <3>2, <3>4
      <4>2. ~IsKey(last)  BY <3>4 DEF IsKey
      <4> QED  BY <3>2, <4>1, <4>2, FindsGiven, GivesIs
    <3> QED  BY <3>3, <3>4
  <2>3. CASE i # Len(p)
    <3>1. i + 1 \in 1 .. Len(p) /\ i \in Nat  BY <1>1, <2>3
    <3>2. Passes(content, p, i + 1, ns)
      <4>1. \A j \in 1 .. (i + 1) - 1 : j \in 1 .. Len(p) - 1  BY <1>1, <3>1
      <4> QED  BY <2>1, <4>1 DEF Passes
    <3> QED  BY <1>3, <2>3, <3>2
  <2> QED  BY <2>2, <2>3
<1> QED  BY <1>3, <1>4

\* A hop stays on the way.
LEMMA HopRetraces ==
  ASSUME TypeOK, UNCHANGED vars, Retraced, NEW r \in Readers, Hop(r), hop # None,
         IsPath(violation.path)
  PROVE  OnTheWay'
<1>1. PICK p, i, e, n : p = violation.path /\ i = hop.next /\ e = p[i] /\ n = hop.value
  OBVIOUS
<1>2. /\ OnTheWay /\ StillFits /\ content \in Messages
      /\ changes = 0 => message = content
  BY DEF Retraced, TypeOK
<1>3. UNCHANGED <<content, message, changes, violation>>  BY DEF Hop, vars
<1>4. PICK m \in Nat : m = Len(p)  BY <1>1, ParentIs
<1>0. CASE hop' = Lost /\ swallowed' = swallowed \cup {"field"}
  <2>1. hop'.next = m + 1 /\ hop'.value = NoValue  BY <1>0, <1>1, <1>4 DEF Lost
  <2>2. violation'.path = p  BY <1>1, <1>3
  <2>3. swallowed' \subseteq {"field"} /\ "field" \in swallowed'
    BY <1>0, <1>2 DEF OnTheWay
  <2>4. Arrived(NoValue)'  BY <2>3 DEF Arrived
  <2>5. Underway' /\ Landed'  BY <1>4, <2>1, <2>2 DEF Underway, Landed
  <2> QED  BY <1>4, <2>1, <2>2, <2>3, <2>4, <2>5 DEF OnTheWay
<1>5. i \in 1 .. m /\ IsPath(p)
  BY <1>1, <1>2, <1>4 DEF OnTheWay, Hop, AtEnd
<1>6. p # <<>> /\ LastOf(p) = p[m]
  <2>1. p # <<>>  BY <1>4, <1>5
  <2> QED  BY <1>4, <1>5, <2>1, ParentIs
<1>7. PICK x : x = Found(n, e, i = m)  OBVIOUS
<1> SUFFICES ASSUME hop' = (IF Found(n, e, i = m) = NoValue THEN Lost
                           ELSE [is |-> "hop", next |-> i + 1, value |-> Found(n, e, i = m),
                                 leaf |-> [is |-> "field", type |-> TypeOf[n],
                                           field |-> e.field]]),
                    UNCHANGED swallowed
             PROVE  OnTheWay'
  BY <1>0, <1>1, <1>4 DEF Hop
<1>12. swallowed = {} /\ swallowed' = {}
  BY <1>1, <1>2, <1>4, <1>5 DEF OnTheWay
<1>8. hop' = IF x = NoValue THEN Lost
             ELSE [is |-> "hop", next |-> i + 1, value |-> x,
                   leaf |-> [is |-> "field", type |-> TypeOf[n], field |-> e.field]]
  BY <1>7
<1>9. /\ changes = 0 =>
           /\ \A ns : i # m /\ Passes(content, p, i + 1, ns) => x = ns[i + 1] /\ x # NoValue
           /\ \A y : At(content, p, y, violation.key) => x # NoValue /\ (i = m => x = y)
  <2> SUFFICES ASSUME changes = 0
               PROVE  /\ \A ns : i # m /\ Passes(content, p, i + 1, ns) =>
                           x = ns[i + 1] /\ x # NoValue
                      /\ \A y : At(content, p, y, violation.key) =>
                           x # NoValue /\ (i = m => x = y)
    OBVIOUS
  <2>1. message = content /\ Underway  BY <1>2 DEF OnTheWay
  <2>2. i \in 1 .. Len(p) /\ x = Found(hop.value, p[i], i = Len(p))  BY <1>1, <1>4, <1>5, <1>7
  <2> QED  BY <1>1, <1>2, <1>4, <1>5, <1>6, <2>1, <2>2, HopFinds
<1>10. CASE x = NoValue
  <2>1. hop'.next = m + 1 /\ hop'.value = NoValue  BY <1>1, <1>4, <1>8, <1>10 DEF Lost
  <2>2. Arrived(NoValue)'  BY <1>1, <1>3, <1>9, <1>10, <1>12 DEF Arrived
  <2>3. violation'.path = p  BY <1>1, <1>3
  <2>4. Underway' /\ Landed'  BY <1>4, <2>1, <2>3 DEF Underway, Landed
  <2> QED  BY <1>4, <1>12, <2>1, <2>2, <2>3, <2>4 DEF OnTheWay
<1>11. CASE x # NoValue
  <2>1. /\ hop'.next = i + 1 /\ hop'.value = x /\ hop'.leaf.type = TypeOf[n]
        /\ hop'.leaf.field = e.field /\ hop'.leaf # None
    BY <1>8, <1>11 DEF None
  <2>2. violation'.path = p /\ violation'.key = violation.key /\ content' = content
    BY <1>1, <1>3
  <2>3. n \in Nodes /\ e.field \in DOMAIN message[n]  BY <1>7, <1>11 DEF Found
  <2>4. \A ns : Passes(content, p, i, ns) /\ ns[i] \in Nodes => TypeOf[n] = TypeOf[ns[i]]
    BY <1>1, <1>2, <1>4, <1>5, <2>3 DEF OnTheWay, Underway
  <2>5. Underway'
    <3> SUFFICES ASSUME i + 1 \in 1 .. m, NEW ns, Passes(content, p, i + 1, ns)
                 PROVE  /\ changes = 0 => x = ns[i + 1]
                        /\ x \in Nodes /\ ns[i + 1] \in Nodes => TypeOf[x] = TypeOf[ns[i + 1]]
      BY <1>3, <1>4, <2>1, <2>2 DEF Underway
    <3>1. i # m  BY <1>4, <1>5
    <3>2. changes = 0 => x = ns[i + 1]  BY <1>9, <3>1
    <3>3. ASSUME x \in Nodes, ns[i + 1] \in Nodes PROVE TypeOf[x] = TypeOf[ns[i + 1]]
      <4>1. i \in Nat /\ i \in 1 .. i  BY <1>4, <1>5
      <4>2. Passes(content, p, i, ns) /\ Gives(content, ns[i], p[i], ns[i + 1])
        BY <4>1, PassesOn
      <4>3. PICK u, y, last : u = ns[i] /\ y = ns[i + 1] /\ last = (i = m)  OBVIOUS
      <4>4. Gives(content, u, e, y) /\ u \in Nodes /\ y \in Nodes
        BY <1>1, <1>2, <3>3, <4>2, <4>3, GivesIs
      <4>5. TypeOf[n] = TypeOf[u]  BY <2>4, <4>2, <4>3, <4>4
      <4>6. ~IsKey(last) /\ x = Found(n, e, last)  BY <1>7, <3>1, <4>3 DEF IsKey
      <4>7. TypeOf[x] = TypeOf[y]
        BY <1>2, <2>3, <3>3, <4>4, <4>5, <4>6, FindsType
      <4> QED  BY <4>3, <4>7
    <3> QED  BY <3>2, <3>3
  <2>6. hop'.next = m + 1 => i = m  BY <1>4, <1>5, <2>1
  <2>7. hop'.next = m + 1 => Arrived(x)'
    BY <1>1, <1>3, <1>9, <1>12, <2>1, <2>6 DEF Arrived
  <2>8. Landed'
    <3> SUFFICES ASSUME i = m
                 PROVE  /\ e.field = LastOf(p).field
                        /\ \A ns : Passes(content, p, m, ns) /\ ns[m] \in Nodes =>
                             TypeOf[n] = TypeOf[ns[m]]
                        /\ \A l \in DOMAIN Compiled[TypeOf[n]].required :
                             Compiled[TypeOf[n]].required[l].name # LastOf(p).field
      BY <1>4, <1>6, <2>1, <2>2, <2>6 DEF Landed
    <3>1. e.field = LastOf(p).field  BY <1>1, <1>6
    <3>2. e.field \in DOMAIN content[n]  BY <1>2, <2>3 DEF StillFits
    <3>3. \A l \in DOMAIN Compiled[TypeOf[n]].required :
            Compiled[TypeOf[n]].required[l].name \notin DOMAIN content[n]
      BY <1>2, <2>3, ContentAssumption
    <3> QED  BY <2>4, <3>1, <3>2, <3>3
  <2> QED  BY <1>4, <1>5, <1>12, <2>1, <2>2, <2>5, <2>7, <2>8 DEF OnTheWay, Arrived
<1> QED  BY <1>10, <1>11

\* What is known of the violation that is read: where its path leads.
LEMMA ViolationIs ==
  ASSUME TypeOK, Explains, ValuesTypeOK, violation # None
  PROVE  /\ Done /\ IsPath(violation.path) /\ content \in Messages
         /\ Blamed(content, fails, violation.rule, violation.key, violation.path)
<1>1. Done /\ \E i \in DOMAIN list : violation = list[i]  BY DEF ValuesTypeOK
<1>2. PICK i \in DOMAIN list : violation = list[i]  BY <1>1
<1>3. PICK A, ps : Explained(A, ps)  BY DEF Explains
<1>4. TasksOf(A) = <<>>  BY <1>1, <1>3 DEF Explained, Done
<1>5. A = <<>>
  <2>1. IsSeq(A)  BY <1>3 DEF Explained, Placed
  <2>2. A # <<>> => 1 \in DOMAIN A  BY <2>1, TailIs
  <2>3. DOMAIN TasksOf(A) = DOMAIN A  BY DEF TasksOf
  <2> QED  BY <1>4, <2>2, <2>3
<1>6. Owed(A) = {}  BY <1>5, PlacedNone
<1>7. Depths({}, i) = {}  BY DEF Depths
<1>8. /\ Blamed(content, fails, list[i].rule, list[i].key, ps[i])
      /\ list[i].path = Without(ps[i], {})
  BY <1>3, <1>6, <1>7 DEF Explained, Accounted
<1>9. list[i].path = ps[i]  BY <1>8, WithoutNone DEF Blamed
<1>10. IsPath(ps[i])  BY <1>8 DEF Blamed
<1> QED  BY <1>1, <1>2, <1>8, <1>9, <1>10 DEF TypeOK

\* A rule of a field is found where it is written in the field's options, an
\* extension is not.
LEMMA WrittenFound ==
  ASSUME NEW leaf, leaf # None, NEW r, RulePath[r] # NoSub, Written(leaf.type, leaf.field, r)
  PROVE  RuleValue(leaf, RulePath[r]) = IF r \in Extensions THEN NoValue ELSE r
<1>1. PICK x, e : x = FieldOptions[leaf.type][leaf.field] /\ e = RulePath[r]  OBVIOUS
<1>2. /\ x # NoValue /\ x.type = "FieldRules"
      /\ e.name \in DOMAIN x.set /\ e.name \in DOMAIN Number.FieldRules
      /\ Number.FieldRules[e.name] = e.number
      /\ IF r \in Extensions THEN e.index # NoSub /\ e.index \notin DOMAIN x.set[e.name]
         ELSE IF e.index = NoSub THEN x.set[e.name] = r
         ELSE e.index \in DOMAIN x.set[e.name] /\ x.set[e.name][e.index] = r
  BY <1>1 DEF Written
<1>3. \A f \in DOMAIN Number.FieldRules : Number.FieldRules[f] = e.number <=> f = e.name
  BY <1>2 DEF Number
<1>4. Number["FieldRules"] = Number.FieldRules  OBVIOUS
<1>5. FindField(x.type, e) = {e.name}
  <2>1. {f \in DOMAIN Number["FieldRules"] : Number["FieldRules"][f] = e.number} = {e.name}
    BY <1>2, <1>3, <1>4
  <2> QED  BY <1>2, <2>1 DEF FindField
<1>6. FindField(x.type, e) \cap DOMAIN x.set = {e.name}  BY <1>2, <1>5
<1>7. PICK name, found : name = e.name /\ found = FindField(x.type, e) \cap DOMAIN x.set  OBVIOUS
<1>8. found = {name} /\ (CHOOSE f \in found : TRUE) = name  BY <1>6, <1>7
<1>9. RuleHop(x, e) = IF r \in Extensions THEN NoValue ELSE r
  <2>1. CASE e.index = NoSub  BY <1>2, <1>7, <1>8, <2>1 DEF RuleHop
  <2>2. CASE e.index # NoSub  BY <1>2, <1>7, <1>8, <2>2 DEF RuleHop
  <2> QED  BY <2>1, <2>2
<1> QED  BY <1>1, <1>2, <1>9 DEF RuleValue

\* At the end of the path are the values.
LEMMA FillRetraces ==
  ASSUME TypeOK, Explains, ValuesTypeOK, UNCHANGED vars, Retraced, NEW r \in Readers, Fill(r)
  PROVE  Retraced'
<1>1. hop # None /\ violation # None
  BY ReadersAssumption DEF Fill, ValuesTypeOK
<1>2. /\ Done /\ IsPath(violation.path) /\ content \in Messages
      /\ Blamed(content, fails, violation.rule, violation.key, violation.path)
  BY <1>1, ViolationIs
<1>3. PICK p : p = violation.path  OBVIOUS
<1>4. PICK m \in Nat : m = Len(p)  BY <1>2, <1>3, ParentIs
<1>5. hop.next = m + 1
  BY <1>1, <1>3, <1>4 DEF Fill, AtEnd, Retraced, OnTheWay
<1>6. Arrived(hop.value) /\ Landed
  BY <1>1, <1>3, <1>4, <1>5 DEF Retraced, OnTheWay
<1>7. UNCHANGED <<content, message, changes, violation>> /\ hop' = None
  BY DEF Fill, vars
<1>8. PICK x, leaf, rule : x = hop.value /\ leaf = hop.leaf /\ rule = violation.rule  OBVIOUS
<1>9. /\ cell'.field = x /\ cell'.rule \in {RuleValue(leaf, RulePath[rule]), NoValue}
      /\ swallowed' = IF cell'.rule = RuleValue(leaf, RulePath[rule])
                      THEN swallowed ELSE swallowed \cup {"rule"}
  BY <1>8 DEF Fill
<1>14. "rule" \notin swallowed
  BY <1>1 DEF Retraced, OnTheWay
<1>10. Arrived(x)'
  <2>1. "field" \in swallowed' <=> "field" \in swallowed  BY <1>9
  <2> QED  BY <1>6, <1>7, <1>8, <2>1 DEF Arrived
<1>11. ASSUME x # NoValue, RulePath[rule] # NoSub
       PROVE  cell'.rule = IF rule \in Extensions \/ "rule" \in swallowed'
                             THEN NoValue ELSE rule
  <2>1. /\ p # <<>> /\ leaf # None /\ leaf.field = LastOf(p).field
        /\ \A ns : Passes(content, p, m, ns) /\ ns[m] \in Nodes => leaf.type = TypeOf[ns[m]]
        /\ \A i \in DOMAIN Compiled[leaf.type].required :
             Compiled[leaf.type].required[i].name # LastOf(p).field
    BY <1>3, <1>4, <1>5, <1>6, <1>8, <1>11 DEF Landed
  <2>2. \A n \in Nodes : Leads(content, Parent(p), n) => leaf.type = TypeOf[n]
    <3> SUFFICES ASSUME NEW n \in Nodes, Leads(content, Parent(p), n)
                 PROVE  leaf.type = TypeOf[n]
      OBVIOUS
    <3>1. PICK ns : Passes(content, p, m, ns) /\ ns[m] = n
      BY <1>2, <1>3, <1>4, <2>1, ParentPasses
    <3> QED  BY <2>1, <3>1
  <2>3. RuleAt(content, p, rule)
    <3>1. RuleAt(content, p, rule) \/ OneofAt(content, p)  BY <1>2, <1>3, <1>8 DEF Blamed
    <3>2. ~OneofAt(content, p)  BY <2>1, <2>2 DEF OneofAt
    <3> QED  BY <3>1, <3>2
  <2>4. PICK n \in Nodes : /\ Leads(content, Parent(p), n)
                           /\ Written(TypeOf[n], LastOf(p).field, rule)
    BY <1>11, <2>3 DEF RuleAt
  <2>5. Written(leaf.type, leaf.field, rule)  BY <2>1, <2>2, <2>4
  <2>6. RuleValue(leaf, RulePath[rule]) = IF rule \in Extensions THEN NoValue ELSE rule
    BY <1>11, <2>1, <2>5, WrittenFound
  <2> QED  BY <1>9, <1>14, <2>6
<1>12. RuleOfValue'
  BY <1>7, <1>8, <1>9, <1>11 DEF RuleOfValue, HasRule
<1>13. StillFits' /\ (changes' = 0 => message' = content')
  BY <1>7 DEF Retraced, StillFits
<1> QED  BY <1>7, <1>9, <1>10, <1>12, <1>13 DEF Retraced, Arrived

\* The way begins at the message validated.
LEMMA BeginRetraces ==
  ASSUME TypeOK, Explains, ValuesTypeOK, UNCHANGED vars, Retraced, NEW r \in Readers, Begin(r)
  PROVE  Retraced'
<1>1. violation # None /\ cell = None  BY DEF Begin, ValuesTypeOK
<1>2. IsPath(violation.path)  BY <1>1, ViolationIs
<1>3. UNCHANGED <<content, message, changes, violation, cell>>  BY DEF Begin, vars
<1>4. PICK p : p = violation.path  OBVIOUS
<1>5. PICK m \in Nat : m = Len(p)  BY <1>2, <1>4, ParentIs
<1>6. OnTheWay'
  <2>1. CASE p = <<>>
    <3>1. m = 0  BY <1>5, <2>1
    <3>2. hop'.next = m + 1 /\ hop'.value = NoValue /\ swallowed' = {}
      BY <1>4, <1>5, <2>1 DEF Begin, Lost
    <3> QED  BY <1>3, <1>4, <1>5, <2>1, <3>1, <3>2 DEF OnTheWay, Arrived, Underway, Landed
  <2>2. CASE p # <<>>
    <3>1. m > 0  BY <1>2, <1>4, <1>5, <2>2, ParentIs
    <3>2. hop'.next = 1 /\ hop'.value = Root /\ swallowed' = {}  BY <1>4, <2>2 DEF Begin
    <3>3. \A ns : Passes(content, p, 1, ns) => ns[1] = Root  BY DEF Passes
    <3>4. hop'.next # m + 1 /\ hop'.next \in 1 .. m + 1  BY <1>5, <3>1, <3>2
    <3>5. Underway'  BY <1>3, <1>4, <1>5, <3>2, <3>3 DEF Underway
    <3> QED  BY <1>3, <1>4, <1>5, <3>2, <3>4, <3>5 DEF OnTheWay, Landed
  <2> QED  BY <2>1, <2>2
<1>7. StillFits' /\ (changes' = 0 => message' = content')
  BY <1>3 DEF Retraced, StillFits
<1> QED  BY <1>1, <1>3, <1>6, <1>7 DEF Retraced

\* A change of the message leaves each field what it may hold.
LEMMA ChangeRetraces ==
  ASSUME TypeOK, ValuesTypeOK, UNCHANGED vars, Retraced, Change
  PROVE  Retraced'
<1>1. PICK c \in Changes : message' = [message EXCEPT ![c[1]][c[2]] = c[3]]
  BY DEF Change
<1>2. changes \in Nat /\ changes' = changes + 1
  BY MaxChangesAssumption DEF Change, ValuesTypeOK
<1>3. changes' # 0 /\ changes # changes'  BY <1>2
<1>4. UNCHANGED <<content, violation, cell, hop, swallowed>>  BY DEF Change, vars
<1>5. StillFits'
  <2>1. message = [n \in Nodes |-> message[n]]  BY DEF Retraced, StillFits
  <2>2. PICK a, f, x : a = c[1] /\ f = c[2] /\ x = c[3]  OBVIOUS
  <2>3. message' = [message EXCEPT ![a] = [message[a] EXCEPT ![f] = x]]  BY <1>1, <2>2
  <2>4. message' = [n \in Nodes |-> message'[n]]  BY <2>1, <2>3
  <2>5. ASSUME NEW n \in Nodes
        PROVE  /\ message'[n] = [g \in DOMAIN message'[n] |-> message'[n][g]]
               /\ DOMAIN message'[n] = DOMAIN content[n]
               /\ \A v \in FieldsOf(n) : Fits(TypeOf[n], v, message'[n][v.field])
    <3>1. /\ message[n] = [g \in DOMAIN message[n] |-> message[n][g]]
          /\ DOMAIN message[n] = DOMAIN content[n]
          /\ \A v \in FieldsOf(n) : Fits(TypeOf[n], v, message[n][v.field])
      BY DEF Retraced, StillFits
    <3>2. CASE n # a
      <4>1. message'[n] = message[n]  BY <2>1, <2>3, <3>2
      <4> QED  BY <3>1, <4>1
    <3>3. CASE n = a
      <4>1. message'[n] = [message[n] EXCEPT ![f] = x]  BY <2>1, <2>3, <3>3
      <4>2. /\ message'[n] = [g \in DOMAIN message'[n] |-> message'[n][g]]
            /\ DOMAIN message'[n] = DOMAIN message[n]
            /\ \A g \in DOMAIN message[n] :
                 message'[n][g] = IF g = f THEN x ELSE message[n][g]
        BY <3>1, <4>1
      <4>3. ASSUME NEW v \in FieldsOf(n) PROVE Fits(TypeOf[n], v, message'[n][v.field])
        <5>1. PICK i \in DOMAIN Compiled[TypeOf[n]].fields : v = Compiled[TypeOf[n]].fields[i]
          BY DEF FieldsOf
        <5>2. v.field = f => Fits(TypeOf[n], v, x)
          BY <2>2, <3>3, <5>1, ContentAssumption
        <5>3. CASE v.field \in DOMAIN message[n]
          <6>1. message'[n][v.field] = IF v.field = f THEN x ELSE message[n][v.field]
            BY <4>2, <5>3
          <6> QED  BY <3>1, <5>2, <6>1
        <5>4. v.field \in DOMAIN message[n]
          <6>1. content \in Messages  BY DEF TypeOK
          <6> QED  BY <3>1, <6>1, ContentFits
        <5> QED  BY <5>3, <5>4
      <4> QED  BY <3>1, <4>2, <4>3
    <3> QED  BY <3>2, <3>3
  <2> QED  BY <1>4, <2>4, <2>5 DEF StillFits
<1>6. Arrived(cell.field)' /\ (hop.next = Len(violation.path) + 1 => Arrived(hop.value)')
  BY <1>3, <1>4 DEF Arrived
<1>7. hop # None => OnTheWay'
  <2> SUFFICES ASSUME hop # None PROVE OnTheWay'
    OBVIOUS
  <2>1. OnTheWay  BY DEF Retraced
  <2>2. Underway'  BY <1>3, <1>4, <2>1 DEF OnTheWay, Underway
  <2>3. Landed'  BY <1>4, <2>1 DEF OnTheWay, Landed
  <2> QED  BY <1>3, <1>4, <2>1, <2>2, <2>3 DEF OnTheWay, Arrived
<1>8. RuleOfValue' <=> RuleOfValue
  BY <1>4 DEF RuleOfValue, Recovered, HasRule
<1> QED  BY <1>3, <1>4, <1>5, <1>6, <1>7, <1>8 DEF Retraced

\* Before the values are read the message is what was validated.
LEMMA RetracedInitial == ValuesInit => Retraced
<1> SUFFICES ASSUME ValuesInit PROVE Retraced
  OBVIOUS
<1>1. content \in Messages /\ message = content /\ hop = None /\ cell = None
  BY DEF ValuesInit, Init
<1>2. message \in Messages  BY <1>1
<1>3. \A n \in Nodes : \A v \in FieldsOf(n) : Fits(TypeOf[n], v, message[n][v.field])
  BY <1>2, ContentFits
<1>4. message = [n \in Nodes |-> message[n]]
      /\ \A n \in Nodes : message[n] = [f \in DOMAIN message[n] |-> message[n][f]]
  BY <1>2, ContentAssumption
<1>5. \A n \in Nodes : DOMAIN message[n] = DOMAIN content[n]  BY <1>1
<1>6. StillFits  BY <1>3, <1>4, <1>5 DEF StillFits
<1> QED  BY <1>1, <1>6 DEF Retraced

\* What neither moves nor changes the message keeps what is known of the way.
LEMMA RestRetraces ==
  ASSUME Retraced, UNCHANGED <<content, message, changes, violation, cell, swallowed>>,
         hop' = hop \/ hop' = None
  PROVE  Retraced'
<1>1. StillFits' /\ (changes' = 0 => message' = content')
  BY DEF Retraced, StillFits
<1>2. cell' # None => Arrived(cell.field)' /\ RuleOfValue'
  BY DEF Retraced, Arrived, RuleOfValue, Recovered, HasRule
<1>3. hop' # None => OnTheWay'
  <2> SUFFICES ASSUME hop' # None PROVE OnTheWay'
    OBVIOUS
  <2>1. hop' = hop /\ OnTheWay  BY DEF Retraced
  <2>2. Underway' /\ Landed'  BY <2>1 DEF OnTheWay, Underway, Landed
  <2>3. hop'.next = hop.next /\ violation' = violation  BY <2>1
  <2>4. hop.next = Len(violation.path) + 1 => Arrived(hop.value)'
    BY <2>1 DEF OnTheWay, Arrived
  <2> QED  BY <2>1, <2>2, <2>3, <2>4 DEF OnTheWay, Arrived
<1> QED  BY <1>1, <1>2, <1>3 DEF Retraced, Arrived

\* Before a violation is picked nothing is read, and nothing is recovered.
LEMMA PickRetraces ==
  ASSUME Retraced, ValuesTypeOK, violation = None,
         UNCHANGED <<content, message, changes, cell, hop>>
  PROVE  Retraced'
<1>1. cell = None /\ hop = None  BY ReadersAssumption DEF ValuesTypeOK
<1>2. StillFits' /\ (changes' = 0 => message' = content')
  BY DEF Retraced, StillFits
<1> QED  BY <1>1, <1>2 DEF Retraced

\* Every step keeps to the way.
LEMMA StepRetraces ==
  TypeOK /\ Explains /\ ValuesTypeOK /\ Retraced /\ [ValuesNext]_allVars => Retraced'
<1> SUFFICES ASSUME TypeOK, Explains, ValuesTypeOK, Retraced, [ValuesNext]_allVars
             PROVE  Retraced'
  OBVIOUS
<1>1. CASE UNCHANGED allVars
  <2>1. UNCHANGED <<content, message, changes, violation, cell, hop, swallowed>>
    BY <1>1 DEF allVars, values, vars
  <2> QED  BY <2>1, RestRetraces
<1>2. CASE Next /\ UNCHANGED values
  <2>1. violation = None  BY <1>2, NoStepWhenDone DEF ValuesTypeOK
  <2>2. UNCHANGED <<content, message, changes, cell, hop>>
    BY <1>2, StepOutcome DEF values, Next, input
  <2> QED  BY <2>1, <2>2, PickRetraces
<1>3. CASE UNCHANGED vars /\ Pick
  <2>1. UNCHANGED <<content, message, changes, cell, hop>> /\ violation = None
    BY <1>3 DEF vars, Pick
  <2> QED  BY <2>1, PickRetraces
<1>4. CASE UNCHANGED vars /\ Change
  BY <1>4, ChangeRetraces
<1>5. ASSUME NEW r \in Readers, UNCHANGED vars, Ask(r) \/ RaiseReading(r) \/ Answer(r)
      PROVE  Retraced'
  <2>1. /\ UNCHANGED <<content, message, changes, violation, cell, swallowed>>
        /\ hop' = hop \/ hop' = None
    BY <1>5 DEF vars, Ask, RaiseReading, Answer
  <2> QED  BY <2>1, RestRetraces
<1>6. ASSUME NEW r \in Readers, UNCHANGED vars, Hop(r)
      PROVE  Retraced'
  <2>1. hop # None /\ violation # None /\ cell = None
    BY <1>6, ReadersAssumption DEF Hop, ValuesTypeOK
  <2>2. IsPath(violation.path)  BY <2>1, ViolationIs
  <2>3. OnTheWay'  BY <1>6, <2>1, <2>2, HopRetraces
  <2>4. UNCHANGED <<content, message, changes, cell>>  BY <1>6 DEF Hop, vars
  <2>5. StillFits' /\ (changes' = 0 => message' = content')
    BY <2>4 DEF Retraced, StillFits
  <2> QED  BY <2>1, <2>3, <2>4, <2>5 DEF Retraced
<1>7. ASSUME NEW r \in Readers, UNCHANGED vars, Begin(r) \/ Fill(r)
      PROVE  Retraced'
  BY <1>7, BeginRetraces, FillRetraces
<1> QED
  BY <1>1, <1>2, <1>3, <1>4, <1>5, <1>6, <1>7 DEF ValuesNext, Resolve

\* What is read is always on the way back to what the violation is about.
LEMMA AlwaysRetraced == ValuesSpec => [](TypeOK /\ Explains /\ ValuesTypeOK /\ Retraced)
<1>1. ValuesSpec => []TypeOK  BY ImplementsWalk, TypeCorrect, PTL
<1>2. ValuesSpec => []Explains  BY ImplementsWalk, ViolationsExplained, PTL
<1> QED
  BY <1>1, <1>2, ValuesTypeCorrect, RetracedInitial, StepRetraces, PTL DEF ValuesSpec

\* The field value of a violation is one on which its rule fails, if the message
\* was not changed: the path the walk recorded leads to a value on which it
\* does, and what is recovered is what the path leads to.  If an error was
\* swallowed on the way, there is none (walk_field_path, violation.rs).
THEOREM FieldValuesChecked == ValuesSpec => []FieldValueIsChecked
<1>1. TypeOK /\ Explains /\ ValuesTypeOK /\ Retraced => FieldValueIsChecked
  <2> SUFFICES ASSUME TypeOK, Explains, ValuesTypeOK, Retraced, Recovered, changes = 0,
                      violation.path # <<>>,
                      NEW y, <<violation.rule, y>> \in fails
               PROVE  IF "field" \in swallowed THEN cell.field = NoValue
                      ELSE <<violation.rule, cell.field>> \in fails
    BY DEF FieldValueIsChecked, OfCheck
  <2>1. violation # None /\ cell # None  BY DEF Recovered
  <2>2. Blamed(content, fails, violation.rule, violation.key, violation.path)
    BY <2>1, ViolationIs
  <2>3. violation.rule \notin {"required", "message.oneof"}
    <3>1. <<violation.rule, y>> \in Checks  BY DEF TypeOK
    <3>2. <<violation.rule, y>>[1] = violation.rule  OBVIOUS
    <3>3. violation.rule \in {c[1] : c \in Checks}  BY <3>1, <3>2
    <3> QED  BY <3>3, RulesAssumption
  <2>4. PICK x : <<violation.rule, x>> \in fails /\ At(content, violation.path, x, violation.key)
    BY <2>2, <2>3 DEF Blamed
  <2>5. Arrived(cell.field)  BY <2>1 DEF Retraced
  <2>6. CASE "field" \in swallowed  BY <2>5, <2>6 DEF Arrived
  <2>7. CASE "field" \notin swallowed
    <3>1. cell.field = x  BY <2>4, <2>5, <2>7 DEF Arrived
    <3> QED  BY <2>4, <2>7, <3>1
  <2> QED  BY <2>6, <2>7
<1> QED
  BY <1>1, AlwaysRetraced, PTL

\* A rule value that comes with a field value is that of the rule violated,
\* whatever was changed, or none if that is an extension or an error was
\* swallowed on the way to it: each field on the way keeps its type, so that the
\* last is the one whose options the rule was read from (resolve_rule_value,
\* violation.rs).
THEOREM RulesOfValues == ValuesSpec => []RuleOfValue
<1>1. Retraced => RuleOfValue
  BY DEF Retraced, RuleOfValue, Recovered
<1> QED
  BY <1>1, AlwaysRetraced, PTL
=============================================================================
