----------------------------- MODULE WalkProofs -----------------------------
(***************************************************************************)
(* Proofs about Walk, for any message, any compiled rules, and whatever    *)
(* the rules find or raise.                                                *)
(***************************************************************************)
EXTENDS Walk, SequenceTheorems, TLAPS

-----------------------------------------------------------------------------
(* Sequences of anything.                                                  *)

\* A member of a sequence over some set.
LEMMA MemberIs ==
  ASSUME NEW S, NEW s \in Seq(S)
  PROVE  \A i \in DOMAIN s : s[i] \in S
OBVIOUS

\* A sequence over some set is a sequence.
LEMMA SeqIs ==
  ASSUME NEW S, NEW s \in Seq(S)
  PROVE  IsSeq(s) /\ \A i \in DOMAIN s : s[i] \in S
<1>1. Len(s) \in Nat /\ s \in [1..Len(s) -> S] /\ DOMAIN s = 1..Len(s)
  OBVIOUS
<1>2. s \in [1..Len(s) -> {s[i] : i \in DOMAIN s}]  BY <1>1
<1> QED  BY <1>1, <1>2, IsASeq DEF IsSeq

\* Whatever is indexed as a sequence is one.
LEMMA IndexedIs ==
  ASSUME NEW n \in Nat, NEW s, s = [i \in 1..n |-> s[i]]
  PROVE  IsSeq(s) /\ Len(s) = n
<1>1. s \in [1..n -> {s[i] : i \in DOMAIN s}]  OBVIOUS
<1> QED  BY <1>1, IsASeq DEF IsSeq

\* Concatenation and its elements.
LEMMA ConcatIs ==
  ASSUME NEW s, NEW t, IsSeq(s), IsSeq(t)
  PROVE  /\ IsSeq(s \o t) /\ Len(s \o t) = Len(s) + Len(t)
         /\ \A i \in DOMAIN (s \o t) :
              \/ \E j \in DOMAIN s : (s \o t)[i] = s[j]
              \/ \E j \in DOMAIN t : (s \o t)[i] = t[j]
<1> DEFINE S == {s[i] : i \in DOMAIN s} \cup {t[i] : i \in DOMAIN t}
<1>1. s \in Seq(S) /\ t \in Seq(S)  BY DEF IsSeq
<1>2. /\ s \o t \in Seq(S) /\ Len(s \o t) = Len(s) + Len(t)
      /\ Len(s) \in Nat /\ Len(t) \in Nat
      /\ \A i \in 1..Len(s) + Len(t) :
           (s \o t)[i] = IF i <= Len(s) THEN s[i] ELSE t[i - Len(s)]
  BY <1>1, ConcatProperties
<1>3. DOMAIN (s \o t) = 1..Len(s) + Len(t) /\ DOMAIN s = 1..Len(s) /\ DOMAIN t = 1..Len(t)
  BY <1>1, <1>2
<1> HIDE DEF S
<1>4. IsSeq(s \o t)  BY <1>2, SeqIs
<1> QED  BY <1>2, <1>3, <1>4

\* The tail of a sequence and its elements.
LEMMA TailIs ==
  ASSUME NEW s, IsSeq(s), s # <<>>
  PROVE  /\ IsSeq(Tail(s)) /\ Len(Tail(s)) = Len(s) - 1 /\ Len(s) \in Nat \ {0}
         /\ \A i \in DOMAIN Tail(s) : \E j \in DOMAIN s : Tail(s)[i] = s[j]
         /\ 1 \in DOMAIN s /\ Head(s) = s[1]
<1> DEFINE S == {s[i] : i \in DOMAIN s}
<1>1. s \in Seq(S)  BY DEF IsSeq
<1>2. /\ Tail(s) \in Seq(S) /\ Len(Tail(s)) = Len(s) - 1 /\ Len(s) \in Nat \ {0}
      /\ \A i \in 1..Len(Tail(s)) : Tail(s)[i] = s[i + 1]
      /\ Head(s) = s[1]
  BY <1>1, HeadTailProperties
<1>3. DOMAIN Tail(s) = 1..Len(s) - 1 /\ DOMAIN s = 1..Len(s)
  BY <1>1, <1>2
<1> HIDE DEF S
<1>4. IsSeq(Tail(s))  BY <1>2, SeqIs
<1>5. ASSUME NEW i \in DOMAIN Tail(s)  PROVE Tail(s)[i] = s[i + 1] /\ i + 1 \in DOMAIN s
  BY <1>2, <1>3, <1>5
<1> QED  BY <1>2, <1>3, <1>4, <1>5

-----------------------------------------------------------------------------
(* The agenda.                                                             *)

AreTasks(s) == IsSeq(s) /\ \A i \in DOMAIN s : IsTask(s[i])

\* No task.
LEMMA NoTask == AreTasks(<<>>) /\ Len(<<>>) = 0
BY DEF AreTasks, IsSeq

\* One task.
LEMMA OneTask ==
  ASSUME NEW a, IsTask(a)
  PROVE  AreTasks(<<a>>)
<1> DEFINE s == <<a>>
<1>1. s = [i \in 1..1 |-> s[i]] /\ \A i \in 1..1 : s[i] = a  OBVIOUS
<1>2. IsSeq(s) /\ DOMAIN s = 1..1  BY <1>1, IndexedIs
<1> HIDE DEF s
<1>3. AreTasks(s)  BY <1>1, <1>2 DEF AreTasks
<1> QED  BY <1>3 DEF s

\* Some tasks and some more.
LEMMA ConcatTasks ==
  ASSUME NEW s, NEW t, AreTasks(s), AreTasks(t)
  PROVE  AreTasks(s \o t)
<1>1. IsSeq(s) /\ IsSeq(t)  BY DEF AreTasks
<1>2. ASSUME NEW i \in DOMAIN (s \o t)
      PROVE  IsTask((s \o t)[i])
  <2>1. CASE \E j \in DOMAIN s : (s \o t)[i] = s[j]  BY <2>1 DEF AreTasks
  <2>2. CASE \E j \in DOMAIN t : (s \o t)[i] = t[j]  BY <2>2 DEF AreTasks
  <2>3. (\E j \in DOMAIN s : (s \o t)[i] = s[j]) \/ (\E j \in DOMAIN t : (s \o t)[i] = t[j])
    BY <1>1, ConcatIs
  <2> QED  BY <2>1, <2>2, <2>3
<1> QED  BY <1>1, <1>2, ConcatIs DEF AreTasks

\* Two tasks.
LEMMA TwoTasks ==
  ASSUME NEW a, NEW b, IsTask(a), IsTask(b)
  PROVE  AreTasks(<<a, b>>)
<1> DEFINE s == <<a, b>>
<1>1. s = [i \in 1..2 |-> s[i]] /\ s[1] = a /\ s[2] = b  OBVIOUS
<1>2. IsSeq(s) /\ DOMAIN s = 1..2  BY <1>1, IndexedIs
<1> HIDE DEF s
<1>3. AreTasks(s)  BY <1>1, <1>2 DEF AreTasks
<1> QED  BY <1>3 DEF s

\* Four tasks.
LEMMA FourTasks ==
  ASSUME NEW a, NEW b, NEW c, NEW d, IsTask(a), IsTask(b), IsTask(c), IsTask(d)
  PROVE  AreTasks(<<a, b, c, d>>)
<1> DEFINE s == <<a, b, c, d>>
<1>1. s = [i \in 1..4 |-> s[i]] /\ s[1] = a /\ s[2] = b /\ s[3] = c /\ s[4] = d  OBVIOUS
<1>2. IsSeq(s) /\ DOMAIN s = 1..4  BY <1>1, IndexedIs
<1> HIDE DEF s
<1>3. AreTasks(s)  BY <1>1, <1>2 DEF AreTasks
<1> QED  BY <1>3 DEF s

\* One task for each member of a sequence.
LEMMA MappedTasks ==
  ASSUME NEW S, NEW s \in Seq(S), NEW t, t = [i \in DOMAIN s |-> t[i]],
         \A i \in DOMAIN s : IsTask(t[i])
  PROVE  AreTasks(t)
<1>1. Len(s) \in Nat /\ DOMAIN s = 1..Len(s)  OBVIOUS
<1>2. IsSeq(t)  BY <1>1, IndexedIs
<1> QED  BY <1>2 DEF AreTasks

\* A task is replaced by tasks.
LEMMA ThenTasks ==
  ASSUME AreTasks(todo), todo # <<>>, NEW s, AreTasks(s), Then(s)
  PROVE  /\ IsSeq(todo') /\ \A i \in DOMAIN todo' : IsTask(todo'[i])
         /\ Len(todo') = Len(s) + Len(todo) - 1
<1>1. AreTasks(Tail(todo)) /\ Len(Tail(todo)) = Len(todo) - 1 /\ Len(todo) \in Nat
  BY TailIs DEF AreTasks
<1>2. AreTasks(todo')  BY <1>1, ConcatTasks DEF Then
<1>3. Len(todo') = Len(s) + Len(Tail(todo))  BY <1>1, ConcatIs DEF Then, AreTasks
<1>4. Len(s) \in Nat  BY DEF AreTasks, IsSeq
<1> QED  BY <1>1, <1>2, <1>3, <1>4 DEF AreTasks

\* The task at hand.
LEMMA HeadTask ==
  ASSUME TypeOK, todo # <<>>
  PROVE  IsTask(task) /\ AreTasks(todo)
BY TailIs DEF TypeOK, task, AreTasks

-----------------------------------------------------------------------------
(* Paths and violations.                                                   *)

\* A path one element longer.
LEMMA LongerPath ==
  ASSUME NEW p, IsPath(p), NEW f \in STRING
  PROVE  IsPath(Append(p, Element(f, NoSub))) /\ Len(Append(p, Element(f, NoSub))) = Len(p) + 1
<1>1. Element(f, NoSub) \in Elements  BY DEF Element, Elements
<1>2. p \in Seq(Elements)
  <2>1. p \in Seq({p[i] : i \in DOMAIN p}) /\ {p[i] : i \in DOMAIN p} \subseteq Elements
    BY DEF IsPath, IsSeq
  <2> QED  BY <2>1, SeqMonotonic
<1>3. Append(p, Element(f, NoSub)) \in Seq(Elements)
      /\ Len(Append(p, Element(f, NoSub))) = Len(p) + 1
  BY <1>1, <1>2, AppendProperties
<1> QED  BY <1>3, SeqIs DEF IsPath

\* A path one element shorter.
LEMMA ShorterPath ==
  ASSUME NEW p, IsPath(p)
  PROVE  IsPath(SubSeq(p, 1, Len(p) - 1))
<1>1. p \in Seq(Elements)
  <2>1. p \in Seq({p[i] : i \in DOMAIN p}) /\ {p[i] : i \in DOMAIN p} \subseteq Elements
    BY DEF IsPath, IsSeq
  <2> QED  BY <2>1, SeqMonotonic
<1>2. SubSeq(p, 1, Len(p) - 1) \in Seq(Elements)  BY <1>1
<1> QED  BY <1>2, SeqIs DEF IsPath

\* A path with a subscript in place.
LEMMA SubscriptedPath ==
  ASSUME NEW p, IsPath(p), NEW d, NEW sub \in Keys \cup Nat
  PROVE  IsPath([p EXCEPT ![d].sub = sub])
<1> DEFINE q == [p EXCEPT ![d].sub = sub]
<1>1. p \in Seq(Elements)
  <2>1. p \in Seq({p[i] : i \in DOMAIN p}) /\ {p[i] : i \in DOMAIN p} \subseteq Elements
    BY DEF IsPath, IsSeq
  <2> QED  BY <2>1, SeqMonotonic
<1>2. Len(p) \in Nat /\ p \in [1..Len(p) -> Elements]  BY <1>1
<1>3. q \in [1..Len(p) -> Elements]  BY <1>2 DEF Elements
<1>4. q \in Seq(Elements)  BY <1>2, <1>3, IsASeq
<1> HIDE DEF q
<1>5. IsPath(q)  BY <1>4, SeqIs DEF IsPath
<1> QED  BY <1>5 DEF q

\* Recording a violation.
LEMMA RecordTyped ==
  ASSUME TypeOK, NEW rule, NEW where, IsPath(where), Record(rule, where)
  PROVE  /\ IsSeq(list') /\ \A i \in DOMAIN list' : IsViolation(list'[i])
         /\ Len(list') = Len(list) + 1 /\ Len(list) \in Nat
         /\ abort' = IF failFast THEN "fail_fast" ELSE "none"
<1> DEFINE v == [path |-> where, rule |-> rule, key |-> forKey]
<1>1. IsViolation(v)  BY DEF IsViolation, TypeOK
<1>2. list' = Append(list, v)  BY DEF Record
<1> HIDE DEF v
<1> DEFINE S == {list[i] : i \in DOMAIN list} \cup {v}
<1>3. list \in Seq(S)
  BY SeqMonotonic DEF TypeOK, IsSeq
<1>4. list' \in Seq(S) /\ Len(list') = Len(list) + 1  BY <1>2, <1>3, AppendProperties
<1>5. \A w \in S : IsViolation(w)  BY <1>1 DEF TypeOK
<1> HIDE DEF S
<1>6. IsSeq(list') /\ \A i \in DOMAIN list' : list'[i] \in S  BY <1>4, SeqIs
<1>7. Len(list) \in Nat  BY <1>3
<1> QED  BY <1>4, <1>5, <1>6, <1>7 DEF Record

-----------------------------------------------------------------------------
(* Type correctness.                                                       *)

AreViolations(l) == IsSeq(l) /\ \A i \in DOMAIN l : IsViolation(l[i])
Reasons == {"none", "fail_fast", "error"}

\* A step that replaces its task by tasks keeps the types when it keeps those
\* of the path, the flag, the violations and the reason to stop.
LEMMA StepTyped ==
  ASSUME TypeOK, todo # <<>>, NEW s, AreTasks(s), Then(s), UNCHANGED input,
         IsPath(path'), forKey' \in BOOLEAN, AreViolations(list'), abort' \in Reasons
  PROVE  TypeOK'
<1>1. AreTasks(todo)  BY DEF TypeOK, AreTasks
<1>2. IsSeq(todo') /\ \A i \in DOMAIN todo' : IsTask(todo'[i])  BY <1>1, ThenTasks
<1>3. content' \in Messages /\ fails' \subseteq Checks /\ failFast' \in BOOLEAN
  BY DEF TypeOK, input
<1> QED  BY <1>2, <1>3 DEF TypeOK, AreViolations, Reasons

\* The same, for one that only replaces its task.
LEMMA MoveTyped ==
  ASSUME TypeOK, todo # <<>>, NEW s, AreTasks(s), Then(s),
         UNCHANGED <<input, path, forKey, list, abort>>
  PROVE  TypeOK'
<1>1. UNCHANGED input  OBVIOUS
<1>2. IsPath(path') /\ forKey' \in BOOLEAN /\ AreViolations(list') /\ abort' \in Reasons
  BY DEF TypeOK, AreViolations, Reasons
<1> QED  BY <1>1, <1>2, StepTyped

\* The same, for one that ends its task with a violation or with none.
LEMMA FindTyped ==
  ASSUME TypeOK, todo # <<>>, Then(<<>>), UNCHANGED <<input, path, forKey>>,
         NEW rule, NEW where, IsPath(where),
         Record(rule, where) \/ UNCHANGED <<list, abort>>
  PROVE  TypeOK'
<1>1. UNCHANGED input /\ AreTasks(<<>>)  BY NoTask
<1>2. IsPath(path') /\ forKey' \in BOOLEAN  BY DEF TypeOK
<1>3. AreViolations(list') /\ abort' \in Reasons
  <2>1. CASE Record(rule, where)
    BY <2>1, RecordTyped DEF AreViolations, Reasons
  <2>2. CASE UNCHANGED <<list, abort>>
    BY <2>2 DEF TypeOK, AreViolations, Reasons
  <2> QED  BY <2>1, <2>2
<1> QED  BY <1>1, <1>2, <1>3, StepTyped
\* The rules of a type are of their form.
LEMMA RulesOf ==
  ASSUME NEW n \in Nodes
  PROVE  /\ Compiled[TypeOf[n]] \in MessageValidator
         /\ \A i \in DOMAIN Compiled[TypeOf[n]].fields :
              Compiled[TypeOf[n]].fields[i] \in FieldValidator
<1>1. Compiled[TypeOf[n]] \in MessageValidator  BY CompiledAssumption
<1>2. Compiled[TypeOf[n]].fields \in Seq(FieldValidator)  BY <1>1 DEF MessageValidator
<1> QED  BY <1>1, <1>2

\* One task for each rule of a sequence.
LEMMA ChecksAreTasks ==
  ASSUME NEW S, NEW r \in Seq(S), NEW x, NEW frame
  PROVE  AreTasks([i \in DOMAIN r |-> CheckOf(r[i], x, frame)])
<1> DEFINE t == [i \in DOMAIN r |-> CheckOf(r[i], x, frame)]
<1>1. t = [i \in DOMAIN r |-> t[i]]  OBVIOUS
<1>2. \A i \in DOMAIN r : IsTask(t[i])  BY DEF CheckOf, IsTask, Reading, Cleanup
<1> HIDE DEF t
<1>3. AreTasks(t)  BY <1>1, <1>2, MappedTasks
<1> QED  BY <1>3 DEF t

\* A message.
LEMMA MessageTyped == ASSUME TypeOK, Message PROVE TypeOK'
<1> DEFINE n == task.node
           r == Compiled[TypeOf[n]]
           cel == [i \in DOMAIN r.cel |-> CheckOf(r.cel[i], n, n)]
           oneofs == [i \in DOMAIN r.oneofs |->
                        [op |-> "oneof", node |-> n, oneof |-> r.oneofs[i]]]
           required == [i \in DOMAIN r.required |->
                          [op |-> "required", node |-> n, oneof |-> r.required[i]]]
           fields == [i \in DOMAIN r.fields |->
                        [op |-> "field", node |-> n, rules |-> r.fields[i]]]
<1>1. todo # <<>> /\ task.op = "message"  BY DEF Message, Doing, task
<1>2. n \in Nodes  BY <1>1, HeadTask DEF IsTask
<1>3. /\ r.cel \in Seq(STRING) /\ r.fields \in Seq(FieldValidator)
      /\ r.oneofs \in Seq([fields : Seq(STRING), required : BOOLEAN])
      /\ r.required \in Seq([name : STRING, members : SUBSET STRING])
  BY <1>2, RulesOf DEF MessageValidator
<1>4. AreTasks(cel)  BY <1>3, ChecksAreTasks
<1>5. AreTasks(oneofs)
  <2>1. oneofs = [i \in DOMAIN r.oneofs |-> oneofs[i]]
        /\ \A i \in DOMAIN r.oneofs : IsTask(oneofs[i])
    BY DEF IsTask, Reading, Cleanup
  <2> HIDE DEF oneofs
  <2> QED  BY <1>3, <2>1, MappedTasks
<1>6. AreTasks(required)
  <2>1. \A i \in DOMAIN r.required : r.required[i].name \in STRING
    <3> HIDE DEF r
    <3>1. \A i \in DOMAIN r.required :
            r.required[i] \in [name : STRING, members : SUBSET STRING]
      BY <1>3, MemberIs
    <3> QED  BY <3>1
  <2>2. required = [i \in DOMAIN r.required |-> required[i]]
        /\ \A i \in DOMAIN r.required : IsTask(required[i])
    BY <2>1 DEF IsTask, Reading, Cleanup
  <2> HIDE DEF required
  <2> QED  BY <1>3, <2>2, MappedTasks
<1>7. AreTasks(fields)
  <2>1. fields = [i \in DOMAIN r.fields |-> fields[i]]
        /\ \A i \in DOMAIN r.fields : IsTask(fields[i])
    BY <1>2 DEF IsTask, Reading, Cleanup
  <2> HIDE DEF fields
  <2> QED  BY <1>3, <2>1, MappedTasks
<1>8. Then(cel \o oneofs \o required \o fields) /\ UNCHANGED <<input, path, forKey, list, abort>>
  BY DEF Message
<1> HIDE DEF cel, oneofs, required, fields
<1>9. AreTasks(cel \o oneofs \o required \o fields)
  BY <1>4, <1>5, <1>6, <1>7, ConcatTasks
<1> QED  BY <1>1, <1>8, <1>9, MoveTyped

\* The rules of a message, and its oneofs.
LEMMA FindingsTyped == ASSUME TypeOK, Check \/ Oneof \/ OneofRequired PROVE TypeOK'
<1>1. IsPath(path)  BY DEF TypeOK
<1>2. CASE Check
  <2>1. /\ todo # <<>> /\ Then(<<>>) /\ UNCHANGED <<input, path, forKey>>
        /\ Record(task.rule, path) \/ UNCHANGED <<list, abort>>
    BY <1>2 DEF Check, Doing
  <2> QED  BY <1>1, <2>1, FindTyped
<1>3. CASE Oneof
  <2>1. /\ todo # <<>> /\ Then(<<>>) /\ UNCHANGED <<input, path, forKey>>
        /\ Record("message.oneof", path) \/ UNCHANGED <<list, abort>>
    BY <1>3 DEF Oneof, Doing
  <2> QED  BY <1>1, <2>1, FindTyped
<1>4. CASE OneofRequired
  <2>1. todo # <<>> /\ task.op = "required"  BY <1>4 DEF OneofRequired, Doing, task
  <2>2. task.oneof.name \in STRING  BY <2>1, HeadTask DEF IsTask
  <2>3. IsPath(Append(path, Element(task.oneof.name, NoSub)))  BY <1>1, <2>2, LongerPath
  <2>4. /\ Then(<<>>) /\ UNCHANGED <<input, path, forKey>>
        /\ Record("required", Append(path, Element(task.oneof.name, NoSub)))
           \/ UNCHANGED <<list, abort>>
    BY <1>4 DEF OneofRequired
  <2> QED  BY <2>1, <2>3, <2>4, FindTyped
<1> QED  BY <1>2, <1>3, <1>4
\* The field at hand.
LEMMA FieldAtHand ==
  ASSUME TypeOK, Doing("field")
  PROVE  /\ todo # <<>> /\ task.node \in Nodes /\ task.rules \in FieldValidator
         /\ task.rules.field \in STRING
         /\ \E i \in DOMAIN Compiled[TypeOf[task.node]].fields :
              task.rules = Compiled[TypeOf[task.node]].fields[i]
<1>1. todo # <<>> /\ task.op = "field"  BY DEF Doing, task
<1>2. IsTask(task)  BY <1>1, HeadTask
<1>3. /\ task.node \in Nodes
      /\ \E i \in DOMAIN Compiled[TypeOf[task.node]].fields :
           task.rules = Compiled[TypeOf[task.node]].fields[i]
  BY <1>1, <1>2 DEF IsTask
<1>4. task.rules \in FieldValidator  BY <1>3, RulesOf
<1> QED  BY <1>1, <1>3, <1>4 DEF FieldValidator

\* A field that is not entered.
LEMMA FieldTyped == ASSUME TypeOK, FieldBroken \/ FieldMissing \/ FieldSkipped PROVE TypeOK'
<1>1. CASE FieldBroken
  <2>1. /\ todo # <<>> /\ Then(<<>>) /\ UNCHANGED input
        /\ UNCHANGED <<path, forKey, list>> /\ abort' = "error"
    BY <1>1 DEF FieldBroken, Doing
  <2>2. IsPath(path') /\ forKey' \in BOOLEAN /\ AreViolations(list') /\ abort' \in Reasons
    BY <2>1 DEF TypeOK, AreViolations, Reasons
  <2> QED  BY <2>1, <2>2, NoTask, StepTyped
<1>2. CASE FieldMissing
  <2>1. Doing("field")  BY <1>2 DEF FieldMissing, DoingField
  <2>2. todo # <<>> /\ task.rules.field \in STRING  BY <2>1, FieldAtHand
  <2>3. IsPath(Append(path, Element(task.rules.field, NoSub)))
    BY <2>2, LongerPath DEF TypeOK
  <2>4. /\ Then(<<>>) /\ UNCHANGED <<input, path, forKey>>
        /\ Record("required", Append(path, Element(task.rules.field, NoSub)))
    BY <1>2 DEF FieldMissing
  <2> QED  BY <2>2, <2>3, <2>4, FindTyped
<1>3. CASE FieldSkipped
  <2>1. /\ todo # <<>> /\ Then(<<>>) /\ UNCHANGED <<input, path, forKey, list, abort>>
    BY <1>3 DEF FieldSkipped, DoingField, Doing
  <2> QED  BY <2>1, NoTask, MoveTyped
<1> QED  BY <1>1, <1>2, <1>3

\* A field that is: the value of a map field is its entries.
LEMMA FieldEnteredTyped == ASSUME TypeOK, FieldEntered PROVE TypeOK'
<1> DEFINE v == task.rules
           x == content[task.node][v.field]
           own == [op |-> "value", rules |-> v.value, value |-> x,
                   frame |-> FrameOf(v, task.node)]
           inside == [op |-> "inside", rules |-> v, value |-> x]
           isIn == x # NoValue /\ ((v.kind = "list" /\ v.items # NoItem) \/ v.kind = "map")
           rest == IF isIn THEN <<inside>> ELSE <<>>
<1>1. Doing("field")  BY DEF FieldEntered, DoingField
<1>2. /\ todo # <<>> /\ task.node \in Nodes /\ v \in FieldValidator /\ v.field \in STRING
      /\ \E i \in DOMAIN Compiled[TypeOf[task.node]].fields :
           v = Compiled[TypeOf[task.node]].fields[i]
  BY <1>1, FieldAtHand
<1>3. v.kind = "map" => x = NoValue \/ IsEntries(x)
  BY <1>2, MessagesAssumption DEF TypeOK
<1>4. v.value \in ValueValidator  BY <1>2 DEF FieldValidator
<1>5. IsTask(own)  BY <1>4 DEF IsTask, Reading, Cleanup
<1>6. isIn => IsTask(inside)
  BY <1>2, <1>3 DEF IsTask, Reading, Cleanup
<1>7. /\ Then(<<own, [op |-> "leave"]>> \o rest)
      /\ path' = Append(path, Element(v.field, NoSub))
      /\ UNCHANGED input /\ UNCHANGED <<forKey, list, abort>>
  BY DEF FieldEntered
<1>8. IsPath(path')  BY <1>2, <1>7, LongerPath DEF TypeOK
<1> HIDE DEF own, inside, isIn, v, x
<1>9. AreTasks(rest)  BY <1>6, OneTask, NoTask
<1> HIDE DEF rest
<1>10. IsTask([op |-> "leave"])  BY DEF IsTask, Reading, Cleanup
<1>11. AreTasks(<<own, [op |-> "leave"]>>)  BY <1>5, <1>10, TwoTasks
<1>12. AreTasks(<<own, [op |-> "leave"]>> \o rest)  BY <1>9, <1>11, ConcatTasks
<1>13. forKey' \in BOOLEAN /\ AreViolations(list') /\ abort' \in Reasons
  BY <1>7 DEF TypeOK, AreViolations, Reasons
<1> QED  BY <1>2, <1>7, <1>8, <1>12, <1>13, StepTyped

\* A value and its rules.
LEMMA ValueTyped == ASSUME TypeOK, Value PROVE TypeOK'
<1> DEFINE r == task.rules
           rules == r.custom \o r.checks \o r.predefined
           checks == [i \in DOMAIN rules |-> CheckOf(rules[i], task.value, task.frame)]
           below == IF task.value \in Nodes
                      THEN <<[op |-> "message", node |-> task.value]>> ELSE <<>>
<1>1. todo # <<>> /\ task.op = "value"  BY DEF Value, Doing, task
<1>2. r \in ValueValidator  BY <1>1, HeadTask DEF IsTask
<1>3. rules \in Seq(STRING)
  <2>1. r.custom \in Seq(STRING) /\ r.checks \in Seq(STRING) /\ r.predefined \in Seq(STRING)
    BY <1>2 DEF ValueValidator
  <2> HIDE DEF r
  <2>2. r.custom \o r.checks \in Seq(STRING)  BY <2>1, ConcatProperties
  <2> QED  BY <2>1, <2>2, ConcatProperties
<1>4. Then(checks \o below) /\ UNCHANGED <<input, path, forKey, list, abort>>
  BY DEF Value
<1> HIDE DEF rules
<1>5. AreTasks(checks)  BY <1>3, ChecksAreTasks
<1>6. AreTasks(below)
  <2>1. CASE task.value \in Nodes
    <3>1. IsTask([op |-> "message", node |-> task.value])
      BY <2>1 DEF IsTask, Reading, Cleanup
    <3> QED  BY <2>1, <3>1, OneTask
  <2>2. CASE task.value \notin Nodes  BY <2>2, NoTask
  <2> QED  BY <2>1, <2>2
<1> HIDE DEF checks, below
<1>7. AreTasks(checks \o below)  BY <1>5, <1>6, ConcatTasks
<1> QED  BY <1>1, <1>4, <1>7, MoveTyped
\* What is inside a field.
LEMMA InsideTyped == ASSUME TypeOK, Inside PROVE TypeOK'
<1> DEFINE first == [op |-> IF task.rules.kind = "list" THEN "items" ELSE "entries",
                     rules |-> task.rules, value |-> task.value, next |-> 1]
<1>1. todo # <<>> /\ task.op = "inside"  BY DEF Inside, Doing, task
<1>2. /\ task.rules \in FieldValidator /\ task.rules.kind \in {"list", "map"}
      /\ task.rules.kind = "list" => task.rules.items # NoItem
      /\ task.rules.kind = "map" => IsEntries(task.value)
  BY <1>1, HeadTask DEF IsTask
<1>3. IsTask(first)  BY <1>2 DEF IsTask, Reading, Cleanup
<1>4. IsTask([op |-> "leave"])  BY DEF IsTask, Reading, Cleanup
<1>5. /\ Then(<<first, [op |-> "leave"]>>) /\ UNCHANGED input
      /\ path' = Append(path, Element(task.rules.field, NoSub))
      /\ UNCHANGED <<forKey, list, abort>>
  BY DEF Inside
<1> HIDE DEF first
<1>6. AreTasks(<<first, [op |-> "leave"]>>)  BY <1>3, <1>4, TwoTasks
<1>7. task.rules.field \in STRING  BY <1>2 DEF FieldValidator
<1>8. IsPath(path')  BY <1>5, <1>7, LongerPath DEF TypeOK
<1>9. forKey' \in BOOLEAN /\ AreViolations(list') /\ abort' \in Reasons
  BY <1>5 DEF TypeOK, AreViolations, Reasons
<1> QED  BY <1>1, <1>5, <1>6, <1>8, <1>9, StepTyped

\* The end of a list or a map, and an entry's part without rules.
LEMMA EndTyped == ASSUME TypeOK, ContainerEnd \/ PartSkipped PROVE TypeOK'
<1>1. todo # <<>> /\ Then(<<>>) /\ UNCHANGED <<input, path, forKey, list, abort>>
  BY DEF ContainerEnd, PartSkipped, Doing
<1> QED  BY <1>1, NoTask, MoveTyped

\* The list or map goes on.
LEMMA OnwardIsTask ==
  ASSUME TypeOK, Doing("items") \/ Doing("entries")
  PROVE  IsTask(Onward) /\ IsTask(task) /\ task.next \in Nat /\ todo # <<>>
<1>1. todo # <<>> /\ task.op \in {"items", "entries"}  BY DEF Doing, task
<1>2. IsTask(task)  BY <1>1, HeadTask
<1>3. task.next \in Nat /\ task.next + 1 \in Nat \ {0}  BY <1>1, <1>2 DEF IsTask
<1>4. /\ Onward.op = task.op /\ Onward.rules = task.rules /\ Onward.value = task.value
      /\ Onward.next = task.next + 1
  BY DEF Onward
<1>5. IsTask(Onward)  BY <1>1, <1>2, <1>3, <1>4 DEF IsTask, Reading, Cleanup
<1> QED  BY <1>1, <1>2, <1>3, <1>5

\* The value of an item, a key or an entry is a task.
LEMMA ItemIsTask ==
  ASSUME NEW item \in ItemValidator, NEW x
  PROVE  IsTask(ItemTask(item, x))
<1>1. item.value \in ValueValidator  BY DEF ItemValidator
<1> QED  BY <1>1 DEF ItemTask, IsTask, Reading, Cleanup

\* An item.
LEMMA ItemTyped == ASSUME TypeOK, ItemSkipped \/ Item PROVE TypeOK'
<1>1. Doing("items")  BY DEF ItemSkipped, Item
<1>2. /\ IsTask(Onward) /\ IsTask(task) /\ task.next \in Nat /\ todo # <<>>
      /\ task.op = "items"
  BY <1>1, OnwardIsTask DEF Doing, task
<1>3. CASE ItemSkipped
  <2>1. Then(<<Onward>>) /\ UNCHANGED <<input, path, forKey, list, abort>>
    BY <1>3 DEF ItemSkipped
  <2> QED  BY <1>2, <2>1, OneTask, MoveTyped
<1>4. CASE Item
  <2> DEFINE x == task.value[task.next]
  <2>1. /\ Then(<<ItemTask(task.rules.items, x), Onward>>)
        /\ path' = [path EXCEPT ![Len(path)].sub = task.next - 1]
        /\ UNCHANGED input /\ UNCHANGED <<forKey, list, abort>>
    BY <1>4 DEF Item
  <2> HIDE DEF x
  <2>2. task.rules.items \in ItemValidator /\ task.next - 1 \in Nat
    BY <1>2 DEF IsTask, FieldValidator
  <2>3. AreTasks(<<ItemTask(task.rules.items, x), Onward>>)
    BY <1>2, <2>2, ItemIsTask, TwoTasks
  <2>4. IsPath(path')  BY <2>1, <2>2, SubscriptedPath DEF TypeOK
  <2>5. forKey' \in BOOLEAN /\ AreViolations(list') /\ abort' \in Reasons
    BY <2>1 DEF TypeOK, AreViolations, Reasons
  <2> QED  BY <1>2, <2>1, <2>3, <2>4, <2>5, StepTyped
<1> QED  BY <1>3, <1>4

\* An entry.
LEMMA EntryTyped == ASSUME TypeOK, Entry PROVE TypeOK'
<1> DEFINE e == task.value[task.next]
           key == [op |-> "key", item |-> task.rules.keys, value |-> e.key]
           value == [op |-> "entryValue", item |-> task.rules.values, value |-> e.value]
           subscript == [op |-> "subscript", recorded |-> Len(list), key |-> e.key]
<1>1. /\ IsTask(Onward) /\ IsTask(task) /\ task.next \in Nat /\ todo # <<>>
      /\ task.op = "entries"
  BY OnwardIsTask DEF Entry, Doing, task
<1>2. task.rules \in FieldValidator /\ task.next \in Nat \ {0}
      /\ IsEntries(task.value)
  BY <1>1 DEF IsTask
<1>3. e.key \in Keys
  <2>1. ~(task.next > Len(task.value))  BY DEF Entry, Ended
  <2>2. IsSeq(task.value) /\ \A i \in DOMAIN task.value : task.value[i].key \in Keys
    BY <1>2, <2>1 DEF IsEntries
  <2>3. Len(task.value) \in Nat /\ DOMAIN task.value = 1..Len(task.value)
    BY <2>2 DEF IsSeq
  <2>4. task.next \in DOMAIN task.value  BY <1>2, <2>1, <2>3
  <2> QED  BY <2>2, <2>4
<1>4. task.rules.keys \in ItemValidator \cup {NoItem}
      /\ task.rules.values \in ItemValidator \cup {NoItem}
  BY <1>2 DEF FieldValidator
<1>5. Len(list) \in Nat  BY DEF TypeOK, IsSeq
<1>6. IsTask(key) /\ IsTask(value)  BY <1>4 DEF IsTask, Reading, Cleanup
<1>7. IsTask(subscript)  BY <1>3, <1>5 DEF IsTask, Reading, Cleanup
<1>8. /\ Then(<<key, value, subscript, Onward>>)
      /\ UNCHANGED <<input, path, forKey, list, abort>>
  BY DEF Entry
<1> HIDE DEF key, value, subscript
<1>9. AreTasks(<<key, value, subscript, Onward>>)  BY <1>1, <1>6, <1>7, FourTasks
<1> QED  BY <1>1, <1>8, <1>9, MoveTyped

\* An entry's key and its value.
LEMMA PartTyped == ASSUME TypeOK, Key \/ EntryValue PROVE TypeOK'
<1>1. todo # <<>> /\ task.op \in {"key", "entryValue"} /\ task.item # NoItem
  BY DEF Key, EntryValue, Doing, task, EntrySkipped
<1>2. task.item \in ItemValidator  BY <1>1, HeadTask DEF IsTask
<1> DEFINE own == ItemTask(task.item, task.value)
<1>3. IsTask(own)  BY <1>2, ItemIsTask
<1>4. CASE Key
  <2>1. /\ Then(<<own, [op |-> "keyDone"]>>) /\ forKey' = TRUE /\ UNCHANGED input
        /\ UNCHANGED <<path, list, abort>>
    BY <1>4 DEF Key
  <2> HIDE DEF own
  <2>2. IsTask([op |-> "keyDone"])  BY DEF IsTask, Reading, Cleanup
  <2>3. AreTasks(<<own, [op |-> "keyDone"]>>)  BY <1>3, <2>2, TwoTasks
  <2>4. IsPath(path') /\ forKey' \in BOOLEAN /\ AreViolations(list') /\ abort' \in Reasons
    BY <2>1 DEF TypeOK, AreViolations, Reasons
  <2> QED  BY <1>1, <2>1, <2>3, <2>4, StepTyped
<1>5. CASE EntryValue
  <2>1. Then(<<own>>) /\ UNCHANGED <<input, path, forKey, list, abort>>
    BY <1>5 DEF EntryValue
  <2> HIDE DEF own
  <2> QED  BY <1>1, <1>3, <2>1, OneTask, MoveTyped
<1> QED  BY <1>4, <1>5
\* The violations with a subscript set on some of them.
LEMMA SubscriptTyped ==
  ASSUME TypeOK, Subscript
  PROVE  AreViolations(list') /\ Len(list') = Len(list)
<1>1. todo # <<>> /\ task.op = "subscript"  BY DEF Subscript, Returning, task
<1>2. task.key \in Keys /\ task.recorded \in Nat  BY <1>1, HeadTask DEF IsTask
<1>3. Len(list) \in Nat /\ DOMAIN list = 1..Len(list)  BY DEF TypeOK, IsSeq
<1>4. list' = [i \in DOMAIN list |->
        IF i > task.recorded THEN [list[i] EXCEPT !.path[Len(path)].sub = task.key] ELSE list[i]]
  BY DEF Subscript
<1>5. list' = [i \in 1..Len(list) |-> list'[i]]  BY <1>3, <1>4
<1>6. IsSeq(list') /\ Len(list') = Len(list)  BY <1>3, <1>5, IndexedIs
<1>7. ASSUME NEW i \in DOMAIN list
      PROVE  IsViolation(list'[i])
  <2>1. IsViolation(list[i])  BY DEF TypeOK
  <2> DEFINE q == [list[i].path EXCEPT ![Len(path)].sub = task.key]
  <2>2. IsPath(q)  BY <1>2, <2>1, SubscriptedPath DEF IsViolation
  <2>3. CASE i > task.recorded
    <3>1. list[i] = [path |-> list[i].path, rule |-> list[i].rule, key |-> list[i].key]
      BY <2>1 DEF IsViolation
    <3>2. list'[i] = [list[i] EXCEPT !.path = q]  BY <1>4, <2>3
    <3> HIDE DEF q
    <3>3. list'[i] = [path |-> q, rule |-> list[i].rule, key |-> list[i].key]
      BY <3>1, <3>2
    <3> QED  BY <2>1, <2>2, <3>3 DEF IsViolation
  <2>4. CASE ~(i > task.recorded)  BY <1>4, <2>1, <2>4
  <2> QED  BY <2>3, <2>4
<1>8. DOMAIN list' = DOMAIN list  BY <1>4
<1> QED  BY <1>6, <1>7, <1>8 DEF AreViolations

\* The returns, and the end of what is not a return.
LEMMA ReturnTyped ==
  ASSUME TypeOK, Leave \/ KeyDone \/ Subscript \/ Unwind \/ Raise PROVE TypeOK'
<1>1. CASE Leave
  <2>1. todo # <<>> /\ Then(<<>>) /\ UNCHANGED input
    BY <1>1 DEF Leave, Returning
  <2>2. IsPath(path')  BY <1>1, ShorterPath DEF Leave, TypeOK
  <2>3. forKey' \in BOOLEAN /\ AreViolations(list') /\ abort' \in Reasons
    BY <1>1 DEF Leave, TypeOK, AreViolations, Reasons
  <2> QED  BY <2>1, <2>2, <2>3, NoTask, StepTyped
<1>2. CASE KeyDone
  <2>1. todo # <<>> /\ Then(<<>>) /\ UNCHANGED input
    BY <1>2 DEF KeyDone, Returning
  <2>2. IsPath(path') /\ forKey' \in BOOLEAN /\ AreViolations(list') /\ abort' \in Reasons
    BY <1>2 DEF KeyDone, TypeOK, AreViolations, Reasons
  <2> QED  BY <2>1, <2>2, NoTask, StepTyped
<1>3. CASE Subscript
  <2>1. todo # <<>> /\ Then(<<>>) /\ UNCHANGED input
    BY <1>3 DEF Subscript, Returning
  <2>2. IsPath(path') /\ forKey' \in BOOLEAN /\ abort' \in Reasons
    BY <1>3 DEF Subscript, TypeOK, Reasons
  <2>3. AreViolations(list')  BY <1>3, SubscriptTyped
  <2> QED  BY <2>1, <2>2, <2>3, NoTask, StepTyped
<1>4. CASE Unwind
  <2>1. todo # <<>> /\ Then(<<>>) /\ UNCHANGED <<input, path, forKey, list, abort>>
    BY <1>4 DEF Unwind
  <2> QED  BY <2>1, NoTask, MoveTyped
<1>5. CASE Raise
  <2>1. /\ todo # <<>> /\ Then(<<>>) /\ UNCHANGED input /\ abort' = "error"
        /\ UNCHANGED <<path, forKey, list>>
    BY <1>5 DEF Raise, Doing
  <2>2. IsPath(path') /\ forKey' \in BOOLEAN /\ AreViolations(list') /\ abort' \in Reasons
    BY <2>1 DEF TypeOK, AreViolations, Reasons
  <2> QED  BY <2>1, <2>2, NoTask, StepTyped
<1> QED  BY <1>1, <1>2, <1>3, <1>4, <1>5

\* The walk starts with the message it is given.
LEMMA InitTyped == Init => TypeOK
<1> SUFFICES ASSUME Init PROVE TypeOK
  OBVIOUS
<1> DEFINE first == [op |-> "message", node |-> Root]
<1>1. IsTask(first)  BY CompiledAssumption DEF IsTask, Reading, Cleanup
<1>2. todo = <<first>>  BY DEF Init
<1> HIDE DEF first
<1>3. AreTasks(todo)  BY <1>1, <1>2, OneTask
<1>4. IsSeq(<<>>) /\ DOMAIN <<>> = {}  BY DEF IsSeq
<1> QED  BY <1>3, <1>4 DEF Init, TypeOK, AreTasks, IsPath

\* Every step keeps the types.
LEMMA NextTyped == TypeOK /\ [Next]_vars => TypeOK'
<1> SUFFICES ASSUME TypeOK, [Next]_vars PROVE TypeOK'
  OBVIOUS
<1>1. CASE Next
  <2>1. CASE Message \/ Check \/ Oneof \/ OneofRequired
    BY <2>1, MessageTyped, FindingsTyped
  <2>2. CASE FieldBroken \/ FieldMissing \/ FieldSkipped \/ FieldEntered \/ Value
    BY <2>2, FieldTyped, FieldEnteredTyped, ValueTyped
  <2>3. CASE Inside \/ ContainerEnd \/ ItemSkipped \/ Item \/ Entry
    BY <2>3, InsideTyped, EndTyped, ItemTyped, EntryTyped
  <2>4. CASE PartSkipped \/ Key \/ EntryValue
    BY <2>4, EndTyped, PartTyped
  <2>5. CASE Leave \/ KeyDone \/ Subscript \/ Unwind \/ Raise
    BY <2>5, ReturnTyped
  <2> QED  BY <1>1, <2>1, <2>2, <2>3, <2>4, <2>5 DEF Next, Step
<1>2. CASE UNCHANGED vars
  BY <1>2 DEF vars, TypeOK
<1> QED  BY <1>1, <1>2

\* Whatever the message, its rules and what they find, the walk's path, its
\* violations and the calls it is inside are of their form (rules/eval.rs).
THEOREM TypeCorrect == Spec => []TypeOK
<1>1. Init => TypeOK  BY InitTyped
<1>2. TypeOK /\ [Next]_vars => TypeOK'  BY NextTyped
<1> QED  BY <1>1, <1>2, PTL DEF Spec

-----------------------------------------------------------------------------
(* Failing fast.                                                           *)

\* What a step does to the violations and to the reason to stop: it records
\* one, it raises, or it leaves both; in no way while the walk is aborted.
LEMMA StepOutcome ==
  ASSUME TypeOK, Next
  PROVE  /\ todo # <<>> /\ UNCHANGED input
         /\ \/ /\ abort = "none"
               /\ Len(list') = Len(list) + 1
               /\ abort' = IF failFast THEN "fail_fast" ELSE "none"
            \/ abort = "none" /\ list' = list /\ abort' = "error"
            \/ Len(list') = Len(list) /\ abort' = abort
<1>1. CASE Check \/ Oneof \/ OneofRequired \/ FieldMissing
  <2>1. /\ todo # <<>> /\ UNCHANGED input /\ abort = "none"
        /\ (\E rule, where : Record(rule, where)) \/ UNCHANGED <<list, abort>>
    BY <1>1 DEF Check, Oneof, OneofRequired, FieldMissing, DoingField, Doing
  <2>2. ASSUME NEW rule, NEW where, Record(rule, where)
        PROVE  /\ Len(list') = Len(list) + 1
               /\ abort' = IF failFast THEN "fail_fast" ELSE "none"
    <3>1. list \in Seq({list[i] : i \in DOMAIN list})  BY DEF TypeOK, IsSeq
    <3> QED  BY <2>2, <3>1 DEF Record
  <2> QED  BY <2>1, <2>2
<1>2. CASE FieldBroken \/ Raise
  BY <1>2 DEF FieldBroken, Raise, Doing
<1>3. CASE Subscript
  BY <1>3, SubscriptTyped DEF Subscript, Returning
<1>4. CASE Message \/ FieldSkipped \/ FieldEntered \/ Value \/ Inside
  BY <1>4 DEF Message, FieldSkipped, FieldEntered, Value, Inside, DoingField, Doing
<1>5. CASE ContainerEnd \/ ItemSkipped \/ Item \/ Entry \/ PartSkipped \/ Key \/ EntryValue
  BY <1>5 DEF ContainerEnd, ItemSkipped, Item, Entry, PartSkipped, Key, EntryValue, Doing
<1>6. CASE Leave \/ KeyDone \/ Unwind
  BY <1>6 DEF Leave, KeyDone, Unwind, Returning
<1> QED  BY <1>1, <1>2, <1>3, <1>4, <1>5, <1>6 DEF Next, Step

\* A walk that fails fast records one violation at most and stops at it; one
\* that does not is never stopped by a violation (Violations::push).
THEOREM FailsFast == Spec => []StopsAtFirst
<1>1. Init => StopsAtFirst  BY DEF Init, StopsAtFirst
<1>2. TypeOK /\ StopsAtFirst /\ [Next]_vars => StopsAtFirst'
  <2> SUFFICES ASSUME TypeOK, StopsAtFirst, [Next]_vars PROVE StopsAtFirst'
    OBVIOUS
  <2>1. CASE Next
    <3>1. Len(list) \in Nat  BY DEF TypeOK, IsSeq
    <3>2. failFast' = failFast  BY <2>1, StepOutcome DEF input
    <3>3. failFast \in BOOLEAN  BY DEF TypeOK
    <3>4. CASE /\ abort = "none" /\ Len(list') = Len(list) + 1
               /\ abort' = IF failFast THEN "fail_fast" ELSE "none"
      BY <3>1, <3>2, <3>3, <3>4 DEF StopsAtFirst
    <3>5. CASE abort = "none" /\ list' = list /\ abort' = "error"
      BY <3>1, <3>2, <3>5 DEF StopsAtFirst
    <3>6. CASE Len(list') = Len(list) /\ abort' = abort
      BY <3>1, <3>2, <3>6 DEF StopsAtFirst
    <3> QED  BY <2>1, <3>4, <3>5, <3>6, StepOutcome
  <2>2. CASE UNCHANGED vars
    BY <2>2 DEF vars, StopsAtFirst
  <2> QED  BY <2>1, <2>2
<1> QED  BY <1>1, <1>2, TypeCorrect, PTL DEF Spec

\* Once the walk is being aborted it records nothing and keeps its reason,
\* and every step returns from a call (the `?` of rules/eval.rs).
THEOREM AbortStays == Spec => AbortIsFinal
<1> DEFINE A == abort # "none" =>
                  abort' = abort /\ Len(list') = Len(list) /\ Len(todo') < Len(todo)
<1>1. TypeOK /\ [Next]_vars => [A]_vars
  <2> SUFFICES ASSUME TypeOK, Next, abort # "none"
               PROVE  abort' = abort /\ Len(list') = Len(list) /\ Len(todo') < Len(todo)
    OBVIOUS
  <2>1. Leave \/ KeyDone \/ Subscript \/ Unwind
    <3>1. ~(Message \/ Check \/ Oneof \/ OneofRequired \/ Raise)
      BY DEF Message, Check, Oneof, OneofRequired, Raise, Doing
    <3>2. ~(FieldBroken \/ FieldMissing \/ FieldSkipped \/ FieldEntered \/ Value \/ Inside)
      BY DEF FieldBroken, FieldMissing, FieldSkipped, FieldEntered, Value, Inside,
             DoingField, Doing
    <3>3. ~(ContainerEnd \/ ItemSkipped \/ Item \/ Entry \/ PartSkipped \/ Key \/ EntryValue)
      BY DEF ContainerEnd, ItemSkipped, Item, Entry, PartSkipped, Key, EntryValue, Doing
    <3> QED  BY <3>1, <3>2, <3>3 DEF Next, Step
  <2>2. todo # <<>> /\ Then(<<>>)
    BY <2>1 DEF Leave, KeyDone, Subscript, Unwind, Returning
  <2>3. Len(todo') = Len(<<>>) + Len(todo) - 1
    BY <2>2, NoTask, ThenTasks DEF TypeOK, AreTasks
  <2>4. Len(todo) \in Nat  BY DEF TypeOK, IsSeq
  <2>5. Len(todo') < Len(todo)  BY <2>3, <2>4, NoTask
  <2> QED  BY <2>5, StepOutcome
<1> QED  BY <1>1, TypeCorrect, PTL DEF Spec, AbortIsFinal
=============================================================================
