-------------------------------- MODULE Walk --------------------------------
(***************************************************************************)
(* One validation: the walk over a message with the compiled rules of its  *)
(* type (rules/eval.rs).  The call stack of the validators is an agenda:   *)
(* the tasks left, next first.  An error, or the first violation when      *)
(* failing fast, aborts the walk; the clean-up of the calls it is inside   *)
(* still runs, and may still touch the violations.                         *)
(*                                                                         *)
(* A rule is a name, and what it finds is chosen in advance: fails has the *)
(* pairs of a rule and a value it fails on.  Reading the message calls     *)
(* Python, and may raise, as may a rule.  A message type whose rules are   *)
(* never built (an Any's, say) is one without rules.                       *)
(***************************************************************************)
EXTENDS Naturals, Sequences, FiniteSets

CONSTANTS
  Nodes, Root,    \* the messages, and the one validated
  Types, TypeOf,  \* TypeOf[n]: the type of message n
  Compiled,       \* Compiled[m]: the rules of message type m
  Messages,       \* the contents to consider: c[n][f] is the value of field
                  \* f of message n: a scalar, a message, a sequence of items
                  \* or of entries [key, value], or NoValue
  NoValue,
  Keys,           \* map keys
  Presence,       \* fields that track presence
  Unset,          \* scalars that are not serialized: zero, but for a negative zero
  Empty,          \* scalars that are zero, messages that encode to nothing
  NoItem,         \* no validator for the items, keys or values
  NoSub, NoFrame,
  Checks,         \* the pairs of a rule and a value that may fail
  MaxFails        \* how many of them do, at most

(***************************************************************************)
(* The compiled rules: of a value, three sequences of rules; of an item;   *)
(* of a field; of a message type, with its (message).oneof and             *)
(* (oneof).required rules.                                                 *)
(***************************************************************************)
ValueValidator ==
  [custom : Seq(STRING), checks : Seq(STRING), predefined : Seq(STRING)]
ItemValidator == [ignoreEmpty : BOOLEAN, value : ValueValidator]
FieldValidator ==
  [field : STRING, broken : BOOLEAN, required : BOOLEAN, ignoreEmpty : BOOLEAN,
   value : ValueValidator, kind : {"scalar", "message", "list", "map"},
   items : ItemValidator \cup {NoItem}, keys : ItemValidator \cup {NoItem},
   values : ItemValidator \cup {NoItem}]
MessageValidator ==
  [cel : Seq(STRING),
   oneofs : Seq([fields : Seq(STRING), required : BOOLEAN]),
   required : Seq([name : STRING, members : SUBSET STRING]),
   fields : Seq(FieldValidator)]

ASSUME CompiledAssumption ==
  /\ Root \in Nodes /\ TypeOf \in [Nodes -> Types]
  /\ Compiled \in [Types -> MessageValidator]

IsSeq(s) == s \in Seq({s[i] : i \in DOMAIN s})
IsEntries(x) == IsSeq(x) /\ \A i \in DOMAIN x : x[i].key \in Keys

\* The value of a map field is its entries.
ASSUME MessagesAssumption ==
  \A c \in Messages, n \in Nodes : \A i \in DOMAIN Compiled[TypeOf[n]].fields :
    LET v == Compiled[TypeOf[n]].fields[i] IN
      v.kind = "map" => c[n][v.field] = NoValue \/ IsEntries(c[n][v.field])
ASSUME MaxFailsAssumption == MaxFails \in Nat

VARIABLES
  content,   \* the message
  fails,     \* the checks that fail
  failFast,
  todo,      \* the tasks left, next first
  path,      \* the field path the walk is at
  forKey,    \* whether it is at a map key
  list,      \* the violations recorded
  abort      \* why the walk is stopping: "none", "fail_fast", "error"

vars == <<content, fails, failFast, todo, path, forKey, list, abort>>
input == <<content, fails, failFast>>

Element(f, sub) == [field |-> f, sub |-> sub]
CheckOf(rule, x, frame) == [op |-> "check", rule |-> rule, value |-> x, frame |-> frame]

Init ==
  /\ content \in Messages
  /\ fails \in SUBSET Checks /\ Cardinality(fails) <= MaxFails
  /\ failFast \in BOOLEAN
  /\ todo = <<[op |-> "message", node |-> Root]>>
  /\ path = <<>> /\ forKey = FALSE
  /\ list = <<>> /\ abort = "none"

\* A field that tracks presence knows; any other is set unless it is empty.
IsSet(n, f) ==
  IF f \in Presence THEN content[n][f] # NoValue
                    ELSE content[n][f] \notin Unset \cup {NoValue, <<>>}

-----------------------------------------------------------------------------
(* Recording.                                                              *)

\* Mutant: the walk goes on.
RecordOnly(rule, where) ==
  /\ list' = Append(list, [path |-> where, rule |-> rule, key |-> forKey])
  /\ UNCHANGED abort

\* A violation at the given path; when failing fast, the walk stops here.
Record(rule, where) ==
  /\ list' = Append(list, [path |-> where, rule |-> rule, key |-> forKey])
  /\ abort' = IF failFast THEN "fail_fast" ELSE "none"

Doing(op) == abort = "none" /\ todo # <<>> /\ Head(todo).op = op
task == Head(todo)
Then(tasks) == todo' = tasks \o Tail(todo)

-----------------------------------------------------------------------------
(* Messages.                                                               *)

\* MessageValidator.validate: the message's own rules, then its fields.
Message ==
  /\ Doing("message")
  /\ LET n == task.node
         r == Compiled[TypeOf[n]]
     IN Then([i \in DOMAIN r.cel |-> CheckOf(r.cel[i], n, n)]
             \o [i \in DOMAIN r.oneofs |-> [op |-> "oneof", node |-> n, oneof |-> r.oneofs[i]]]
             \o [i \in DOMAIN r.required |->
                   [op |-> "required", node |-> n, oneof |-> r.required[i]]]
             \o [i \in DOMAIN r.fields |-> [op |-> "field", node |-> n, rules |-> r.fields[i]]])
  /\ UNCHANGED <<input, path, forKey, list, abort>>

\* A CEL rule or a native check on a value.
Check ==
  /\ Doing("check")
  /\ IF <<task.rule, task.value>> \in fails THEN Record(task.rule, path)
                                            ELSE UNCHANGED <<list, abort>>
  /\ Then(<<>>)
  /\ UNCHANGED <<input, path, forKey>>

Oneof ==
  /\ Doing("oneof")
  /\ LET set == {i \in DOMAIN task.oneof.fields : IsSet(task.node, task.oneof.fields[i])}
     IN IF Cardinality(set) > 1 \/ (task.oneof.required /\ set = {})
          THEN Record("message.oneof", path)
          ELSE UNCHANGED <<list, abort>>
  /\ Then(<<>>)
  /\ UNCHANGED <<input, path, forKey>>

\* The violation is at the oneof, by its name.
OneofRequired ==
  /\ Doing("required")
  /\ IF \A f \in task.oneof.members : ~IsSet(task.node, f)
       THEN Record("required", Append(path, Element(task.oneof.name, NoSub)))
       ELSE UNCHANGED <<list, abort>>
  /\ Then(<<>>)
  /\ UNCHANGED <<input, path, forKey>>

-----------------------------------------------------------------------------
(* Fields.                                                                 *)

\* The field's rules did not compile.
FieldBroken ==
  /\ Doing("field") /\ task.rules.broken
  /\ abort' = "error"
  /\ Then(<<>>)
  /\ UNCHANGED <<input, path, forKey, list>>

DoingField == Doing("field") /\ ~task.rules.broken

FieldMissing ==
  /\ DoingField /\ ~IsSet(task.node, task.rules.field) /\ task.rules.required
  /\ Record("required", Append(path, Element(task.rules.field, NoSub)))
  /\ Then(<<>>)
  /\ UNCHANGED <<input, path, forKey>>

FieldSkipped ==
  /\ DoingField /\ ~IsSet(task.node, task.rules.field)
  /\ ~task.rules.required /\ task.rules.ignoreEmpty
  /\ Then(<<>>)
  /\ UNCHANGED <<input, path, forKey, list, abort>>

\* What `this` is bound through: nothing for a scalar; the message that has
\* the field, for any other field; the item itself, for a message item.
FrameOf(v, n) == IF v.kind = "scalar" THEN NoFrame ELSE n
ItemFrame(x) == IF x \in Nodes THEN x ELSE NoFrame

\* The field's own value; then, at the field once more, what is inside.
FieldEntered ==
  /\ DoingField
  /\ LET v == task.rules
         x == content[task.node][v.field]
     IN /\ IsSet(task.node, v.field) \/ (~v.required /\ ~v.ignoreEmpty)
        /\ path' = Append(path, Element(v.field, NoSub))
        /\ Then(<<[op |-> "value", rules |-> v.value, value |-> x, frame |-> FrameOf(v, task.node)],
                  [op |-> "leave"]>>
                \o (IF x # NoValue /\ ((v.kind = "list" /\ v.items # NoItem) \/ v.kind = "map")
                      THEN <<[op |-> "inside", rules |-> v, value |-> x]>> ELSE <<>>))
  /\ UNCHANGED <<input, forKey, list, abort>>

\* A value's rules in order, then the message it holds.
Value ==
  /\ Doing("value")
  /\ LET r == task.rules
         rules == r.custom \o r.checks \o r.predefined
     IN Then([i \in DOMAIN rules |-> CheckOf(rules[i], task.value, task.frame)]
             \o (IF task.value \in Nodes THEN <<[op |-> "message", node |-> task.value]>> ELSE <<>>))
  /\ UNCHANGED <<input, path, forKey, list, abort>>

-----------------------------------------------------------------------------
(* Items and entries.                                                      *)

Inside ==
  /\ Doing("inside")
  /\ path' = Append(path, Element(task.rules.field, NoSub))
  /\ Then(<<[op |-> IF task.rules.kind = "list" THEN "items" ELSE "entries",
             rules |-> task.rules, value |-> task.value, next |-> 1],
            [op |-> "leave"]>>)
  /\ UNCHANGED <<input, forKey, list, abort>>

Ended(s) == s.next > Len(s.value)
Onward ==
  [op |-> task.op, rules |-> task.rules, value |-> task.value, next |-> task.next + 1]

ContainerEnd ==
  /\ Doing("items") \/ Doing("entries")
  /\ Ended(task)
  /\ Then(<<>>)
  /\ UNCHANGED <<input, path, forKey, list, abort>>

Skipped(item, x) == item.ignoreEmpty /\ x \in Empty
ItemTask(item, x) ==
  [op |-> "value", rules |-> item.value, value |-> x, frame |-> ItemFrame(x)]

\* Mutant: an empty item is not passed over.
ItemSkippedStuck ==
  /\ Doing("items") /\ ~Ended(task)
  /\ Skipped(task.rules.items, task.value[task.next])
  /\ Then(<<task>>)
  /\ UNCHANGED <<input, path, forKey, list, abort>>

ItemSkipped ==
  /\ Doing("items") /\ ~Ended(task)
  /\ Skipped(task.rules.items, task.value[task.next])
  /\ Then(<<Onward>>)
  /\ UNCHANGED <<input, path, forKey, list, abort>>

\* Mutant: an item is known by its value.
ItemByValue ==
  /\ Doing("items") /\ ~Ended(task)
  /\ ~Skipped(task.rules.items, task.value[task.next])
  /\ path' = [path EXCEPT ![Len(path)].sub = task.value[task.next]]
  /\ Then(<<ItemTask(task.rules.items, task.value[task.next]), Onward>>)
  /\ UNCHANGED <<input, forKey, list, abort>>

\* The subscript is set on the way into an item, and stays until the next.
Item ==
  /\ Doing("items") /\ ~Ended(task)
  /\ ~Skipped(task.rules.items, task.value[task.next])
  /\ path' = [path EXCEPT ![Len(path)].sub = task.next - 1]
  /\ Then(<<ItemTask(task.rules.items, task.value[task.next]), Onward>>)
  /\ UNCHANGED <<input, forKey, list, abort>>

\* An entry's violations get its key as a subscript once it is done.
Entry ==
  /\ Doing("entries") /\ ~Ended(task)
  /\ LET e == task.value[task.next]
     IN Then(<<[op |-> "key", item |-> task.rules.keys, value |-> e.key],
               [op |-> "entryValue", item |-> task.rules.values, value |-> e.value],
               [op |-> "subscript", recorded |-> Len(list), key |-> e.key],
               Onward>>)
  /\ UNCHANGED <<input, path, forKey, list, abort>>

EntrySkipped == IF task.item = NoItem THEN TRUE ELSE Skipped(task.item, task.value)

PartSkipped ==
  /\ Doing("key") \/ Doing("entryValue")
  /\ EntrySkipped
  /\ Then(<<>>)
  /\ UNCHANGED <<input, path, forKey, list, abort>>

Key ==
  /\ Doing("key") /\ ~EntrySkipped
  /\ forKey' = TRUE
  /\ Then(<<ItemTask(task.item, task.value), [op |-> "keyDone"]>>)
  /\ UNCHANGED <<input, path, list, abort>>

EntryValue ==
  /\ Doing("entryValue") /\ ~EntrySkipped
  /\ Then(<<ItemTask(task.item, task.value)>>)
  /\ UNCHANGED <<input, path, forKey, list, abort>>

-----------------------------------------------------------------------------
(* Returning, whether or not the walk is being aborted.                    *)

Returning(op) == todo # <<>> /\ Head(todo).op = op

\* Mutant: a call that returns forgets why.
LeaveForgets ==
  /\ Returning("leave")
  /\ path' = SubSeq(path, 1, Len(path) - 1)
  /\ abort' = "none"
  /\ Then(<<>>)
  /\ UNCHANGED <<input, forKey, list>>

Leave ==
  /\ Returning("leave")
  /\ path' = SubSeq(path, 1, Len(path) - 1)
  /\ Then(<<>>)
  /\ UNCHANGED <<input, forKey, list, abort>>

\* Mutant: an error in the key's rules leaves the flag set.
KeyDoneKept ==
  /\ Returning("keyDone")
  /\ UNCHANGED forKey
  /\ Then(<<>>)
  /\ UNCHANGED <<input, path, list, abort>>

KeyDone ==
  /\ Returning("keyDone")
  /\ forKey' = FALSE
  /\ Then(<<>>)
  /\ UNCHANGED <<input, path, list, abort>>

\* Mutant: an entry the walk is aborted in is left without its key.
SubscriptUnlessAborted ==
  /\ Returning("subscript")
  /\ list' = [i \in DOMAIN list |->
       IF i > task.recorded /\ abort = "none"
         THEN [list[i] EXCEPT !.path[Len(path)].sub = task.key] ELSE list[i]]
  /\ Then(<<>>)
  /\ UNCHANGED <<input, path, forKey, abort>>

Subscript ==
  /\ Returning("subscript")
  /\ list' = [i \in DOMAIN list |->
       IF i > task.recorded THEN [list[i] EXCEPT !.path[Len(path)].sub = task.key] ELSE list[i]]
  /\ Then(<<>>)
  /\ UNCHANGED <<input, path, forKey, abort>>

Cleanup == {"leave", "keyDone", "subscript"}

\* A `?` returns: what is left of the call is dropped.
Unwind ==
  /\ abort # "none" /\ todo # <<>> /\ task.op \notin Cleanup
  /\ Then(<<>>)
  /\ UNCHANGED <<input, path, forKey, list, abort>>

Reading == {"check", "oneof", "required", "field", "items", "entries", "key", "entryValue"}

\* Python, or a rule, raises.
Raise ==
  /\ \E op \in Reading : Doing(op)
  /\ abort' = "error"
  /\ Then(<<>>)
  /\ UNCHANGED <<input, path, forKey, list>>

Step ==
  \/ Message \/ Check \/ Oneof \/ OneofRequired
  \/ FieldBroken \/ FieldMissing \/ FieldSkipped \/ FieldEntered \/ Value
  \/ Inside \/ ContainerEnd \/ ItemSkipped \/ Item \/ Entry
  \/ PartSkipped \/ Key \/ EntryValue
  \/ Leave \/ KeyDone \/ Subscript \/ Unwind

Next == Step \/ Raise

Spec == Init /\ [][Next]_vars
\* The walk is one thread's loop over a finite message; nothing need raise.
FairSpec == Spec /\ WF_vars(Step)

-----------------------------------------------------------------------------
Done == todo = <<>>

Elements == [field : STRING, sub : Keys \cup Nat \cup {NoSub}]
IsPath(p) == IsSeq(p) /\ \A i \in DOMAIN p : p[i] \in Elements
IsViolation(v) ==
  /\ v = [path |-> v.path, rule |-> v.rule, key |-> v.key]
  /\ IsPath(v.path) /\ v.key \in BOOLEAN

\* What a task carries.
IsTask(s) ==
  /\ s.op \in Reading \cup Cleanup \cup {"message", "value", "inside"}
  /\ s.op \in {"message", "field"} => s.node \in Nodes
  /\ s.op = "field" =>
       \E i \in DOMAIN Compiled[TypeOf[s.node]].fields :
         s.rules = Compiled[TypeOf[s.node]].fields[i]
  /\ s.op = "value" => s.rules \in ValueValidator
  /\ s.op \in {"inside", "items", "entries"} => s.rules \in FieldValidator
  /\ s.op = "inside" => s.rules.kind \in {"list", "map"}
  /\ s.op = "items" \/ (s.op = "inside" /\ s.rules.kind = "list") => s.rules.items # NoItem
  /\ s.op = "entries" \/ (s.op = "inside" /\ s.rules.kind = "map") =>
       IsEntries(s.value)
  /\ s.op \in {"items", "entries"} => s.next \in Nat \ {0}
  /\ s.op \in {"key", "entryValue"} => s.item \in ItemValidator \cup {NoItem}
  /\ s.op = "required" => s.oneof.name \in STRING
  /\ s.op = "subscript" => s.key \in Keys /\ s.recorded \in Nat

TypeOK ==
  /\ content \in Messages /\ fails \subseteq Checks /\ failFast \in BOOLEAN
  /\ IsSeq(todo) /\ \A i \in DOMAIN todo : IsTask(todo[i])
  /\ IsPath(path) /\ forKey \in BOOLEAN
  /\ IsSeq(list) /\ \A i \in DOMAIN list : IsViolation(list[i])
  /\ abort \in {"none", "fail_fast", "error"}

\* A walk that fails fast has at most the one violation that stops it; any
\* other is never stopped by a violation.
StopsAtFirst ==
  /\ abort = "fail_fast" => failFast
  /\ failFast => Len(list) = IF abort = "fail_fast" THEN 1 ELSE 0

\* Once it is being aborted, the walk finds nothing more and does not change
\* its mind: the calls it is inside only return.
AbortIsFinal ==
  [][abort # "none" => abort' = abort /\ Len(list') = Len(list) /\ Len(todo') < Len(todo)]_vars

\* The walk ends.
Ends == <>Done
=============================================================================
