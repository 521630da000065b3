--------------------------- MODULE ViolationValues ---------------------------
(***************************************************************************)
(* The values of a violation (violation.rs).  A validation (module Walk)   *)
(* reports a violation by its field and rule paths only.  The value that   *)
(* violated and the rule's value are recovered from the paths when one of  *)
(* them is first read, by any thread, and kept; the message may have been  *)
(* changed by then.                                                        *)
(***************************************************************************)
EXTENDS Walk

CONSTANTS
  Readers, NoReader,  \* the threads that read the values
  Runtimes,           \* a subset of {"protobuf-py", "google"}
  Default,            \* Default[f]: what google.protobuf gives for field f of
                      \* a message, when f is not set
  RulePath,           \* RulePath[r]: where rule r is written, in the options
  Extensions,         \* the rules that are extensions, of some program's own
  FieldOptions,       \* FieldOptions[m][f]: the (buf.validate.field) options
  MessageOptions,     \* MessageOptions[m]: the (buf.validate.message) options
  FieldType,          \* FieldType[m][f]: the type of the messages f holds
  Changes,            \* the changes <<n, f, x>> a program may make
  MaxChanges          \* how many of them it makes, at most

ASSUME ReadersAssumption ==
  NoReader \notin Readers /\ Runtimes \subseteq {"protobuf-py", "google"}
ASSUME MaxChangesAssumption == MaxChanges \in Nat

VARIABLES
  runtime,    \* the runtime of the message
  message,    \* the message as it is now
  changes,    \* how often it was changed
  violation,  \* the violation whose values are read, one of list
  cell,       \* its values, once recovered
  resolver,   \* the thread that recovers them
  hop,        \* how far it is along the field path
  swallowed,  \* what an error of Python was swallowed for, in this recovery:
              \* the "field" value, the "rule" value
  asked,      \* the threads waiting for the values
  got         \* what each thread was given

values == <<runtime, message, changes, violation, cell, resolver, hop, swallowed,
            asked, got>>

None == [is |-> "none"]

ValuesInit ==
  /\ Init
  /\ runtime \in Runtimes
  /\ message = content /\ changes = 0
  /\ violation = None
  /\ cell = None /\ resolver = NoReader /\ hop = None /\ swallowed = {}
  /\ asked = {} /\ got = [r \in Readers |-> None]

-----------------------------------------------------------------------------
(* Rule paths.  The options are messages: a record of a type and of the    *)
(* fields set, which are messages, sequences, or rules by their names.     *)
(* Only the first element of a path is looked up in them: an element's     *)
(* index is its subscript, or else the rest of the path, as one name.  An  *)
(* extension is no field of the options and leads nowhere.  The options do *)
(* not change, so that a rule path is walked in one step.                  *)

\* The fields of the options that rule paths begin with.
Number ==
  [FieldRules |-> [typed |-> 14, cel |-> 23, required |-> 25, cel_expression |-> 29],
   MessageRules |-> [cel |-> 3, oneof |-> 4, cel_expression |-> 5]]

-----------------------------------------------------------------------------
(* What the compiler and a message's class see to.                         *)

\* Rule r of field f of type t is where its path says, in the field's options,
\* or is an extension of what is there.
Written(t, f, r) ==
  LET options == FieldOptions[t][f]
      p == RulePath[r]
  IN /\ options # NoValue /\ options.type = "FieldRules"
     /\ p.name \in DOMAIN options.set \cap DOMAIN Number.FieldRules
     /\ Number.FieldRules[p.name] = p.number
     /\ IF r \in Extensions
          THEN p.index # NoSub /\ p.index \notin DOMAIN options.set[p.name]
        ELSE IF p.index = NoSub THEN options.set[p.name] = r
        ELSE p.index \in DOMAIN options.set[p.name] /\ options.set[p.name][p.index] = r

RulesIn(r) ==
  LET rules == r.custom \o r.checks \o r.predefined IN {rules[i] : i \in DOMAIN rules}
FieldRulesOf(v) ==
  RulesIn(v.value) \cup (IF v.required THEN {"required"} ELSE {})
  \cup UNION {RulesIn(item.value) : item \in {v.items, v.keys, v.values} \ {NoItem}}

\* A message's own rules have no path.  A field that tracks presence has no
\* rules that apply when it is not set.
ASSUME RulesAssumption ==
  /\ {"required", "message.oneof"} \cap {c[1] : c \in Checks} = {}
  /\ \A t \in Types :
       LET m == Compiled[t] IN
         /\ \A i \in DOMAIN m.cel : RulePath[m.cel[i]] = NoSub
         /\ m.oneofs # <<>> => RulePath["message.oneof"] = NoSub
         /\ \A i \in DOMAIN m.fields :
              LET v == m.fields[i] IN
                ~v.broken =>
                  /\ \A r \in FieldRulesOf(v) : RulePath[r] = NoSub \/ Written(t, v.field, r)
                  /\ v.field \in Presence => v.required \/ v.ignoreEmpty

ASSUME DistinctAssumption ==
  /\ Keys \cap Nodes = {} /\ Keys \cap Nat = {}
  /\ NoSub \notin Keys \cup Nat /\ NoValue \notin Nodes \cup Keys

\* What a field of type t with rules v may hold.
Holds(t, f, x) == x \in Nodes => TypeOf[x] = FieldType[t][f]
Fits(t, v, x) ==
  /\ x = NoValue => v.field \in Presence /\ v.kind \in {"scalar", "message"}
  /\ Holds(t, v.field, x)
  /\ v.kind = "list" =>
       IsSeq(x) /\ \A i \in DOMAIN x : x[i] # NoValue /\ Holds(t, v.field, x[i])
  /\ v.kind = "map" =>
       /\ IsEntries(x)
       /\ \A i \in DOMAIN x : x[i].value # NoValue /\ Holds(t, v.field, x[i].value)
       /\ \A i, j \in DOMAIN x : x[i].key = x[j].key => i = j

\* A message has the fields its rules were read from, of their types, before
\* and after a change; a oneof is none of them.
ASSUME ContentAssumption ==
  /\ \A c \in Messages : c = [n \in Nodes |-> c[n]]
  /\ \A n \in Nodes :
       LET m == Compiled[TypeOf[n]] IN
         /\ \A c \in Messages :
              /\ c[n] = [f \in DOMAIN c[n] |-> c[n][f]]
              /\ \A i \in DOMAIN m.fields :
                   m.fields[i].field \in DOMAIN c[n]
                   /\ Fits(TypeOf[n], m.fields[i], c[n][m.fields[i].field])
              /\ \A i \in DOMAIN m.required : m.required[i].name \notin DOMAIN c[n]
         /\ \A i \in DOMAIN m.fields :
              /\ \A c \in Changes :
                   c[1] = n /\ c[2] = m.fields[i].field => Fits(TypeOf[n], m.fields[i], c[3])
              /\ m.fields[i].kind # "list" =>
                   Holds(TypeOf[n], m.fields[i].field, Default[m.fields[i].field])

-----------------------------------------------------------------------------
\* Mutant: the name alone.
FieldByName(type, e) == {e.name} \cap DOMAIN Number[type]

\* find_field: by number; a name is looked at if the number is not found.
FindField(type, e) ==
  LET numbered == {f \in DOMAIN Number[type] : Number[type][f] = e.number}
  IN IF numbered # {} THEN numbered ELSE {e.name} \cap DOMAIN Number[type]

\* One element of a rule path, on the options x; NoValue if it leads nowhere.
RuleHop(x, e) ==
  LET found == FindField(x.type, e) \cap DOMAIN x.set
      value == x.set[CHOOSE f \in found : TRUE]
  IN CASE found = {} -> NoValue
       [] found # {} /\ e.index = NoSub -> value
       [] found # {} /\ e.index # NoSub ->
            IF e.index \in DOMAIN value THEN value[e.index] ELSE NoValue

\* Mutant: rooted at the message whatever the field path was.
RuleValueOfMessage(leaf, rule) ==
  LET rules == MessageOptions[TypeOf[Root]]
  IN IF rule = NoSub \/ rules = NoValue THEN NoValue ELSE RuleHop(rules, rule)

\* Field rules are rooted at the field the field path ended on; without one,
\* rules are rooted at the type of the message that was validated.
RuleValue(leaf, rule) ==
  LET rules == IF leaf = None THEN MessageOptions[TypeOf[Root]]
                             ELSE FieldOptions[leaf.type][leaf.field]
  IN IF rule = NoSub \/ rules = NoValue THEN NoValue ELSE RuleHop(rules, rule)

-----------------------------------------------------------------------------
(* Field paths.                                                            *)

\* The field's value: what google.protobuf has no value for, it makes up.
Fetch(n, f) ==
  IF message[n][f] = NoValue /\ runtime = "google" THEN Default[f] ELSE message[n][f]

\* The entry or the item of x at a subscript, or NoValue; google.protobuf has
\* a default for a key that is missing.
ItemAt(f, x, sub) ==
  IF sub \in Keys THEN
    LET at == {i \in DOMAIN x : x[i].key = sub} IN
      IF at # {} THEN x[CHOOSE i \in at : TRUE].value
      ELSE IF runtime = "google" THEN Default[f] ELSE NoValue
  ELSE IF sub + 1 \in DOMAIN x THEN x[sub + 1] ELSE NoValue

\* Mutant: the first subscript on the path of a key's violation is its key.
FoundKey(n, e, last) ==
  LET x == IF n \in Nodes /\ e.field \in DOMAIN message[n] THEN Fetch(n, e.field) ELSE NoValue
  IN CASE x = NoValue \/ e.sub = NoSub -> x
       [] x # NoValue /\ e.sub # NoSub -> IF violation.key THEN e.sub ELSE ItemAt(e.field, x, e.sub)

\* What element e leads to from n: a field of the message n, or the item of
\* it, or the key itself if the violation is about that.
Found(n, e, last) ==
  LET x == IF n \in Nodes /\ e.field \in DOMAIN message[n] THEN Fetch(n, e.field) ELSE NoValue
  IN CASE x = NoValue \/ e.sub = NoSub -> x
       [] x # NoValue /\ e.sub # NoSub ->
            IF violation.key /\ last THEN e.sub ELSE ItemAt(e.field, x, e.sub)

\* The end of the path, or a path that does not resolve.
AtEnd == hop.next > Len(violation.path)
Lost == [is |-> "hop", next |-> Len(violation.path) + 1, value |-> NoValue, leaf |-> None]

\* Hops are far enough apart for a program to change the message in between.
\* Where Python raises, looking for the class of what a hop starts from, or
\* reading its field or item, the error is dropped: the path counts as one that
\* does not resolve.
Hop(r) ==
  /\ resolver = r /\ ~AtEnd
  /\ LET e == violation.path[hop.next]
         x == Found(hop.value, e, hop.next = Len(violation.path))
     IN \/ /\ hop' = IF x = NoValue THEN Lost
                     ELSE [is |-> "hop", next |-> hop.next + 1, value |-> x,
                           leaf |-> [is |-> "field", type |-> TypeOf[hop.value],
                                     field |-> e.field]]
           /\ UNCHANGED swallowed
        \/ hop' = Lost /\ swallowed' = swallowed \cup {"field"}
  /\ UNCHANGED <<runtime, message, changes, violation, cell, resolver, asked, got>>

-----------------------------------------------------------------------------
(* Reading.                                                                *)

\* build_violations: each violation of the list is an object of its own.
Pick ==
  /\ violation = None /\ abort # "error"
  /\ \E i \in DOMAIN list : violation' = list[i]
  /\ UNCHANGED <<runtime, message, changes, cell, resolver, hop, swallowed, asked, got>>

\* The program goes on with the message.
Change ==
  /\ changes < MaxChanges
  /\ \E c \in Changes :
       /\ message[c[1]][c[2]] # c[3]
       /\ message' = [message EXCEPT ![c[1]][c[2]] = c[3]]
  /\ changes' = changes + 1
  /\ UNCHANGED <<runtime, violation, cell, resolver, hop, swallowed, asked, got>>

Ask(r) ==
  /\ violation # None /\ r \notin asked
  /\ asked' = asked \cup {r}
  /\ UNCHANGED <<runtime, message, changes, violation, cell, resolver, hop, swallowed, got>>

\* Mutant: a value that was not found is looked for again.
BeginAgain(r) ==
  /\ r \in asked /\ resolver = NoReader
  /\ IF cell = None THEN TRUE ELSE cell.field = NoValue
  /\ resolver' = r
  /\ hop' = IF violation.path = <<>> THEN Lost
            ELSE [is |-> "hop", next |-> 1, value |-> Root, leaf |-> None]
  /\ swallowed' = {}
  /\ UNCHANGED <<runtime, message, changes, violation, cell, asked, got>>

\* get_or_try_init: the cell is empty and no thread is filling it.
Begin(r) ==
  /\ r \in asked /\ resolver = NoReader
  /\ cell = None
  /\ resolver' = r
  /\ hop' = IF violation.path = <<>> THEN Lost
            ELSE [is |-> "hop", next |-> 1, value |-> Root, leaf |-> None]
  /\ swallowed' = {}
  /\ UNCHANGED <<runtime, message, changes, violation, cell, asked, got>>

\* The rule's value follows the field's, and both are kept.  An error of
\* Python on the way to the rule is dropped too: there is no value then.
Fill(r) ==
  /\ resolver = r /\ AtEnd
  /\ \E rule \in {RuleValue(hop.leaf, RulePath[violation.rule]), NoValue} :
       /\ cell' = [is |-> "values", field |-> hop.value, rule |-> rule]
       /\ swallowed' = IF rule = RuleValue(hop.leaf, RulePath[violation.rule])
                       THEN swallowed ELSE swallowed \cup {"rule"}
  /\ resolver' = NoReader /\ hop' = None
  /\ UNCHANGED <<runtime, message, changes, violation, asked, got>>

\* Mutant: the cell stays in initialisation.
RaiseStuck(r) ==
  /\ resolver = r
  /\ hop' = None /\ UNCHANGED resolver
  /\ asked' = asked \ {r}
  /\ UNCHANGED <<runtime, message, changes, violation, cell, swallowed, got>>

\* Mutant: the thread tries again itself.
RaiseRetried(r) ==
  /\ resolver = r
  /\ resolver' = NoReader /\ hop' = None
  /\ UNCHANGED <<runtime, message, changes, violation, cell, swallowed, asked, got>>

\* Python raises (a signal handler, a descriptor) where the code passes errors
\* on, reading the paths, the descriptors and the options: the caller gets the
\* error, and the next one starts again.
RaiseReading(r) ==
  /\ resolver = r
  /\ resolver' = NoReader /\ hop' = None
  /\ asked' = asked \ {r}
  /\ UNCHANGED <<runtime, message, changes, violation, cell, swallowed, got>>

Answer(r) ==
  /\ r \in asked /\ cell # None
  /\ got' = [got EXCEPT ![r] = cell]
  /\ asked' = asked \ {r}
  /\ UNCHANGED <<runtime, message, changes, violation, cell, resolver, hop, swallowed>>

Resolve(r) == Begin(r) \/ Hop(r) \/ Fill(r)

ValuesNext ==
  \/ Next /\ UNCHANGED values
  \/ /\ Done /\ UNCHANGED vars
     /\ \/ Pick \/ Change
        \/ \E r \in Readers : Ask(r) \/ Resolve(r) \/ RaiseReading(r) \/ Answer(r)

allVars == <<vars, values>>
ValuesSpec == ValuesInit /\ [][ValuesNext]_allVars

\* A thread goes on with what it has begun; one that waits for the cell is
\* woken whenever it is free, however often others have failed to fill it.
ValuesFairness ==
  \A r \in Readers :
    /\ SF_allVars(Done /\ UNCHANGED vars /\ Begin(r))
    /\ WF_allVars(Done /\ UNCHANGED vars /\ (Hop(r) \/ Fill(r)))
    /\ WF_allVars(Done /\ UNCHANGED vars /\ Answer(r))
FairValuesSpec == ValuesSpec /\ ValuesFairness

-----------------------------------------------------------------------------
HasRule == RulePath[violation.rule] # NoSub
\* The violation is of a check, of a field's value or a part of it.
OfCheck ==
  violation.path # <<>> /\ \E x \in {c[2] : c \in Checks} : <<violation.rule, x>> \in fails
Recovered == violation # None /\ cell # None

ValuesTypeOK ==
  /\ runtime \in Runtimes /\ changes \in 0 .. MaxChanges
  /\ violation # None => Done /\ \E i \in DOMAIN list : violation = list[i]
  /\ cell = None \/ DOMAIN cell = {"is", "field", "rule"}
  /\ resolver \in Readers \cup {NoReader}
  /\ swallowed \subseteq {"field", "rule"}
  /\ hop = None \/ DOMAIN hop = {"is", "next", "value", "leaf"}
  /\ resolver = NoReader <=> hop = None
  /\ resolver # NoReader => resolver \in asked /\ cell = None
  /\ asked # {} \/ cell # None => violation # None
  /\ asked \subseteq Readers
  /\ got = [r \in Readers |-> got[r]] /\ \A r \in Readers : got[r] \in {None, cell}

\* The field value of a violation is the value the rule failed on, if the
\* message has not been changed: the path the walk recorded leads back to
\* it, through items, entries and keys, in both runtimes.  If an error was
\* swallowed on the way there is no value, and never another one.
FieldValueIsChecked ==
  Recovered /\ changes = 0 /\ OfCheck =>
    IF "field" \in swallowed THEN cell.field = NoValue
                             ELSE <<violation.rule, cell.field>> \in fails

\* Whatever was changed before or during the recovery, the rule value that
\* comes with a field value is that of the rule that was violated; there is
\* none if that is an extension, or if an error was swallowed on the way to it.
RuleOfValue ==
  Recovered /\ cell.field # NoValue /\ HasRule =>
    cell.rule = IF violation.rule \in Extensions \/ "rule" \in swallowed
                  THEN NoValue ELSE violation.rule

\* Values once recovered stay, and every thread gets the same.
ValuesKept ==
  [][/\ cell # None => cell' = cell
     /\ \A r \in Readers : got[r] # None => got'[r] = got[r]]_allVars

\* A thread that reads a violation gets an answer or an error.
ReadsEnd == \A r \in Readers : r \in asked ~> r \notin asked

\* What the type stub says of rule_value, "The value of the rule that was
\* violated", of a message that has not been changed, a rule that is no
\* extension, and a recovery in which nothing raised.
RuleValueGiven ==
  Recovered /\ changes = 0 /\ swallowed = {} /\ HasRule /\ violation.rule \notin Extensions =>
    cell.rule = violation.rule

\* What a comment of the recovery says: "unresolvable paths yield `None`".
UnresolvedIsNone ==
  Recovered /\ cell.field = NoValue => cell.rule = NoValue
=============================================================================
