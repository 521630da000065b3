# A verification project for protovalidate-py

protovalidate-py validates Protobuf messages against rules written in their
descriptors. It is a Python package over a Rust extension module, over a Rust
library of validators, over a C++ CEL evaluator. This directory holds TLA+ models of
the parts of that code in which order, sharing and failure matter, the TLC runs that
check them on small instances, and theorems that the TLA+ proof system checks for all
instances.

Run a configuration with `tlc -config X.cfg M`, and check a proof module with
`tlapm M.tla`. `PROJECT.json` lists the runs, the properties, the mutants that show
each property can fail, the source lines each definition stands for, and the hazards.

## The system

Paths are relative to the repository root.

| Part | Source | State it keeps | Operations |
| --- | --- | --- | --- |
| Engines, registration and locks | `src/lib.rs`, `src/runtime.rs` (`collect_files`), `crates/protovalidate/src/validator.rs` | one `Engine` per Protobuf runtime in a once cell; names of registered files and protobuf-py `Registry` under `registered`; the core `Validator` under `core`; in it, the descriptor pool, the CEL environment under `env`, the rules under `validators` | `validate`, `collect_violations`, `Engine::new`, `register`, `collect_files`, `add_file_descriptor_bytes`, `evaluate` |
| Rule cache | `validator.rs` (`validators`), `rules/build.rs` (`resolve`, `build_closure`) | an immutable map from message type to compiled rules, or the error of compiling them, behind a lock | snapshot, resolve, compile, merge |
| Evaluation walk | `rules/eval.rs`, `rules/mod.rs` | the field path, the `for_key` flag, the violations, the CEL frames | one function per rule shape, mutually recursive |
| Violation values | `src/violation.rs`, `src/runtime.rs` | a once cell of recovered values per violation | `field_value`, `rule_value` |
| Message views | `src/view.rs` | fetched values per message in pooled buffers, type information per type name | reads by number, list and map views |
| Rule compilation | `rules/build.rs`, `descriptors.rs` | none of its own | options to validators, ignore modes, required oneofs |
| Standard checks | `rules/standard/` | none | bounds, uniqueness, lengths, durations, formats |
| CEL interface and binding | `cel/`, `crates/protovalidate-deps/` | the C++ engine, its programs and arenas | compile, bind, evaluate |

How they interact: a Python call enters `lib.rs` attached to the interpreter. It gets the
engine (creating it runs Python), registers the message's file if it is new (that runs
Python too, under two write locks) and evaluates under a read lock of the core validator.
Evaluation snapshots the rule cache; if the type is missing it resolves the types that the
rules refer to through the *reader* (Python again), compiles them under the CEL
environment's lock and merges the result into the cache. The walk then reads the message
through a view, field by field, every read a Python call; a CEL rule serializes the message
and parses it under the CEL environment's read lock. The violations come back as bytes,
and `field_value`/`rule_value` are recovered from their paths, lazily, in Python's own
time.

What is hard in it:

* *Locks and the interpreter.* Four locks, a once cell and the interpreter lock are taken in
  nested ways; Python code may run at many points, may hand the interpreter to another
  thread, may raise, and may call the validator again on the same thread.
* *Partial failure.* A file may be refused by the pool, by the CEL environment or by
  Python after some of its imports were added; the next call starts from there.
* *Snapshots.* Rules are compiled against a snapshot while others merge theirs, and walks
  keep using the map they started with.
* *One mutable path.* Element paths, late map subscripts, and clean-up on early return have
  to produce what a purely recursive description of the report would.
* *Laziness.* Values are read from a message that may have changed since.

What makes each part correct:

* *Engines*: no set of threads waits for itself, every call returns; what is registered has
  all its imports in every pool; descriptors are stable under a validation; the files an
  evaluation may need are registered.
* *Rule cache*: an entry never changes or goes; every type a walk reaches is in the map it
  holds; compilation never lacks a resolved type.
* *Walk*: the violations are those of the recursive reading of the rules, in order, with
  exact paths; failing fast stops at the first of them; an abort is final; the walk ends.
* *Violation values*: what is recovered is the value that was checked and the rule that
  failed, once, the same for all readers.
* *Views*: what is read is the message's own value, whatever changes it.
* *Compilation and checks*: the documented meaning of each rule.

## Plan

In this order, the most important behaviour first. Recursion is written with recursive
functions so that modules can be proved about; proofs have modules of their own.

1. `Engine` with `EngineProofs` (done, proved).
2. `RuleCache`, refining the abstract `RuleBook`, with `RuleCacheProofs` (done, proved).
3. `Walk`, against the denotational `WalkReport`, with `WalkProofs`
   and `ReportProofs` (done, proved).
4. `ViolationValues`, which composes the walk with the lazy recovery of values, over a message
   that may change in between, for two runtimes; with `ViolationProofs` (done, proved).
5. `Views` and `FieldReads`: the buffers of the views and their pool, and one field read while
   its message changes; with `ViewsProofs` for both (done, proved).
6. `Closure` and `FieldCompiler`: the search for the types a root needs, and a message's options
   compiled to validators; with `CompilerProofs` for both (done, proved).
7. `StandardChecks`, `TextChecks`, `Duplicates` and `Formats`: the native checks and formats, each
   against a reference definition (done; the checks proved, in `ChecksProofs`, and the search for
   duplicates, in `ViewsProofs`; the formats are model-checked).
8. `CelLifetime`: who owns the C++ engine (done, proved in `ViewsProofs`).

What is left: type information under one name in
two descriptor pools; the URI grammar (a library's) and the `format` function as pure operators.

## Engine

`Engine.tla` is one engine and the calls that use it. A thread's `pc` follows `validate`:
`engine` (the once cell), `new`, `lookup`, `writeRegistered`, `writeCore`, `collect`, `index`
(`Engine.register` and `collect_files`, whose recursion is the thread's `stack`), `readCore`,
`snapshot`, `resolve`, `compile`, `compiling`, `merge`, `merging`, `walk`, `frame`,
`framing`. `mode` is how the thread stands to the interpreter: attached, ready to attach,
blocked while detached, or hosting a call that its own Python code makes. `PyPoints` are
the program counters at which Python code runs: there the thread may yield, raise
(`PyError`) or call again (`Reenter`).

The interpreter-aware acquisitions (`read_py_attached`, `write_py_attached`) are `Block` and
`Grant`; the plain locks of the core validator are taken without detaching. A waiting
writer holds off new readers, as `std`'s lock does: the model takes the stricter of the
platform's choices, which can only add waiting. The interpreter is one lock with the GIL,
and, free-threaded, lets all threads attach except while it stops the world.

| Run | Instance | Shows |
| --- | --- | --- |
| `engine_gil` | three threads, four files, one refused by the pool and one by CEL, one preregistered | types, linked registration, evaluation finds its files, no cycle of waits, plain locks are never contended, descriptors stable under a validation |
| `engine_free_threaded` | two threads, two files, stop-the-world | no cycle of waits, and every call returns |
| `engine_reentrant_warm` | a call made by another's Python code, every file registered | still no cycle of waits |
| `engine_reentrant_cold` | the same with files not yet registered | **violated**: a hosted call waits for the write lock that its own thread reads |

"Preregistered" means that a call registered the file before: the run starts after it.
Three threads are enough for a reader, a writer and a thread that queues behind it, which
every cycle among these locks needs; four files give a chain of imports and both kinds of
refusal. The liveness run has two threads: one holds what the other waits for.

Fairness. `FairSpec` assumes that a thread that can go on infinitely often does (strong fairness of
`Attach`, `Step` and `WalkDone` per thread) and that a stopped world is restarted. It is strong,
not weak, because the interpreter and the locks are contended: the GIL hands over at the switch
interval, and the locks' queues are served. Nothing makes a call start, Python yield
or raise, or a walk need one more CEL frame; `WalkDone` is fair because a message is finite.

Proved (`EngineProofs`), for any number of threads and files and any import graph: `TypeOK`,
`RegistrationLinked`, `EvaluatesRegistered`, `PlainLocksUncontended`,
`StableUnderValidation` and, if no Python code calls the validator again (`Alone`),
`NoWaitCycle`. The inductive invariant `IInv` adds to these who may own the once cell
(`Owned`), what the stack holds (`Collecting`), who holds the core lock (`CoreGuarded`), that the
wanted file stays registered (`Wanted`) and who holds the plain locks (`PlainGuarded`).
`EvaluatesRegistered`, for one, is not inductive: it needs that a failed registration
leaves only linked sets, and that an engine being created is emptied by its creator only.
`NoWaitCycle` needs `Blocking` besides, and a rank: each thread waits only for threads of a
lower rank, so a non-empty set of threads has one of minimal rank that waits for none of the others.
Liveness is model-checked only.

## Rule cache

`RuleCache.tla` is the cache and the validations that use it; a message type is compiled
to a `Built` record: its own outcome and each field's. `Missing` is what
`closure` of `build.rs` returns (its worklist is in `Closure`), `Resolved` what `resolve` looks up, `Compile` and
`Embed` the two passes of `build_closure`, `Merge` the copy-extend-replace under the write lock,
and `Descend` the walk's lookups (validator.rs: "the lookup cannot miss"). `Register`
adds files between validations, which changes what compiles, since a rule may be an
extension declared in a file that its message does not import.

`RuleBook.tla` is what the cache promises: entries are written once, sets of them at a time, and
the book is complete and truthful about failures after every write. `RuleCache` implements it under
`book <- cache`.

The run `rule_cache` has two threads, three types in two files with a cycle, fields that are
ignored, whose items are ignored, that use an extension of an imported and of an unimported file, and a type
whose own rules do not compile. Two threads suffice for the races of snapshot and merge: a third could only
merge in between, as the second does. `Build` takes the types of fields whose rules are ignored as needed,
which the code does not always: it may compile more types, and so never fewer.

Proved (`RuleCacheProofs`): `TypeOK`, `WalkFindsRules`, `ExtensionsFound`, and the
refinement `Spec => BookSpec`. The inductive invariant `CacheInv` says that every map at hand is
`Sound` (closed, and truthful), that a snapshot is `Within` the cache, and that what was compiled
since a snapshot was compiled in the pool there still is (`Current`), which is why replacing an
entry at a merge changes nothing.

## Walk

`Walk.tla` is one validation. The call stack of the validators is an agenda, `todo`; a function is
an action that replaces its task by those of its calls. The clean-up that the code does
after a call, with a guard value or after the `?`, is a task of its own that runs also when
the walk is being aborted (`leave`, `keyDone`, `subscript`); `Unwind` drops the others. What a CEL rule or
native check says of a value is an input, `fails`, chosen in `Init`; `Raise` is Python or a
rule raising, at any point that reads. The message does not change during a walk.

`WalkReport.tla` says what ought to be reported, by recursion on the message and its rules and with no
path variable, flag, or late subscript.

The run `walk` has three message types (lists of messages and scalars, maps of both with rules on
keys, presence fields, a oneof rule, a required oneof, a field whose rules do not
compile), three messages of them, and every choice of up to two failing checks out of sixteen, with
and without fail-fast. Two failures are enough to tell the orders and paths of any pair of
violations apart. It checks `InOrder` (whatever has been recorded begins the report), `ReportsAll`,
`StopsAtFirst`, `AbortIsFinal` and `Ends`; the last under weak fairness of the walk's own steps, one
thread's loop over finite data, in which raising is never needed. Deadlock is not checked:
the walk stops. The run `walk_frames` is **violated**: it checks a comment's claim about the frame
that a message value is bound through.

Proved (`WalkProofs`), for any message, rules and failing checks: `TypeOK`, `StopsAtFirst` and
`AbortIsFinal`. `StopsAtFirst` needs, with the types, that `abort` leaves "none" once only
(`StepOutcome`).

Proved (`ReportProofs`), for any messages, however deep, any compiled rules and any failing checks: `InOrder` and
`ReportsAll`, the report being the recursive one of `WalkReport`. From three assumptions beside those of the walk:
there are finitely many messages and none is inside itself (`InsideAssumption`), so that the report is defined, one depth
of messages after another (`FoundIs`); a list field holds a sequence (`ListsAssumption`); a key is no message
(`KeysAssumption`). Neither property is inductive: what `list` lacks is known only from the tasks left. `OrderInv`
says that there is a plan for these (`Planned`): for each task, the real path and key flag it will start with, the
path that these stand for, the subscripts that are still owed to violations recorded inside a map entry, and what it and the tasks after it will
report. What was recorded, with the subscripts owed added (`Recorded`, `Agree`), and what the plan
has left, make up the report. Each action replaces a task by tasks that report the same, from the same path, and leave the
path as they found it; a subscript, once added, is no longer owed. Once a walk is aborted its plan reports less than is
missing, but still says where it is and what is owed. With no `subscript` left nothing is owed, which gives `InOrder`; with
no task left, and with `StopsAtFirst`, `ReportsAll`. Only `Ends` stays with TLC.

A message type whose rules are never built (a well-known type, say) is in the model a type without rules.
That a list shrinks between its length and its items is for `Views`.

## Violation values

`ViolationValues.tla` extends `Walk` with what a program may do when the walk is done: `Pick` one
violation of the list, `Change` the message, and read the violation's values from any thread.
`cell` is the `PyOnceLock` of the violation: `Ask` is a read of `field_value` or
`rule_value`, `Begin` enters `get_or_try_init`, `Hop` follows one element of the field path
(`walk_field_path`, `step_element`), `Fill` finds the rule's value (`resolve_rule_value`) and keeps
both, `Answer` returns. Python may raise anywhere in this. Where the code passes the error on (the elements of the paths,
`find_field`, the options) the caller gets it and the cell stays empty: `RaiseReading`. Where it does not
(`ProtoAdapter::resolve` and `FieldInfo::fetch` in `step_element`, `get_item` of a subscript on either path, and `get_item` of
the options in `rules_of`) the error is swallowed: the path counts as one that does not resolve, and the cell is
filled with None for good. `Hop` and `Fill` have that outcome beside their own; `swallowed` records, for the properties,
for which of the two values the last recovery met it. `runtime`
decides what an unset field and a missing key give: nothing in protobuf-py, a default in
google.protobuf (`Fetch`, `ItemAt`). The rules of a field, and of a type, are read from
its options by number and then by name (`FindField`); a rule that is an extension (`Extensions`) is
under neither, so that its value is never found, and both properties of rule values say so.

| Run | Instance | Shows |
| --- | --- | --- |
| `violation_values` | the two runtimes, two messages of three, ten checks of which one fails, two readers, at most two changes of six | the value is the checked one, the rule's value the rule's own, or none after an error that was swallowed; values stay, each read ends |
| `values_rule_given` | the same, no change | **violated**: a missing protobuf-py field has no rule value |
| `values_unresolved` | the same, one change | **violated**: a path that does not resolve may give another rule |

One failing check gives one violation, and violations share nothing: a second one adds no
behaviour. Two readers give the race for the cell, and one that finds it filled or failed. Two changes
allow a field to be cleared and to be set again between the hops of one recovery; the paths
have up to two elements, with an index, a key, both, or neither.

Fairness: a reader's own hops and its answer are weakly fair, they are a loop over a short path;
`Begin` is strongly fair, since a filling of the cell that raises wakes the threads that wait for it, and each may be
overtaken by others. Nothing makes Python raise, or the program change the message.

`FieldValueIsChecked` and `RuleOfValue` say in full what is found: without a swallowed error the checked value and the
violated rule (no rule if it is an extension), and with one exactly None, never the value of another field or, beside a field
value, of another rule. After such an error there is no value, of an unchanged message either.

Proved (`ViolationProofs`), for any messages, rules, paths, options, changes and readers: that the composed
system implements `Walk`'s specification, so that what is proved of a walk holds of it; the
type invariant, which ties the cell, the thread that fills it and the answers together; and
`ValuesKept`; and, with the two inductive invariants that follow, `FieldValueIsChecked` and `RuleOfValue`, swallowed
errors included.
`ReadsEnd` is model-checked.

*Explains* is an invariant of the walk (`ViolationsExplained`). It says where a path leads in a message
(`Leads`, `LeadsToKey`, by a sequence of the values passed, so that nothing is recursive), and that
there is a path for every task on the agenda, beginning with the walk's own, at which the task's claim
holds (`Placed`, `Claim`): a check's value is where its path leads, its rule is one of the field that the path
ends at, a container's items are those of the field. Neighbours on the agenda are linked (`Link`): a `leave`
is followed by tasks at the parent's path, a `subscript` by the next entry's. The difficulty is the subscript of a map entry,
which the code sets on the violations only after the whole entry (`subscript`, over those recorded since): until then, the
recorded path is the true one *without* the subscripts that are still owed (`Without`, `Depths`, `Owed`),
and the invariant carries the true one along. Each action of `Walk` has its lemma (`CheckExplained` to
`SubscriptExplained`). When the walk is done nothing is owed, and each violation is `Blamed` at its path as it stands.

*Retraced* is about the recovery. Before the i-th hop the reader is at what the path passes through there,
if the message has not been changed, and at a message of the same type even if it has (`Underway`): a change leaves each
field of its type (`StillFits`), and so the field that the path ends at is one that the walk knew (`Landed`), in
whose options the rule is written. `Arrived` is that the value found is what the path leads to, or none if an error was
swallowed; `OnTheWay` is that such an error ends the path at once, so that no hop follows it.

The proofs rest on what the compiler and Protobuf see to, assumed of the constants and evaluated
by TLC on the instance: a field's rules are written in its options where their paths say, a message's own rules have no
path, a field that tracks presence has its rules skipped when unset (`RulesAssumption`: `custom_rules`,
`standard_checks` and `ignore_empty` in `rules/build.rs`); a message has the fields of its type, whatever is
changed, holding values of their types, with distinct map keys, and no oneof has the name of a field
(`ContentAssumption`); keys, indices, messages and "no value" are told apart (`DistinctAssumption`).

What is left out: a `Violation` that a program constructs itself (its cell is full at once), the steps
of a rule path past the first element, the entry that google.protobuf adds to a message map when a
missing key is read, and a read of the same violation by Python code that its own recovery runs.

## The parts below

The rest of the system is in nine modules that share no state. `MCParts` composes them for TLC: a
behaviour is one of one part, which `part` names in the first state, and the variables of the other parts
never change. The run `parts` checks all their properties; deadlock is not checked, since each part ends.

### Views

`Views.tla` is `Ctx` and the views of `view.rs`. A view of a message has a buffer with a cell for each field,
and `ReadField` fills a cell once; a view of a list has a copy of all the items, made with the first read.
`take_values` is `OpenReusing` (the last free buffer that is long enough, by swap-remove) or
`OpenAllocating`; the drops are `CloseBare`, `CloseMessage` and `CloseList`, and `ReadItemsFails` is an
exception of Python while items are read. A cell holds the object and the slot its value was fetched
from, so what another view left behind can be told. `Resize` changes lists meanwhile.

Checked: `NeverShared`, `OwnValues` (a pooled buffer that is too long, or was used by another
object, shows nothing of it) and `PoolBounded` (no more buffers of one length than were once in use
together). Instance: messages of no, one and two fields, one list, two views, four buffers. Two views are a message
and one nested in it, or a list's; three buffers of different histories are what the choice of `take_values`
needs, the fourth is slack.

Proved (`ViewsProofs`), for any objects, views and buffers: all three. `NeverShared` and `OwnValues` are not
inductive alone: `ViewsInv` adds that the free lists have no buffer twice (`FreeLists`), that a
buffer is in use once (`OneUse`), that a free value buffer has empty cells only, and a buffer that is nowhere has none
(`Clean`), and what is in the cells of those in use (`OwnCells`). `PoolBounded` speaks of free buffers and its
bound is a past number of used ones; `PoolInv` counts, for each length, the buffers free and in use together, and
those for items, against the most that were ever in use (`peak`): a buffer is allocated only when none of its length
is free, and then all of that length are in use.

### Field reads

`FieldReads.tla` is one field: its `ignore` compiled as `build_message` and `Target::ignore_empty` do, and
`FieldValidator::validate` read by read: the value (`GetField`), presence (`HasField`), the custom rule, the native
checks, `unique`, the predefined rule, then the items or entries. Earlier oneof rules and other fields' rules may have
fetched the field or serialized the message before (`Earlier`). `Change` is another thread, or Python
code run by a read: it sets or clears the field, replaces, adds and removes elements. A dict is its table of entries
with holes, as CPython iterates it. The log is what was judged and on which value.

| Property | Says |
| --- | --- |
| `QuietIsSequential` | if nothing changes meanwhile, the log is what validate.proto says of `ignore`, `required` and oneof members |
| `RulesSeeOneValue` | the custom and predefined rules of a field see one value |
| `ItemsOnce` | items are visited once and in order, from one copy, which `unique` compared too |
| `SetIfRead` | a protobuf-py oneof member or message field is set exactly if its value was there |
| `OneChangeNoticed` | one change to a map, whenever it comes, is seen: a map judged to the end was judged entry by entry as it is now, once each |

A content is the type's zero, a negative zero or another value. The code has two notions of zero: `is_set` compares a double's
bits, since a negative zero serializes, and `is_empty_item` compares values. `QuietIsSequential` has both from validate.proto: unset
is what is not serialized, and zero is what equals zero; comparing items by their bits is a mutant it finds.

Instance: every kind of field, `required`, `ignore`, oneof membership and items' `ignore`, on both runtimes (lists, which are
read alike, on one), rules on a list or map itself apart from those on its items; up to two
elements at first and two changes. Two changes let a field be cleared and set again, or a list shrink
and grow, between any two reads. For a list of protobuf-py or google.protobuf the length read first and
the copy made later may differ; a dict that changes size ends the iteration, with an error or, for protobuf-py, a
panic of the iterator. A deletion and an insertion together keep the size and may pass unnoticed, whence the one change of
`OneChangeNoticed`: in the code the table may even be compacted in between, and entries be left out. What native checks of a message field read is the message as it is now: only
CEL rules have one value, and no property claims more.

Proved (`ViewsProofs`), for any shapes, contents, keys, lengths and numbers of changes: all five. From
`ShapesAssumption` (what a shape is), `SentinelsAssumption` (the marks for nothing, unread and holes are no contents) and
`MaxLengthAssumption`. `ReadsInv` holds whatever changes: nothing is judged before the value is fetched
(`ReadsInOrder`), what CEL was judged on is what is still bound (`BoundOnce`), a field with an object was not
judged missing (`Presence`), and the items' judgements are the last of the log, each of a later item of the copy
(`ItemsFrom`). `QuietInv` adds how far a validation has come of an unchanged message: the log begins the sequence that
validate.proto asks for, and the rest of it is what the steps to come will add. `MapInv` is for maps that change
once: keys stay distinct (`Separate`), and while the size is the one the iteration began with, the keys judged are those
before the position, each once. A change that keeps the size then replaces a value, not a key (`ChangedDict`), and any other is
found by the next visit, which compares the sizes.

### Closure

`Closure.tla` is `closure` and `resolve` of `build.rs`, over every way that three types can refer to
themselves and each other by some lists of fields, with any of them compiled already; compiled
types are closed under references, as the rule cache keeps them. `NeedsMet` says that what is found is
the least closed set, and that `resolve` returns every type the builder looks up, so that no lookup
panics. `ClosureEnds` says that the search ends; its fairness is weak fairness of the loop's next step, one thread's
`while`, which nothing can hold up but the reader's call, which returns or raises.

Proved (`CompilerProofs`), for any finite set of types: `NeedsMet`. The invariant is about `Known`, the compiled types with the found
ones and those on the stack: what a found type refers to is `Known` (`Covered`), and every closed
set has the found types and the stack (`Needed`); with the stack empty both give the answer. That
the search ends is model-checked.

### Field compiler

`FieldCompiler.tla` is `build_message` down to `standard_checks`. A field is compiled place by place: itself, then its items or its
keys and values. At each come the custom CEL, `standard_rules` (rules of another type, `unique` over messages, rule fields
of no known file), the native checks, which take their rule fields, and the CEL of what is left. `RulesKept`:
each rule is kept once, natively or as a program, wherever it is stated; a field has an error exactly
if there is a fault somewhere in its options, and the error names a place with one. The instance has singular, list and map fields of
scalars, wrappers, timestamps and messages, with rules of the right and wrong type, extensions,
`example`, and faulty oneof rules.

Proved (`CompilerProofs`), for any messages of the form `MessagesAssumption` gives (records with the options' parts;
`NoRules` is no rules message): `RulesKept`. The options are consumed while they are compiled, and the places wait in a
sequence; the invariant `CompileInv` says of each part of the field's options where it is. Every part
that needs a validator has one, or a place that waits, or comes with the items of the field (`Placed`), and never two
(`Apart`); what was built of the place under way, and what remains of its rules, together are what the options said (`Doing`);
validators that are done keep their part's rules (`ValuesKept`); and the results of the fields behind stand in their order, at
their rank among the fields with rules (`ResultsKept`). The step that needs most is the end of a place
(`PlaceDone`): the items' rules are read from what is left of the field's standard rules, so a field's own faults
must be known to be none by then (`RulesRemain`).

### Standard checks

`StandardChecks.tla` has the comparison checks of numbers, durations and timestamps: `BoundChecks` makes one check of two
bounds, crossed or not; the clock rules read the clock each anew (`ClockTicks` passes between them).
`TextChecks.tla` has those of strings, bytes, enums, lists, maps, field masks and Any. In both, a second definition states what
validate.proto's CEL says (`CelFails`, `CelFinds`), and `AgreesWithCel` and `TextAgreesWithCel` compare the reports,
each id once. `Duplicates.tla` has `unique`, with its window of pairs and its hash set; `FindsDuplicates` is CEL's `unique()`.

Instances: all pairs of bounds among two numbers and NaN, with values on, between and beyond them and
infinities; instants whose total is negative, beyond a bound, and at one; one or two rules of
each kind of text over all texts of up to three characters of one and two bytes. A second has 4 nanoseconds, seconds and
nanoseconds have four bits each (-8..7) and totals have seven (-64..63), for the code's 64, 32 and 128; the values have the least
and the greatest of both types, and a total in the type of the seconds is a mutant that `AgreesWithCel` finds. The clock has three readings. Two rules at a time are
enough for order and companions: checks share nothing. The window is two keys wide, and lists have up to four items, so that
the hand-over and one key after it occur, with NaN and both zeros.

Proved (`ViewsProofs`), for any list, window and items: `FindsDuplicates`. The invariant `Remembered`: whichever way it
searches, the keys of the items behind are kept, and no two of those are equal.

Proved (`ChecksProofs`), for any rules and values of numbers, durations and timestamps (`BoundRulesAssumption`: bounds set have a
value, only timestamps have rules about the time it is) and any readings of the clock: `AgreesWithCel`. The seconds and nanoseconds are
any that their types hold; that their total, of whatever signs, fits its type is a lemma (`TotalsFit`) from the widths of the
three types alone (`WidthAssumption`). A
list of checks stands for a set of ids (`Stands`): no id has two checks, each check fails
when the expression of its id is false, and an expression of the set without a check is never false. Each part of `BuildChecks`
stands for the ids it is for, and lists over disjoint ids stand for their union (`Followed`). The invariant `ChecksInv`: each id is
still to be checked or answered for, at some instant since the run began: each clock rule may have had a different one.

Proved (`ChecksProofs`), for any rules and values of strings, bytes, enums, lists, maps, field masks and Any, over any
alphabet whose characters have a size (`CharactersAssumption`, `TextRulesAssumption`: rules are fields of their kind's message, a
length is a number, a part is a text, a format is no field's name and is one of bytes exactly for bytes): `TextAgreesWithCel`. The code scans
for a part, with windows and prefixes; CEL is stated with ways to split the value, and the two are shown to agree on every text (`PrefixOccurs`
and its neighbours). The list that is built has each check of the rules once, at its declared place (`TextChecksAre`). `TextInv`
says how far a run has come: what was reported is in declared order and before all that is left (`InOrderSoFar`), and an id has been
reported exactly if its expression finds something wrong and its check is not left (`AgreeSoFar`); a pattern that meets bytes
that are no text is still left, so the run cannot end without its error. That some id has two checks never happens: a format has
its own id and that of its `empty` companion.

The run `check_order` is **violated**: see below.

### Formats

`Formats.tla` has the scanners written by hand: host names, host-and-port, zones, prefixes, and
what is done to URIs around the library that parses them: the zone id of an IPv6 literal is taken out and checked
(`WithoutZoneId`), the host must decode (`IsHostUtf8`). `FormatsAgree` compares each with a definition after its
comment. Addresses and URIs are parsed by libraries, so the texts they accept, and the host of each URI, are given;
`is_uri` and `is_uri_ref` differ only in that. Limits are small constants (`MaxName` 4, `MaxLabel` 2, `MaxPort` 10, `Bits` 10) and texts are all those
of up to six characters that reach past them: a name over each limit, a port above the largest, a prefix as
long as the address. `FormatsAgree` is model-checked only: each format would need an induction over texts of its own.

### CEL lifetime

`CelLifetime.tla` is the ownership of the raw C++ engine: `Shared` is counted (`shares`), a drop frees the raw
object first and gives up the share after (`DropObject`, `ReleaseShare`), and the last share frees the engine. Evaluations
borrow their program and frame, and may call back into registered functions, which may panic.
`EngineOutlives`: the engine is there while any raw object is, evaluations use what is there, and nothing leaks.
Instance: two threads, programs and frames. Proved (`ViewsProofs`), for any numbers: `EngineOutlives`; `CelInv` adds that the
count is the number of owners that hold a share (`SharesCounted`), that raw objects belong to live owners (`RawLive`), that the engine is
live while a share is held (`SharesHeld`), and that what is borrowed is live (`BorrowedLive`).

## What disagrees with the documentation

1. `Validator.evaluate` says that a registration waiting on the core lock "cannot deadlock with a
   validation that Python has preempted". If the Python code that a validation runs (a property, a
   finalizer, a signal handler) validates a message of a file that is not registered yet, its thread waits for
   itself (`engine_reentrant_cold`).
2. A comment in the walk says that "a message value is bound to `this`, and validated, through a frame of
   its own"; the CEL rules of a field that holds a message are bound through the frame of
   the message that has the field (`walk_frames`).
3. The type stub describes `rule_value` as "The value of the rule that was violated." For the rule
   `required` on a protobuf-py field that holds no message, it is None: the field's absent value cannot be
   told from a path that does not resolve (`values_rule_given`).
4. A comment of the recovery says that "unresolvable paths yield `None`". The rule path of such a
   violation is walked from the rules of the validated type, where the fallback to names finds a
   rule of that type: after a field was cleared, or an error swallowed, `rule_value` can be a rule that did not fail
   (`values_unresolved`). This one is an error of the code: `rule_value` should be None.
5. The doc of the native checks says that they "run in the same order" as the CEL expressions, the order in which
   validate.proto declares the rules. A timestamp's `gt` and `gte` are checked before `lt_now`,
   which is declared before them (`check_order`).

Smaller ones, met while modelling and left out of the properties: an enum item is empty if it is 0, which
validate.proto's text on zero values says of the first value of the enum; a message item is empty if it encodes to nothing, where
the text speaks of absence;
two clock rules of one timestamp may be judged at different instants; and an error that Python raises while
a field path is walked (a signal handler's, say) is taken for a path that does not resolve, and leaves `field_value`
None for every later reader although the message has not been changed, where the stub has "The value of the field that
violated the rule."

## Not modelled

* The CEL evaluator, RE2 and the Protobuf runtimes: third-party; they appear as what the
  code assumes of them (outcomes of checks, Python calls that may raise or yield).
* The wording of errors and violations, the class of an error, text and type hints.
* Build scripts, generated code, tests.
* The stack: recursion is as deep as the message, and the limit is not in the code.
* The URI grammar (a library's; the zone id and the host around it are modelled), and the formats that are one regular expression: email, uuid and the
  like. They are pure, sequential text matching; `TextChecks` takes their languages as given.
* The `format` function and the translation of regular expressions: wording, and text to text.
* The type information kept under a type's name: two types of one name come from two descriptor
  pools, and every model here has one.
* Most lines of the implementation are generated (`gen/buf.validate.validate.rs` alone is half of it):
  accessors and encoders of messages, without decisions of their own.
