----------------------------- MODULE RuleCache -----------------------------
(***************************************************************************)
(* The compiled rules of the core validator, shared by every validation    *)
(* (Validator.validators in validator.rs, resolve and build_closure in     *)
(* rules/build.rs).                                                        *)
(*                                                                         *)
(* A validation takes a snapshot of the cache.  If its type is missing, it *)
(* resolves the types the rules refer to (running Python code), compiles   *)
(* the missing types against the snapshot, without the cache's lock, and   *)
(* merges them into what the cache has become meanwhile.  It then walks    *)
(* the message with the map it has in hand.  Descriptors are only added    *)
(* while no validation is in progress (module Engine); they change what a  *)
(* later compilation finds, since a rule may be an extension declared in a *)
(* file that its message does not import.                                  *)
(***************************************************************************)
EXTENDS Naturals

CONSTANTS
  Threads,
  Files, Imports,      \* Imports[g]: the files g imports
  Preregistered,       \* files declaring extensions, registered up front
  Types, NoType,
  FileOf,              \* FileOf[m]: the file that declares message type m
  Fields,
  Owner,               \* Owner[f]: the message type field f belongs to
  Value,               \* Value[f]: the message type f holds, itself or in its
                       \* items or map values, or NoType
  Ruled,               \* fields with (buf.validate.field) options
  Ignored,             \* fields whose rules say IGNORE_ALWAYS
  ItemsIgnored,        \* container fields whose items' rules say so
  BrokenTypes,         \* types whose message-level rules do not compile
  BrokenFields,        \* fields whose rules do not compile in any pool
  Extensions           \* Extensions[f]: files declaring the extensions that
                       \* the rules of f use

ASSUME TypesAssumption ==
  /\ Imports \in [Files -> SUBSET Files] /\ Preregistered \subseteq Files
  /\ NoType \notin Types /\ FileOf \in [Types -> Files]
  /\ Owner \in [Fields -> Types] /\ Value \in [Fields -> Types \cup {NoType}]
  /\ Extensions \in [Fields -> SUBSET Files]
  /\ BrokenTypes \subseteq Types
\* A field's message type is declared in its own file or an import of it.
ASSUME LinkAssumption ==
  \A f \in Fields : Value[f] # NoType =>
    FileOf[Value[f]] \in {FileOf[Owner[f]]} \cup Imports[FileOf[Owner[f]]]

\* A file given up front brings the files it imports.
ASSUME PreregisteredAssumption ==
  \A g \in Preregistered : Imports[g] \subseteq Preregistered

VARIABLES
  pool,    \* the files registered
  cache,   \* the compiled rules, of the message types in its domain
  pc,      \* where each validation is
  want,    \* the type of its message
  known,   \* the map it has in hand: its snapshot, then the merged cache
  types,   \* the types it has resolved
  built,   \* the rules it has compiled
  at       \* the type of the message its walk is at

vars == <<pool, cache, pc, want, known, types, built, at>>

(***************************************************************************)
(* A validator is a message type's own outcome and that of each field: no  *)
(* validator, a compiled one, the error of its own rules, or the error of  *)
(* the message type it holds.                                              *)
(***************************************************************************)
Built == [ok : BOOLEAN, fields : [Fields -> {"none", "ok", "error", "embedded"}]]
IsRules(r) == DOMAIN r \subseteq Types /\ r \in [DOMAIN r -> Built]
NoRules == [m \in {} |-> {}]

PCs == {"idle", "snapshot", "resolve", "merge", "walk"}

Init ==
  /\ pool = Preregistered
  /\ cache = NoRules
  /\ pc = [t \in Threads |-> "idle"]
  /\ want \in [Threads -> Types]
  /\ known = [t \in Threads |-> NoRules]
  /\ types = [t \in Threads |-> {}]
  /\ built = [t \in Threads |-> NoRules]
  /\ at = want

-----------------------------------------------------------------------------
(* Which types a compilation is about.                                     *)

Refs(m) == {Value[f] : f \in {g \in Fields : Owner[g] = m}} \ {NoType}

\* The types reachable from root that K, a map's domain, does not have.
Missing(root, K) ==
  {m \in Types : \A S \in SUBSET Types :
     root \in S /\ (\A n \in S : Refs(n) \ K \subseteq S) => m \in S} \ K

\* Mutant: a field that holds no message is not left out.
ResolvedUnfiltered(M) == M \cup {Value[f] : f \in {g \in Fields : Owner[g] \in M}}
\* The types resolve looks up for the missing types M.
Resolved(M) == M \cup UNION {Refs(m) : m \in M}

-----------------------------------------------------------------------------
(* What compiling a type gives.                                            *)

\* A field has a validator if it has rules or holds a message, and its rules
\* do not say to ignore it.
Validated(f) == (f \in Ruled \/ Value[f] # NoType) /\ f \notin Ignored

\* An extension that the pool does not have makes the rules "unknown rules".
Compiles(f) == f \notin BrokenFields /\ Extensions[f] \subseteq pool

\* The message type whose rules run inside the field's, or NoType.
Nested(f) == IF f \in ItemsIgnored THEN NoType ELSE Value[f]

\* build_message, before the second pass.
Compile(m) ==
  [ok |-> m \notin BrokenTypes,
   fields |-> [f \in Fields |->
      IF m \in BrokenTypes \/ Owner[f] # m \/ ~Validated(f) THEN "none"
      ELSE IF Compiles(f) THEN "ok" ELSE "error"]]

\* Mutant: the snapshot is not asked for the held type's error.
FailedBuiltOnly(n, K, B) == n \in DOMAIN B /\ ~B[n].ok
\* Whether the held type n did not compile, by the snapshot K or else by the
\* rules B just built.
Failed(n, K, B) ==
  \/ n \in DOMAIN K /\ ~K[n].ok
  \/ n \in DOMAIN B \ DOMAIN K /\ ~B[n].ok

\* The second pass: a field whose message type did not compile does not
\* compile either.
Embed(r, K, B) ==
  [r EXCEPT !.fields = [f \in Fields |->
     IF r.fields[f] = "ok" /\ Nested(f) # NoType /\ Failed(Nested(f), K, B)
       THEN "embedded" ELSE r.fields[f]]]

BuildClosure(M, K) ==
  LET B == [m \in M |-> Compile(m)] IN [m \in M |-> Embed(B[m], K, B)]

\* K with the entries of B added, which replace entries of the same type.
Extend(K, B) ==
  [m \in DOMAIN K \cup DOMAIN B |-> IF m \in DOMAIN B THEN B[m] ELSE K[m]]

-----------------------------------------------------------------------------
(* Descriptors.                                                            *)

\* Mutant: a file is added before its imports.
RegisterAlone(g) ==
  /\ g \notin pool
  /\ \A t \in Threads : pc[t] = "idle"
  /\ pool' = pool \cup {g}
  /\ UNCHANGED <<cache, pc, want, known, types, built, at>>

\* A file follows its imports, and needs the core validator to itself.
Register(g) ==
  /\ g \notin pool /\ Imports[g] \subseteq pool
  /\ \A t \in Threads : pc[t] = "idle"
  /\ pool' = pool \cup {g}
  /\ UNCHANGED <<cache, pc, want, known, types, built, at>>

-----------------------------------------------------------------------------
(* A validation.                                                           *)

\* evaluate holds the core for reading; the message's file is registered.
Start(t, m) ==
  /\ pc[t] = "idle" /\ FileOf[m] \in pool
  /\ pc' = [pc EXCEPT ![t] = "snapshot"]
  /\ want' = [want EXCEPT ![t] = m]
  /\ UNCHANGED <<pool, cache, known, types, built, at>>

Snapshot(t) ==
  /\ pc[t] = "snapshot"
  /\ known' = [known EXCEPT ![t] = cache]
  /\ at' = [at EXCEPT ![t] = want[t]]
  /\ pc' = [pc EXCEPT ![t] = IF want[t] \in DOMAIN cache THEN "walk" ELSE "resolve"]
  /\ UNCHANGED <<pool, cache, want, types, built>>

\* The types still to look up, in any order: they come out of a hash set.
Unresolved(t) == Resolved(Missing(want[t], DOMAIN known[t])) \ types[t]

Resolve(t) ==
  /\ pc[t] = "resolve"
  /\ \E m \in Unresolved(t) : types' = [types EXCEPT ![t] = types[t] \cup {m}]
  /\ UNCHANGED <<pool, cache, pc, want, known, built, at>>

\* The call returns, and what it had in hand goes.
Return(t) ==
  /\ pc' = [pc EXCEPT ![t] = "idle"]
  /\ known' = [known EXCEPT ![t] = NoRules]
  /\ types' = [types EXCEPT ![t] = {}]
  /\ built' = [built EXCEPT ![t] = NoRules]

\* A type the snapshot has compiled is copied; any other is looked up in
\* Python, which may raise.
ResolveFails(t) ==
  /\ pc[t] = "resolve"
  /\ \E m \in Unresolved(t) : ~(m \in DOMAIN known[t] /\ known[t][m].ok)
  /\ Return(t)
  /\ UNCHANGED <<pool, cache, want, at>>

\* With every type resolved (that none is missing then is NeedsMet, of module
\* Closure), the missing ones are compiled.
Build(t) ==
  /\ pc[t] = "resolve" /\ Unresolved(t) = {}
  /\ built' = [built EXCEPT ![t] = BuildClosure(Missing(want[t], DOMAIN known[t]), known[t])]
  /\ pc' = [pc EXCEPT ![t] = "merge"]
  /\ UNCHANGED <<pool, cache, want, known, types, at>>

\* Mutant: the merge starts from the snapshot.
MergeStale(t) ==
  /\ pc[t] = "merge"
  /\ cache' = Extend(known[t], built[t])
  /\ known' = [known EXCEPT ![t] = cache']
  /\ pc' = [pc EXCEPT ![t] = "walk"]
  /\ UNCHANGED <<pool, want, types, built, at>>

\* Under the cache's write lock: the current cache, not the snapshot, is
\* extended and replaced as a whole.
Merge(t) ==
  /\ pc[t] = "merge"
  /\ cache' = Extend(cache, built[t])
  /\ known' = [known EXCEPT ![t] = cache']
  /\ pc' = [pc EXCEPT ![t] = "walk"]
  /\ UNCHANGED <<pool, want, types, built, at>>

\* The walk goes from a message to one its field holds.
Descend(t, f) ==
  LET r == known[t][at[t]] IN
  /\ pc[t] = "walk" /\ at[t] \in DOMAIN known[t]
  /\ r.ok /\ r.fields[f] = "ok" /\ Nested(f) # NoType
  /\ at' = [at EXCEPT ![t] = Nested(f)]
  /\ UNCHANGED <<pool, cache, pc, want, known, types, built>>

\* The walk ends: done, or at an error it found.
Finish(t) ==
  /\ pc[t] = "walk"
  /\ Return(t)
  /\ UNCHANGED <<pool, cache, want, at>>

Next ==
  \/ \E g \in Files : Register(g)
  \/ \E t \in Threads :
       \/ \E m \in Types : Start(t, m)
       \/ Snapshot(t) \/ Resolve(t) \/ ResolveFails(t) \/ Build(t) \/ Merge(t)
       \/ \E f \in Fields : Descend(t, f)
       \/ Finish(t)

Spec == Init /\ [][Next]_vars

-----------------------------------------------------------------------------
TypeOK ==
  /\ pool \subseteq Files
  /\ IsRules(cache)
  /\ pc \in [Threads -> PCs]
  /\ want \in [Threads -> Types]
  /\ known = [t \in Threads |-> known[t]] /\ \A t \in Threads : IsRules(known[t])
  /\ types \in [Threads -> SUBSET Types]
  /\ built = [t \in Threads |-> built[t]] /\ \A t \in Threads : IsRules(built[t])
  /\ at \in [Threads -> Types]

\* Every type a walk reaches has its rules in the map the walk has in hand
\* (validator.rs: "the lookup cannot miss"), and only the root's may be an
\* error: a field that holds a type that did not compile is an error itself,
\* so the walk stops there and reports where.
WalkFindsRules ==
  \A t \in Threads : pc[t] = "walk" =>
    /\ at[t] \in DOMAIN known[t]
    /\ at[t] = want[t] \/ known[t][at[t]].ok

\* The files g needs, itself included.
NeededBy(g) ==
  {h \in Files : \A S \in SUBSET Files :
     g \in S /\ (\A i \in S : Imports[i] \subseteq S) => h \in S}

\* A field that uses only extensions its message's file imports, or that the
\* constructor was given, never fails for want of a file, in whatever order
\* messages are validated ("predefined rules defined in files the validated
\* messages do not import are still found").
ExtensionsFound ==
  \A m \in DOMAIN cache, f \in Fields :
    /\ Owner[f] = m /\ cache[m].fields[f] = "error" /\ f \notin BrokenFields
    => ~(Extensions[f] \subseteq NeededBy(FileOf[m]) \cup Preregistered)

\* The cache as its users may think of it: a book that is only added to, a
\* set of types closed under the types their fields hold at a time.
Book == INSTANCE RuleBook WITH book <- cache
BookSpec == Book!Spec

-----------------------------------------------------------------------------
(* The inductive invariant behind the properties above.                    *)

\* What compiling m in the current pool comes to, second pass included.
Final(m) ==
  [Compile(m) EXCEPT !.fields = [f \in Fields |->
     IF Compile(m).fields[f] = "ok" /\ Nested(f) # NoType /\ Nested(f) \in BrokenTypes
       THEN "embedded" ELSE Compile(m).fields[f]]]

\* Every entry of a map tells the truth about its type and the types its
\* fields hold, and the map has those too.
Sound(K) ==
  \A m \in DOMAIN K :
    /\ K[m].ok <=> m \notin BrokenTypes
    /\ \A f \in Fields :
         /\ K[m].fields[f] \in {"ok", "embedded"} => Owner[f] = m
         /\ K[m].fields[f] = "ok" => Nested(f) \notin BrokenTypes
         /\ K[m].fields[f] = "embedded" => Nested(f) \in BrokenTypes
    /\ Refs(m) \subseteq DOMAIN K

\* A map in hand is a part of the cache.
Within(K) == \A m \in DOMAIN K : m \in DOMAIN cache /\ cache[m] = K[m]

\* Whatever has been compiled since a validation took its snapshot was
\* compiled in the pool there still is.
Current(t) ==
  /\ pc[t] \in {"resolve", "merge"} =>
       /\ want[t] \notin DOMAIN known[t]
       /\ \A m \in DOMAIN cache \ DOMAIN known[t] : cache[m] = Final(m)
  /\ pc[t] = "merge" =>
       /\ DOMAIN built[t] = Missing(want[t], DOMAIN known[t])
       /\ \A m \in DOMAIN built[t] : built[t][m] = Final(m)

\* The pool holds what the files in it import, and the file of a type that is
\* being validated.
Opened ==
  /\ Preregistered \subseteq pool
  /\ \A g \in pool : Imports[g] \subseteq pool
  /\ \A t \in Threads :
       pc[t] \in {"snapshot", "resolve", "merge"} => FileOf[want[t]] \in pool

\* A walk has not begun before its map is complete.
NotBegun == \A t \in Threads : pc[t] \in {"resolve", "merge"} => at[t] = want[t]

CacheInv ==
  /\ Sound(cache)
  /\ \A t \in Threads : Sound(known[t]) /\ Within(known[t]) /\ Current(t)
  /\ Opened /\ NotBegun
=============================================================================
