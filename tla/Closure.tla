------------------------------ MODULE Closure ------------------------------
(***************************************************************************)
(* The types the rules of a message type need, found and resolved before   *)
(* any rule is compiled: closure and resolve of rules/build.rs.  closure   *)
(* keeps a stack of the types to visit; resolve then asks the runtime for  *)
(* the type of every message that is found or referred to.  The builder    *)
(* that follows looks types up in what resolve returns, and panics over    *)
(* one that is missing.                                                    *)
(***************************************************************************)
EXTENDS Naturals, FiniteSets, Sequences, SequencesExt

CONSTANTS
  MessageTypes, \* the message types of the pool
  Pools         \* the pools considered: pool[m], the types that the fields of
                \* m hold, field by field

ASSUME MessageTypesAssumption == IsFiniteSet(MessageTypes)
ASSUME PoolsAssumption == Pools \subseteq [MessageTypes -> Seq(MessageTypes)]

VARIABLES
  pool, root,
  compiledOk, compiledErr, \* `known': the types with rules, and with an error
  toVisit,     \* the stack of closure
  found,       \* the types closure found
  resolvedSet, \* the types resolve has resolved
  closing      \* "search", "resolve", "done" or "failed"
closureVars ==
  <<pool, root, compiledOk, compiledErr, toVisit, found, resolvedSet, closing>>

Refers(m) == ToSet(pool[m])
Compiled == compiledOk \cup compiledErr

----------------------------------------------------------------------------
\* The rules of a type are added with those of all it refers to.
ClosureInit ==
  /\ pool \in Pools /\ root \in MessageTypes
  /\ compiledOk \in SUBSET MessageTypes
  /\ compiledErr \in SUBSET (MessageTypes \ compiledOk)
  /\ \A m \in Compiled : Refers(m) \subseteq Compiled
  /\ toVisit = <<root>> /\ found = {} /\ resolvedSet = {} /\ closing = "search"

\* Mutant: the type is looked at, but stays on the stack.
PassOverPeeking ==
  /\ closing = "search" /\ toVisit # <<>>
  /\ Last(toVisit) \in Compiled \cup found
  /\ UNCHANGED <<pool, root, compiledOk, compiledErr, toVisit, found, resolvedSet, closing>>

\* A type that has rules, or was found before, is passed over.
PassOver ==
  /\ closing = "search" /\ toVisit # <<>>
  /\ Last(toVisit) \in Compiled \cup found
  /\ toVisit' = Front(toVisit)
  /\ UNCHANGED <<pool, root, compiledOk, compiledErr, found, resolvedSet, closing>>

\* Mutant: a type that has rules is visited like another.
VisitCompiled ==
  /\ closing = "search" /\ toVisit # <<>>
  /\ Last(toVisit) \notin found
  /\ found' = found \cup {Last(toVisit)}
  /\ toVisit' = Front(toVisit) \o pool[Last(toVisit)]
  /\ UNCHANGED <<pool, root, compiledOk, compiledErr, resolvedSet, closing>>

Visit ==
  /\ closing = "search" /\ toVisit # <<>>
  /\ Last(toVisit) \notin Compiled \cup found
  /\ found' = found \cup {Last(toVisit)}
  /\ toVisit' = Front(toVisit) \o pool[Last(toVisit)]
  /\ UNCHANGED <<pool, root, compiledOk, compiledErr, resolvedSet, closing>>

EndSearch ==
  /\ closing = "search" /\ toVisit = <<>> /\ closing' = "resolve"
  /\ UNCHANGED <<pool, root, compiledOk, compiledErr, toVisit, found, resolvedSet>>

\* The found types, and the types that they refer to, in the order of a hash set.
Wanted == found \cup UNION {Refers(m) : m \in found}

\* One type: taken from the rules it has, or asked of the runtime, which may
\* not know it.
ResolveType ==
  /\ closing = "resolve"
  /\ \E m \in Wanted \ resolvedSet :
       \/ resolvedSet' = resolvedSet \cup {m} /\ UNCHANGED closing
       \/ m \notin compiledOk /\ closing' = "failed" /\ UNCHANGED resolvedSet
  /\ UNCHANGED <<pool, root, compiledOk, compiledErr, toVisit, found>>

EndResolve ==
  /\ closing = "resolve" /\ Wanted \subseteq resolvedSet /\ closing' = "done"
  /\ UNCHANGED <<pool, root, compiledOk, compiledErr, toVisit, found, resolvedSet>>

ClosureNext == PassOver \/ Visit \/ EndSearch \/ ResolveType \/ EndResolve
ClosureSpec == ClosureInit /\ [][ClosureNext]_closureVars /\ WF_closureVars(ClosureNext)

----------------------------------------------------------------------------
ClosureTypeOK ==
  /\ pool \in [MessageTypes -> Seq(MessageTypes)] /\ root \in MessageTypes
  /\ compiledOk \subseteq MessageTypes /\ compiledErr \subseteq MessageTypes
  /\ toVisit \in Seq(MessageTypes) /\ found \subseteq MessageTypes
  /\ resolvedSet \subseteq MessageTypes
  /\ closing \in {"search", "resolve", "done", "failed"}

\* A set with the root that every uncompiled member's references stay in.
ClosedSet(S) ==
  /\ root \in S
  /\ \A m \in S \ Compiled : Refers(m) \subseteq S

\* The search finds the least set there is: every uncompiled type reachable
\* from the root through uncompiled types, and no other, whatever cycles the
\* types make, and however often one is pushed before it is visited.
FindsReachable ==
  closing \in {"resolve", "done"} =>
    /\ root \in Compiled \cup found
    /\ found \cap Compiled = {}
    /\ \A m \in found : Refers(m) \subseteq Compiled \cup found
    /\ \A S \in SUBSET MessageTypes : ClosedSet(S) => found \subseteq S

\* The types the builder looks up: of the messages it compiles rules for, and
\* of their fields.  None is missing from what resolve returns, and so no
\* lookup panics, although the search passes over types with rules.
BuilderLookups == {m \in MessageTypes : m \in found \/ \E n \in found : m \in Refers(n)}
LookupsResolved == closing = "done" => BuilderLookups \subseteq resolvedSet

\* What the rules of the root need is found, no more and no less, and resolved.
NeedsMet == FindsReachable /\ LookupsResolved

\* The search ends, also when types refer to themselves or to each other.
ClosureEnds == closing = "search" ~> closing \in {"done", "failed"}
=============================================================================
