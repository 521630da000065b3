--------------------------- MODULE RuleCacheProofs ---------------------------
(***************************************************************************)
(* Proofs about RuleCache, for any number of threads, any files, any       *)
(* message types with any recursion among them, and any rules.             *)
(***************************************************************************)
EXTENDS RuleCache, TLAPS

-----------------------------------------------------------------------------
(* Closures.                                                               *)

\* The types missing from a map, with those in it, hold only each other.
LEMMA MissingClosed ==
  ASSUME NEW root, NEW K, NEW m \in Missing(root, K)
  PROVE  Refs(m) \subseteq K \cup Missing(root, K)
<1> SUFFICES ASSUME NEW n \in Refs(m), n \notin K
             PROVE  n \in Missing(root, K)
  OBVIOUS
<1>1. n \in Types  BY TypesAssumption DEF Refs
<1>2. ASSUME NEW S \in SUBSET Types, root \in S, \A i \in S : Refs(i) \ K \subseteq S
      PROVE  n \in S
  <2>1. m \in S  BY <1>2 DEF Missing
  <2> QED  BY <2>1, <1>2
<1> QED  BY <1>1, <1>2 DEF Missing

\* The root is among them unless the map has it.
LEMMA MissingRoot ==
  ASSUME NEW root \in Types, NEW K, root \notin K
  PROVE  root \in Missing(root, K)
BY DEF Missing

\* They are types the map does not have.
LEMMA MissingTypes ==
  ASSUME NEW root, NEW K
  PROVE  Missing(root, K) \subseteq Types \ K
BY DEF Missing

\* A set of types that has the root and is closed has all of them.
LEMMA MissingLeast ==
  ASSUME NEW root, NEW K, NEW S \in SUBSET Types,
         root \in S, \A n \in S : Refs(n) \subseteq S
  PROVE  Missing(root, K) \subseteq S
BY DEF Missing

-----------------------------------------------------------------------------
(* Compiling.                                                              *)

\* Compiling gives a validator, for each field one of its outcomes.
LEMMA CompileTyped ==
  ASSUME NEW m
  PROVE  /\ Compile(m) \in Built
         /\ Compile(m).ok <=> m \notin BrokenTypes
         /\ \A f \in Fields :
              /\ Compile(m).fields[f] \in {"none", "ok", "error"}
              /\ Compile(m).fields[f] = "ok" => Owner[f] = m
BY DEF Compile, Built

\* So does the second pass.
LEMMA ClosureTyped ==
  ASSUME NEW M \in SUBSET Types, NEW K
  PROVE  /\ IsRules(BuildClosure(M, K))
         /\ DOMAIN BuildClosure(M, K) = M
<1> DEFINE B == [m \in M |-> Compile(m)]
<1>1. ASSUME NEW m \in M  PROVE Embed(B[m], K, B) \in Built
  <2>1. B[m] \in Built  BY CompileTyped
  <2> HIDE DEF B
  <2> QED  BY <2>1 DEF Embed, Built
<1> QED  BY <1>1 DEF BuildClosure, IsRules

\* Extending rules with rules gives rules.
LEMMA ExtendTyped ==
  ASSUME NEW K, NEW B, IsRules(K), IsRules(B)
  PROVE  IsRules(Extend(K, B))
BY DEF IsRules, Extend

\* The second pass, against a sound map, marks exactly the fields whose
\* message type did not compile.
LEMMA ClosureFinal ==
  ASSUME NEW root, NEW K, Sound(K), NEW m \in Missing(root, DOMAIN K)
  PROVE  BuildClosure(Missing(root, DOMAIN K), K)[m] = Final(m)
<1> DEFINE M == Missing(root, DOMAIN K)
<1> DEFINE B == [n \in M |-> Compile(n)]
<1>1. ASSUME NEW f \in Fields, Compile(m).fields[f] = "ok", Nested(f) # NoType
      PROVE  Failed(Nested(f), K, B) <=> Nested(f) \in BrokenTypes
  <2>1. Owner[f] = m  BY <1>1, CompileTyped
  <2>2. Nested(f) \in Refs(m)  BY <2>1, <1>1 DEF Nested, Refs
  <2>3. Nested(f) \in DOMAIN K \cup M  BY <2>2, MissingClosed
  <2>4. CASE Nested(f) \in DOMAIN K  BY <2>4 DEF Failed, Sound
  <2>5. CASE Nested(f) \notin DOMAIN K
    <3>1. Nested(f) \in M  BY <2>3, <2>5
    <3>2. B[Nested(f)].ok <=> Nested(f) \notin BrokenTypes  BY <3>1, CompileTyped
    <3> QED  BY <3>1, <3>2, <2>5 DEF Failed
  <2> QED  BY <2>4, <2>5
<1>2. BuildClosure(M, K)[m] = Embed(B[m], K, B)  BY DEF BuildClosure
<1>3. B[m] = Compile(m)  OBVIOUS
<1> HIDE DEF B
<1>4. [f \in Fields |->
         IF Compile(m).fields[f] = "ok" /\ Nested(f) # NoType /\ Failed(Nested(f), K, B)
           THEN "embedded" ELSE Compile(m).fields[f]]
      = [f \in Fields |->
           IF Compile(m).fields[f] = "ok" /\ Nested(f) # NoType /\ Nested(f) \in BrokenTypes
             THEN "embedded" ELSE Compile(m).fields[f]]
  BY <1>1
<1> QED  BY <1>2, <1>3, <1>4 DEF Embed, Final

\* What a final entry says of its type and fields.
LEMMA FinalSound ==
  ASSUME NEW m
  PROVE  /\ Final(m).ok <=> m \notin BrokenTypes
         /\ \A f \in Fields :
              /\ Final(m).fields[f] \in {"ok", "embedded"} => Owner[f] = m
              /\ Final(m).fields[f] = "ok" => Nested(f) \notin BrokenTypes
              /\ Final(m).fields[f] = "embedded" => Nested(f) \in BrokenTypes
              /\ Final(m).fields[f] = "error" =>
                   f \in BrokenFields \/ ~(Extensions[f] \subseteq pool)
<1> DEFINE C == Compile(m)
<1> DEFINE F == [f \in Fields |->
         IF C.fields[f] = "ok" /\ Nested(f) # NoType /\ Nested(f) \in BrokenTypes
           THEN "embedded" ELSE C.fields[f]]
<1>1. C \in Built /\ (C.ok <=> m \notin BrokenTypes)  BY CompileTyped
<1>2. \A f \in Fields : /\ C.fields[f] \in {"none", "ok", "error"}
                        /\ C.fields[f] = "ok" => Owner[f] = m
  BY CompileTyped
<1>3. \A f \in Fields : C.fields[f] = "error" => f \in BrokenFields \/ ~(Extensions[f] \subseteq pool)
  BY DEF Compile, Compiles
<1>4. Final(m) = [C EXCEPT !.fields = F]  BY DEF Final
<1> HIDE DEF C
<1>5. Final(m).ok = C.ok /\ Final(m).fields = F  BY <1>1, <1>4 DEF Built
<1> QED  BY <1>1, <1>2, <1>3, <1>5, TypesAssumption DEF Nested

-----------------------------------------------------------------------------
(* The type invariant.                                                     *)

\* A call that returns leaves well-typed state.
LEMMA ReturnTyped ==
  ASSUME TypeOK, NEW t \in Threads, Return(t)
  PROVE  /\ pc' \in [Threads -> PCs]
         /\ known' = [i \in Threads |-> known'[i]] /\ \A i \in Threads : IsRules(known'[i])
         /\ types' \in [Threads -> SUBSET Types]
         /\ built' = [i \in Threads |-> built'[i]] /\ \A i \in Threads : IsRules(built'[i])
<1>1. IsRules(NoRules)  BY DEF IsRules, NoRules
<1> QED  BY <1>1 DEF TypeOK, Return, PCs

\* What a compilation has in hand is well typed.
LEMMA BuildTyped ==
  ASSUME TypeOK, NEW t \in Threads, Build(t)
  PROVE  /\ pc' \in [Threads -> PCs]
         /\ built' = [i \in Threads |-> built'[i]] /\ \A i \in Threads : IsRules(built'[i])
<1> DEFINE M == Missing(want[t], DOMAIN known[t])
<1> DEFINE B == BuildClosure(M, known[t])
<1>1. IsRules(B)  BY MissingTypes, ClosureTyped
<1>2. built' = [built EXCEPT ![t] = B] /\ pc' = [pc EXCEPT ![t] = "merge"]
  BY DEF Build
<1> HIDE DEF B
<1> QED  BY <1>1, <1>2 DEF TypeOK, PCs

\* So are the merged rules.
LEMMA MergeTyped ==
  ASSUME TypeOK, NEW t \in Threads, Merge(t)
  PROVE  TypeOK'
<1>1. IsRules(cache')  BY ExtendTyped DEF TypeOK, Merge
<1> QED  BY <1>1 DEF TypeOK, Merge, PCs

\* A walk stays at message types of the schema.
LEMMA DescendTyped ==
  ASSUME TypeOK, NEW t \in Threads, NEW f \in Fields, Descend(t, f)
  PROVE  TypeOK'
<1>1. Nested(f) \in Types  BY TypesAssumption DEF Descend, Nested
<1> QED  BY <1>1 DEF TypeOK, Descend, PCs

\* Every action keeps the types.
LEMMA TypeInductive == TypeOK /\ [Next]_vars => TypeOK'
<1> SUFFICES ASSUME TypeOK, [Next]_vars PROVE TypeOK'
  OBVIOUS
<1>1. ASSUME NEW g \in Files, Register(g)  PROVE TypeOK'
  BY <1>1 DEF TypeOK, Register
<1>2. ASSUME NEW t \in Threads, NEW m \in Types, Start(t, m)  PROVE TypeOK'
  BY <1>2 DEF TypeOK, Start, PCs
<1>3. ASSUME NEW t \in Threads, Snapshot(t)  PROVE TypeOK'
  BY <1>3 DEF TypeOK, Snapshot, PCs
<1>4. ASSUME NEW t \in Threads, Resolve(t)  PROVE TypeOK'
  <2>1. PICK m \in Unresolved(t) : types' = [types EXCEPT ![t] = types[t] \cup {m}]
    BY <1>4 DEF Resolve
  <2>2. m \in Types  BY MissingTypes, TypesAssumption DEF Unresolved, Resolved, Refs
  <2> QED  BY <1>4, <2>1, <2>2 DEF TypeOK, Resolve
<1>5. ASSUME NEW t \in Threads, ResolveFails(t)  PROVE TypeOK'
  BY <1>5, ReturnTyped DEF TypeOK, ResolveFails
<1>6. ASSUME NEW t \in Threads, Build(t)  PROVE TypeOK'
  BY <1>6, BuildTyped DEF TypeOK, Build
<1>7. ASSUME NEW t \in Threads, Merge(t)  PROVE TypeOK'
  BY <1>7, MergeTyped
<1>8. ASSUME NEW t \in Threads, NEW f \in Fields, Descend(t, f)  PROVE TypeOK'
  BY <1>8, DescendTyped
<1>9. ASSUME NEW t \in Threads, Finish(t)  PROVE TypeOK'
  BY <1>9, ReturnTyped DEF TypeOK, Finish
<1>10. CASE UNCHANGED vars  BY <1>10 DEF TypeOK, vars
<1> QED  BY <1>1, <1>2, <1>3, <1>4, <1>5, <1>6, <1>7, <1>8, <1>9, <1>10 DEF Next

-----------------------------------------------------------------------------
(* Merging.                                                                *)

\* What a merge may assume: whatever it replaces is what it replaces it by.
LEMMA MergeKeeps ==
  ASSUME TypeOK, CacheInv, NEW t \in Threads, Merge(t)
  PROVE  /\ DOMAIN cache' = DOMAIN cache \cup DOMAIN built[t]
         /\ \A m \in DOMAIN cache : cache'[m] = cache[m]
         /\ \A m \in DOMAIN built[t] : cache'[m] = Final(m)
<1>1. pc[t] = "merge" /\ cache' = Extend(cache, built[t])  BY DEF Merge
<1>2. DOMAIN built[t] = Missing(want[t], DOMAIN known[t])
      /\ \A m \in DOMAIN built[t] : built[t][m] = Final(m)
  BY <1>1 DEF CacheInv, Current
<1>3. \A m \in DOMAIN cache \ DOMAIN known[t] : cache[m] = Final(m)
  BY <1>1 DEF CacheInv, Current
<1>4. \A m \in DOMAIN built[t] : m \notin DOMAIN known[t]  BY <1>2, MissingTypes
<1>5. \A m \in DOMAIN built[t] \cap DOMAIN cache : cache[m] = built[t][m]
  BY <1>2, <1>3, <1>4
<1> QED  BY <1>1, <1>2, <1>5 DEF Extend

\* A merge leaves a sound cache, which has the type the call is about.
LEMMA MergeSound ==
  ASSUME TypeOK, CacheInv, NEW t \in Threads, Merge(t)
  PROVE  Sound(cache') /\ want[t] \in DOMAIN cache'
<1>1. DOMAIN built[t] = Missing(want[t], DOMAIN known[t]) /\ want[t] \notin DOMAIN known[t]
  BY DEF Merge, CacheInv, Current
<1>2. DOMAIN known[t] \subseteq DOMAIN cache  BY DEF CacheInv, Within
<1>3. want[t] \in DOMAIN cache'  BY <1>1, MissingRoot, MergeKeeps DEF TypeOK
<1>4. ASSUME NEW m \in DOMAIN built[t]
      PROVE  /\ cache'[m].ok <=> m \notin BrokenTypes
             /\ \A f \in Fields :
                  /\ cache'[m].fields[f] \in {"ok", "embedded"} => Owner[f] = m
                  /\ cache'[m].fields[f] = "ok" => Nested(f) \notin BrokenTypes
                  /\ cache'[m].fields[f] = "embedded" => Nested(f) \in BrokenTypes
             /\ Refs(m) \subseteq DOMAIN cache'
  <2>1. cache'[m] = Final(m)  BY MergeKeeps
  <2>2. Refs(m) \subseteq DOMAIN known[t] \cup DOMAIN built[t]
    BY <1>1, MissingClosed
  <2>3. Refs(m) \subseteq DOMAIN cache'  BY <2>2, <1>2, MergeKeeps
  <2> QED  BY <2>1, <2>3, FinalSound
<1>5. ASSUME NEW m \in DOMAIN cache
      PROVE  /\ cache'[m].ok <=> m \notin BrokenTypes
             /\ \A f \in Fields :
                  /\ cache'[m].fields[f] \in {"ok", "embedded"} => Owner[f] = m
                  /\ cache'[m].fields[f] = "ok" => Nested(f) \notin BrokenTypes
                  /\ cache'[m].fields[f] = "embedded" => Nested(f) \in BrokenTypes
             /\ Refs(m) \subseteq DOMAIN cache'
  <2>1. cache'[m] = cache[m]  BY MergeKeeps
  <2>2. Refs(m) \subseteq DOMAIN cache'  BY MergeKeeps DEF CacheInv, Sound
  <2> QED  BY <2>1, <2>2 DEF CacheInv, Sound
<1> QED  BY <1>3, <1>4, <1>5, MergeKeeps DEF Sound

-----------------------------------------------------------------------------
(* The cache's invariant.                                                  *)

\* A call that returns has nothing in hand.
LEMMA ReturnInv ==
  ASSUME TypeOK, CacheInv, NEW t \in Threads, Return(t), UNCHANGED <<pool, cache, want, at>>
  PROVE  CacheInv'
<1>1. Sound(NoRules) /\ Within(NoRules)  BY DEF Sound, Within, NoRules
<1>2. \A i \in Threads : \/ pc'[i] = "idle" /\ known'[i] = NoRules
                         \/ pc'[i] = pc[i] /\ known'[i] = known[i] /\ built'[i] = built[i]
  BY DEF Return, TypeOK
<1>3. ASSUME NEW m  PROVE Final(m)' = Final(m)
  BY DEF Final, Compile, Compiles
<1>4. ASSUME NEW i \in Threads  PROVE Sound(known'[i]) /\ Within(known[i])' /\ Current(i)'
  <2>1. CASE pc'[i] = "idle" /\ known'[i] = NoRules
    BY <2>1, <1>1 DEF Within, Current
  <2>2. CASE pc'[i] = pc[i] /\ known'[i] = known[i] /\ built'[i] = built[i]
    BY <2>2, <1>3 DEF CacheInv, Within, Current
  <2> QED  BY <1>2, <2>1, <2>2
<1>5. Opened'  BY <1>2 DEF CacheInv, Opened
<1>6. NotBegun'  BY <1>2 DEF CacheInv, NotBegun
<1> QED  BY <1>4, <1>5, <1>6 DEF CacheInv

\* A file is added only when no validation is under way.
LEMMA RegisterInv ==
  ASSUME TypeOK, CacheInv, NEW g \in Files, Register(g)
  PROVE  CacheInv'
<1>1. \A i \in Threads : Current(i)'  BY DEF Register, Current
<1>2. \A i \in Threads : Within(known[i])'  BY DEF CacheInv, Register, Within
<1>3. Opened'  BY DEF CacheInv, Register, Opened
<1>4. NotBegun'  BY DEF Register, NotBegun
<1> QED  BY <1>1, <1>2, <1>3, <1>4 DEF CacheInv, Register

\* A new validation finds its type and its imports registered.
LEMMA StartInv ==
  ASSUME TypeOK, CacheInv, NEW t \in Threads, NEW n \in Types, Start(t, n)
  PROVE  CacheInv'
<1>1. \A i \in Threads : \/ pc'[i] = "snapshot"
                         \/ pc'[i] = pc[i] /\ want'[i] = want[i]
  BY DEF Start, TypeOK
<1>2. ASSUME NEW m  PROVE Final(m)' = Final(m)
  BY DEF Final, Compile, Compiles, Start
<1>3. \A i \in Threads : Current(i)'  BY <1>1, <1>2 DEF CacheInv, Start, Current
<1>4. \A i \in Threads : Within(known[i])'  BY DEF CacheInv, Start, Within
<1>5. Opened'  BY DEF CacheInv, TypeOK, Start, Opened
<1>6. NotBegun'  BY <1>1 DEF CacheInv, Start, NotBegun
<1> QED  BY <1>3, <1>4, <1>5, <1>6 DEF CacheInv, Start

\* A snapshot of the cache is as closed and as faithful as the cache.
LEMMA SnapshotInv ==
  ASSUME TypeOK, CacheInv, NEW t \in Threads, Snapshot(t)
  PROVE  CacheInv'
<1>1. /\ known'[t] = cache /\ at'[t] = want[t]
      /\ pc'[t] = IF want[t] \in DOMAIN cache THEN "walk" ELSE "resolve"
  BY DEF Snapshot, TypeOK
<1>2. \A i \in Threads \ {t} :
        pc'[i] = pc[i] /\ known'[i] = known[i] /\ at'[i] = at[i]
  BY DEF Snapshot, TypeOK
<1>3. UNCHANGED <<pool, cache, want, types, built>> /\ pc[t] = "snapshot"  BY DEF Snapshot
<1>4. ASSUME NEW m  PROVE Final(m)' = Final(m)
  BY <1>3 DEF Final, Compile, Compiles
<1>5. ASSUME NEW i \in Threads  PROVE Sound(known'[i]) /\ Within(known[i])' /\ Current(i)'
  <2>1. CASE i = t
    <3>1. Sound(known'[t]) /\ Within(known[t])'  BY <1>1, <1>3 DEF CacheInv, Within
    <3>2. Current(t)'  BY <1>1, <1>3 DEF Current
    <3> QED  BY <2>1, <3>1, <3>2
  <2>2. CASE i # t
    BY <2>2, <1>2, <1>3, <1>4 DEF CacheInv, Within, Current
  <2> QED  BY <2>1, <2>2
<1>6. Opened'  BY <1>1, <1>2, <1>3 DEF CacheInv, Opened
<1>7. NotBegun'  BY <1>1, <1>2, <1>3 DEF CacheInv, NotBegun
<1> QED  BY <1>3, <1>5, <1>6, <1>7 DEF CacheInv

\* What build_closure makes of a snapshot satisfies the invariant of the
\* validation that keeps it.
LEMMA BuildInv ==
  ASSUME TypeOK, CacheInv, NEW t \in Threads, Build(t)
  PROVE  CacheInv'
<1> DEFINE M == Missing(want[t], DOMAIN known[t])
<1>1. UNCHANGED <<pool, cache, want, known, types, at>> /\ pc[t] = "resolve"  BY DEF Build
<1>2. pc'[t] = "merge" /\ built'[t] = BuildClosure(M, known[t])
  BY DEF Build, TypeOK
<1>3. \A i \in Threads \ {t} : pc'[i] = pc[i] /\ built'[i] = built[i]
  BY DEF Build, TypeOK
<1>4. ASSUME NEW m  PROVE Final(m)' = Final(m)
  BY <1>1 DEF Final, Compile, Compiles
<1>5. ASSUME NEW i \in Threads  PROVE Current(i)'
  <2>1. CASE i # t  BY <2>1, <1>1, <1>3, <1>4 DEF CacheInv, Current
  <2>2. CASE i = t
    <3>1. want[t] \notin DOMAIN known[t]
          /\ \A m \in DOMAIN cache \ DOMAIN known[t] : cache[m] = Final(m)
      BY <1>1 DEF CacheInv, Current
    <3>2. DOMAIN built'[t] = M  BY <1>2, ClosureTyped, MissingTypes
    <3>3. \A m \in M : built'[t][m] = Final(m)  BY <1>2, ClosureFinal DEF CacheInv
    <3> QED  BY <1>2, <2>2, <3>1, <3>2, <3>3, <1>1, <1>4 DEF Current
  <2> QED  BY <2>1, <2>2
<1>6. \A i \in Threads : Within(known[i])'  BY <1>1 DEF CacheInv, Within
<1>7. Opened'  BY <1>1, <1>2, <1>3 DEF CacheInv, Opened
<1>8. NotBegun'  BY <1>1, <1>2, <1>3 DEF CacheInv, NotBegun
<1> QED  BY <1>1, <1>5, <1>6, <1>7, <1>8 DEF CacheInv

\* Merging what was built into the cache of the moment keeps it closed.
LEMMA MergeInv ==
  ASSUME TypeOK, CacheInv, NEW t \in Threads, Merge(t)
  PROVE  CacheInv'
<1>1. /\ UNCHANGED <<pool, want, types, built, at>>
      /\ pc'[t] = "walk" /\ known'[t] = cache' /\ pc[t] = "merge"
      /\ \A i \in Threads \ {t} : pc'[i] = pc[i] /\ known'[i] = known[i]
  BY DEF Merge, TypeOK
<1>2. ASSUME NEW m  PROVE Final(m)' = Final(m)
  BY <1>1 DEF Final, Compile, Compiles
<1>3. ASSUME NEW i \in Threads  PROVE Sound(known'[i]) /\ Within(known[i])' /\ Current(i)'
  <2>1. CASE i = t  BY <2>1, <1>1, MergeSound DEF Within, Current
  <2>2. CASE i # t
    <3>1. known'[i] = known[i] /\ pc'[i] = pc[i]  BY <2>2, <1>1
    <3>2. Sound(known[i]) /\ Within(known[i]) /\ Current(i)  BY DEF CacheInv
    <3>3. Within(known[i])'  BY <3>1, <3>2, MergeKeeps DEF Within
    <3>4. ASSUME pc[i] \in {"resolve", "merge"}
          PROVE  \A m \in DOMAIN cache' \ DOMAIN known[i] : cache'[m] = Final(m)
      BY <3>4, <3>2, MergeKeeps DEF Current
    <3>5. Current(i)'  BY <3>1, <3>2, <3>4, <1>1, <1>2 DEF Current
    <3> QED  BY <3>1, <3>2, <3>3, <3>5
  <2> QED  BY <2>1, <2>2
<1>4. Opened'  BY <1>1 DEF CacheInv, Opened
<1>5. NotBegun'  BY <1>1 DEF CacheInv, NotBegun
<1> QED  BY <1>3, <1>4, <1>5, MergeSound DEF CacheInv

\* The walk goes from a type with compiled rules to one its map has.
LEMMA DescendInv ==
  ASSUME TypeOK, CacheInv, NEW t \in Threads, NEW f \in Fields, Descend(t, f)
  PROVE  CacheInv'
<1>1. UNCHANGED <<pool, cache, pc, want, known, types, built>> /\ pc[t] = "walk"
  BY DEF Descend
<1>2. ASSUME NEW m  PROVE Final(m)' = Final(m)
  BY <1>1 DEF Final, Compile, Compiles
<1>3. \A i \in Threads \ {t} : at'[i] = at[i]  BY DEF Descend, TypeOK
<1>4. \A i \in Threads : Within(known[i])' /\ Current(i)'
  BY <1>1, <1>2 DEF CacheInv, Within, Current
<1>5. Opened'  BY <1>1 DEF CacheInv, Opened
<1>6. NotBegun'  BY <1>1, <1>3 DEF CacheInv, NotBegun
<1> QED  BY <1>1, <1>4, <1>5, <1>6 DEF CacheInv

\* A step that leaves all but the resolved types alone.
LEMMA SameInv ==
  ASSUME CacheInv, UNCHANGED <<pool, cache, pc, want, known, built, at>>
  PROVE  CacheInv'
<1>1. ASSUME NEW m  PROVE Final(m)' = Final(m)
  BY DEF Final, Compile, Compiles
<1>2. \A i \in Threads : Within(known[i])' /\ Current(i)'
  BY <1>1 DEF CacheInv, Within, Current
<1>3. Opened' /\ NotBegun'  BY DEF CacheInv, Opened, NotBegun
<1> QED  BY <1>2, <1>3 DEF CacheInv

\* Every action keeps the invariant.
LEMMA CacheInductive == TypeOK /\ CacheInv /\ [Next]_vars => CacheInv'
<1> SUFFICES ASSUME TypeOK, CacheInv, [Next]_vars PROVE CacheInv'
  OBVIOUS
<1>1. ASSUME NEW g \in Files, Register(g)  PROVE CacheInv'
  BY <1>1, RegisterInv
<1>2. ASSUME NEW t \in Threads, NEW m \in Types, Start(t, m)  PROVE CacheInv'
  BY <1>2, StartInv
<1>3. ASSUME NEW t \in Threads, Snapshot(t)  PROVE CacheInv'
  BY <1>3, SnapshotInv
<1>4. ASSUME NEW t \in Threads, Resolve(t)  PROVE CacheInv'
  BY <1>4, SameInv DEF Resolve
<1>5. ASSUME NEW t \in Threads, ResolveFails(t)  PROVE CacheInv'
  BY <1>5, ReturnInv DEF ResolveFails
<1>6. ASSUME NEW t \in Threads, Build(t)  PROVE CacheInv'
  BY <1>6, BuildInv
<1>7. ASSUME NEW t \in Threads, Merge(t)  PROVE CacheInv'
  BY <1>7, MergeInv
<1>8. ASSUME NEW t \in Threads, NEW f \in Fields, Descend(t, f)  PROVE CacheInv'
  BY <1>8, DescendInv
<1>9. ASSUME NEW t \in Threads, Finish(t)  PROVE CacheInv'
  BY <1>9, ReturnInv DEF Finish
<1>10. CASE UNCHANGED vars  BY <1>10, SameInv DEF vars
<1> QED  BY <1>1, <1>2, <1>3, <1>4, <1>5, <1>6, <1>7, <1>8, <1>9, <1>10 DEF Next

-----------------------------------------------------------------------------
(* The theorems.                                                           *)

\* The empty cache satisfies the invariant.
LEMMA InitInv == Init => TypeOK /\ CacheInv
<1> SUFFICES ASSUME Init PROVE TypeOK /\ CacheInv
  OBVIOUS
<1>1. IsRules(NoRules) /\ Sound(NoRules) /\ Within(NoRules)
  BY DEF IsRules, NoRules, Sound, Within
<1>2. TypeOK  BY <1>1, TypesAssumption DEF Init, TypeOK, PCs
<1>3. Opened /\ NotBegun  BY PreregisteredAssumption DEF Init, Opened, NotBegun
<1>4. \A t \in Threads : Sound(known[t]) /\ Within(known[t]) /\ Current(t)
  BY <1>1 DEF Init, Within, Current
<1> QED  BY <1>1, <1>2, <1>3, <1>4 DEF CacheInv, Init

\* The invariant holds of every execution.
LEMMA Invariance == Spec => [](TypeOK /\ CacheInv)
<1>1. TypeOK /\ CacheInv /\ [Next]_vars => (TypeOK /\ CacheInv)'
  BY TypeInductive, CacheInductive
<1> QED  BY InitInv, <1>1, PTL DEF Spec

\* The cache, the snapshots and the compiled rules map message types to
\* validators throughout.
THEOREM TypeCorrect == Spec => []TypeOK
BY Invariance, PTL

\* A step of a validation keeps its walk inside the rules it has in hand.
LEMMA WalkInductive ==
  TypeOK /\ CacheInv /\ WalkFindsRules /\ [Next]_vars => WalkFindsRules'
<1> SUFFICES ASSUME TypeOK, CacheInv, WalkFindsRules, [Next]_vars PROVE WalkFindsRules'
  OBVIOUS
<1>1. ASSUME NEW t \in Threads, Snapshot(t)  PROVE WalkFindsRules'
  <2>1. /\ known'[t] = cache /\ at'[t] = want[t] /\ want' = want
        /\ pc'[t] = IF want[t] \in DOMAIN cache THEN "walk" ELSE "resolve"
    BY <1>1 DEF Snapshot, TypeOK
  <2>2. \A i \in Threads \ {t} :
          pc'[i] = pc[i] /\ known'[i] = known[i] /\ at'[i] = at[i]
    BY <1>1 DEF Snapshot, TypeOK
  <2> QED  BY <2>1, <2>2 DEF WalkFindsRules
<1>2. ASSUME NEW t \in Threads, Merge(t)  PROVE WalkFindsRules'
  <2>1. /\ known'[t] = cache' /\ pc[t] = "merge" /\ want' = want /\ at' = at
        /\ \A i \in Threads \ {t} : pc'[i] = pc[i] /\ known'[i] = known[i]
    BY <1>2 DEF Merge, TypeOK
  <2>2. at[t] = want[t] /\ want[t] \in DOMAIN cache'
    BY <1>2, <2>1, MergeSound DEF CacheInv, NotBegun
  <2> QED  BY <2>1, <2>2 DEF WalkFindsRules
<1>3. ASSUME NEW t \in Threads, NEW f \in Fields, Descend(t, f)  PROVE WalkFindsRules'
  <2>1. /\ UNCHANGED <<pc, want, known>> /\ pc[t] = "walk" /\ at[t] \in DOMAIN known[t]
        /\ known[t][at[t]].fields[f] = "ok" /\ Nested(f) # NoType
        /\ at'[t] = Nested(f) /\ \A i \in Threads \ {t} : at'[i] = at[i]
    BY <1>3 DEF Descend, TypeOK
  <2>2. Sound(known[t])  BY DEF CacheInv
  <2>3. Owner[f] = at[t] /\ Nested(f) \notin BrokenTypes /\ Refs(at[t]) \subseteq DOMAIN known[t]
    BY <2>1, <2>2 DEF Sound
  <2>4. Nested(f) \in Refs(at[t])  BY <2>1, <2>3 DEF Nested, Refs
  <2>5. Nested(f) \in DOMAIN known[t] /\ known[t][Nested(f)].ok
    BY <2>2, <2>3, <2>4 DEF Sound
  <2> QED  BY <2>1, <2>5 DEF WalkFindsRules
<1>4. ASSUME NEW t \in Threads, Return(t), UNCHANGED <<want, at>>  PROVE WalkFindsRules'
  <2>1. \A i \in Threads : pc'[i] = "idle" \/ (pc'[i] = pc[i] /\ known'[i] = known[i])
    BY <1>4 DEF Return, TypeOK
  <2> QED  BY <1>4, <2>1 DEF WalkFindsRules
<1>5. ASSUME NEW t \in Threads, NEW m \in Types, Start(t, m)  PROVE WalkFindsRules'
  <2>1. \A i \in Threads : pc'[i] = "snapshot" \/ (pc'[i] = pc[i] /\ want'[i] = want[i])
    BY <1>5 DEF Start, TypeOK
  <2> QED  BY <1>5, <2>1 DEF Start, WalkFindsRules
<1>6. ASSUME NEW t \in Threads, Build(t)  PROVE WalkFindsRules'
  <2>1. \A i \in Threads : pc'[i] = "merge" \/ pc'[i] = pc[i]
    BY <1>6 DEF Build, TypeOK
  <2> QED  BY <1>6, <2>1 DEF Build, WalkFindsRules
<1>7. ASSUME UNCHANGED <<pc, want, known, at>>  PROVE WalkFindsRules'
  BY <1>7 DEF WalkFindsRules
<1>8. ASSUME NEW t \in Threads, ResolveFails(t) \/ Finish(t)  PROVE WalkFindsRules'
  BY <1>4, <1>8 DEF ResolveFails, Finish
<1>9. ASSUME NEW g \in Files, Register(g)  PROVE WalkFindsRules'
  BY <1>7, <1>9 DEF Register
<1>10. ASSUME NEW t \in Threads, Resolve(t)  PROVE WalkFindsRules'
  BY <1>7, <1>10 DEF Resolve
<1>11. CASE UNCHANGED vars  BY <1>7, <1>11 DEF vars
<1> QED  BY <1>1, <1>2, <1>3, <1>5, <1>6, <1>8, <1>9, <1>10, <1>11 DEF Next

\* A walk always has the rules of the type it is at (the lookups of Walk and
\* of the map in hand, eval.rs 252-263, cannot miss), and none but the root's
\* can be an error.
THEOREM WalksFindRules == Spec => []WalkFindsRules
<1>1. Init => WalkFindsRules  BY DEF Init, WalkFindsRules
<1> QED  BY <1>1, Invariance, WalkInductive, PTL DEF Spec

\* Every type of a compilation is declared in a file of the pool: a file is
\* registered after its imports, and a field's message type is declared in
\* its own file or an import of it.
LEMMA MissingOpen ==
  ASSUME CacheInv, NEW m \in Types, FileOf[m] \in pool, NEW K,
         NEW n \in Missing(m, K)
  PROVE  n \in Types /\ FileOf[n] \in pool
<1> DEFINE S == {i \in Types : FileOf[i] \in pool}
<1>1. ASSUME NEW i \in S, NEW j \in Refs(i)  PROVE j \in S
  <2>1. PICK f \in Fields : Owner[f] = i /\ Value[f] = j /\ j # NoType
    BY DEF Refs
  <2>2. j \in Types /\ FileOf[j] \in {FileOf[i]} \cup Imports[FileOf[i]]
    BY <2>1, TypesAssumption, LinkAssumption
  <2>3. Imports[FileOf[i]] \subseteq pool  BY DEF CacheInv, Opened
  <2> QED  BY <2>2, <2>3
<1>2. m \in S  OBVIOUS
<1> HIDE DEF S
<1>3. S \in SUBSET Types  BY DEF S
<1>4. n \in S  BY <1>1, <1>2, <1>3, MissingLeast
<1> QED  BY <1>4 DEF S

\* The pool has whatever a file of it needs.
LEMMA PoolHasNeeded ==
  ASSUME TypeOK, CacheInv, NEW g \in pool
  PROVE  NeededBy(g) \subseteq pool
BY DEF TypeOK, CacheInv, Opened, NeededBy

\* An entry whose file is in the pool fails for no extension it may count on.
LEMMA FinalFinds ==
  ASSUME TypeOK, CacheInv, NEW m \in Types, FileOf[m] \in pool, NEW f \in Fields,
         Final(m).fields[f] = "error", f \notin BrokenFields
  PROVE  ~(Extensions[f] \subseteq NeededBy(FileOf[m]) \cup Preregistered)
<1>1. ~(Extensions[f] \subseteq pool)  BY FinalSound
<1>2. NeededBy(FileOf[m]) \cup Preregistered \subseteq pool
  BY PoolHasNeeded DEF CacheInv, Opened
<1> QED  BY <1>1, <1>2

\* Rules that use extensions of the files their message's file imports, or of
\* the files given up front, compile, whatever was validated before
\* (Validator.registry, lib.rs 98-103; register, lib.rs 318-355).
THEOREM ExtensionsAreFound == Spec => []ExtensionsFound
<1>1. Init => ExtensionsFound  BY DEF Init, ExtensionsFound, NoRules
<1>2. TypeOK /\ CacheInv /\ ExtensionsFound /\ [Next]_vars => ExtensionsFound'
  <2> SUFFICES ASSUME TypeOK, CacheInv, ExtensionsFound, [Next]_vars PROVE ExtensionsFound'
    OBVIOUS
  <2>1. ASSUME NEW t \in Threads, Merge(t)  PROVE ExtensionsFound'
    <3>1. ASSUME NEW m \in DOMAIN built[t]  PROVE m \in Types /\ FileOf[m] \in pool
      <4>1. FileOf[want[t]] \in pool /\ want[t] \in Types
        BY <2>1 DEF Merge, CacheInv, Opened, TypeOK
      <4>2. m \in Missing(want[t], DOMAIN known[t])
        BY <2>1 DEF Merge, CacheInv, Current
      <4> QED  BY <4>1, <4>2, MissingOpen
    <3>2. ASSUME NEW m \in DOMAIN cache', NEW f \in Fields, Owner[f] = m,
                 cache'[m].fields[f] = "error", f \notin BrokenFields
          PROVE  ~(Extensions[f] \subseteq NeededBy(FileOf[m]) \cup Preregistered)
      <4>1. CASE m \in DOMAIN built[t]
        BY <4>1, <2>1, <3>1, <3>2, MergeKeeps, FinalFinds
      <4>2. CASE m \in DOMAIN cache
        BY <4>2, <2>1, <3>2, MergeKeeps DEF ExtensionsFound
      <4> QED  BY <2>1, <4>1, <4>2, MergeKeeps
    <3> QED  BY <3>2 DEF ExtensionsFound
  <2>2. ASSUME cache' = cache  PROVE ExtensionsFound'
    BY <2>2 DEF ExtensionsFound
  <2>3. CASE UNCHANGED vars  BY <2>2, <2>3 DEF vars
  <2>4. CASE \E g \in Files : Register(g)  BY <2>2, <2>4 DEF Register
  <2>5. ASSUME NEW t \in Threads,
               \/ \E m \in Types : Start(t, m)
               \/ Snapshot(t) \/ Resolve(t) \/ ResolveFails(t) \/ Build(t)
               \/ \E f \in Fields : Descend(t, f)
               \/ Finish(t)
        PROVE ExtensionsFound'
    BY <2>2, <2>5 DEF Start, Snapshot, Resolve, ResolveFails, Build, Descend, Finish
  <2> QED  BY <2>1, <2>3, <2>4, <2>5 DEF Next
<1> QED  BY <1>1, <1>2, Invariance, PTL DEF Spec

-----------------------------------------------------------------------------
(* Refinement.                                                             *)

\* A sound cache is complete, and marks the failures its fields embed.
LEMMA SoundBook ==
  ASSUME NEW K, Sound(K)
  PROVE  Book!Complete(K) /\ Book!Marked(K)
<1>1. ASSUME NEW f \in Fields, Owner[f] \in DOMAIN K, Value[f] # NoType
      PROVE  Value[f] \in DOMAIN K
  BY <1>1 DEF Sound, Refs
<1>2. ASSUME NEW f \in Fields, Owner[f] \in DOMAIN K, Book!Nests(f) # NoType
      PROVE  IF K[Book!Nests(f)].ok THEN K[Owner[f]].fields[f] # "embedded"
                                    ELSE K[Owner[f]].fields[f] # "ok"
  <2>1. Book!Nests(f) = Nested(f) /\ Nested(f) = Value[f]
    BY <1>2 DEF Book!Nests, Nested
  <2>2. Nested(f) \in DOMAIN K  BY <1>1, <1>2, <2>1
  <2>3. K[Nested(f)].ok <=> Nested(f) \notin BrokenTypes  BY <2>2 DEF Sound
  <2>4. /\ K[Owner[f]].fields[f] = "ok" => Nested(f) \notin BrokenTypes
        /\ K[Owner[f]].fields[f] = "embedded" => Nested(f) \in BrokenTypes
    BY <1>2 DEF Sound
  <2> QED  BY <2>1, <2>3, <2>4
<1> QED  BY <1>1, <1>2 DEF Book!Complete, Book!Marked

\* Threads that compile at once, each from its own snapshot and without a
\* lock, write the cache as one writer would who adds sets of finished
\* entries and never changes one (Validator::validators, validator.rs
\* 178-204).
THEOREM CacheIsABook == Spec => BookSpec
<1>1. Init => Book!Init  BY DEF Init, Book!Init, NoRules
<1>2. TypeOK /\ CacheInv /\ TypeOK' /\ CacheInv' /\ [Next]_vars => [Book!Write]_cache
  <2> SUFFICES ASSUME TypeOK, CacheInv, TypeOK', CacheInv', [Next]_vars
               PROVE  Book!Write \/ cache' = cache
    OBVIOUS
  <2>1. ASSUME NEW t \in Threads, Merge(t)  PROVE Book!Write
    <3>1. /\ DOMAIN cache \subseteq DOMAIN cache'
          /\ \A m \in DOMAIN cache : cache'[m] = cache[m]
      BY <2>1, MergeKeeps
    <3>2. DOMAIN cache' \subseteq Types  BY DEF TypeOK, IsRules
    <3>3. Sound(cache')  BY DEF CacheInv
    <3>4. Book!Complete(cache') /\ Book!Marked(cache')  BY <3>3, SoundBook
    <3> QED  BY <3>1, <3>2, <3>4 DEF Book!Write
  <2>2. CASE UNCHANGED vars  BY <2>2 DEF vars
  <2>3. CASE \E g \in Files : Register(g)  BY <2>3 DEF Register
  <2>4. ASSUME NEW t \in Threads,
               \/ \E m \in Types : Start(t, m)
               \/ Snapshot(t) \/ Resolve(t) \/ ResolveFails(t) \/ Build(t)
               \/ \E f \in Fields : Descend(t, f)
               \/ Finish(t)
        PROVE cache' = cache
    BY <2>4 DEF Start, Snapshot, Resolve, ResolveFails, Build, Descend, Finish
  <2> QED  BY <2>1, <2>2, <2>3, <2>4 DEF Next
<1> QED  BY <1>1, <1>2, Invariance, PTL DEF Spec, BookSpec, Book!Spec
=============================================================================
