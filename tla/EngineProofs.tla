---------------------------- MODULE EngineProofs ----------------------------
(***************************************************************************)
(* Proofs about Engine, for every number of threads, every import graph    *)
(* and both interpreters.  Each part of the inductive invariant has a      *)
(* lemma of its own, with one step per action or group of actions that     *)
(* cannot disturb it.                                                      *)
(***************************************************************************)
EXTENDS Engine, SequenceTheorems, TLAPS

\* What a step can do to the locks.
LockStep(t) ==
  \/ lock' = lock
  \/ \E l \in LockNames : lock' = Taken(t, l, "read") \/ lock' = Taken(t, l, "write")
  \/ \E L \in SUBSET LockNames : lock' = Released(t, L)

\* What Taken and Released make of well-typed locks is well-typed.
LEMMA LockTypes ==
  ASSUME lock \in [LockNames -> LockState], NEW t \in Threads, LockStep(t)
  PROVE  lock' \in [LockNames -> LockState]
<1>1. \A L \in SUBSET LockNames : Released(t, L) \in [LockNames -> LockState]
  BY DEF Released, LockState
<1>2. \A l \in LockNames : /\ Taken(t, l, "read") \in [LockNames -> LockState]
                         /\ Taken(t, l, "write") \in [LockNames -> LockState]
  BY DEF Taken, LockState
<1> QED
  BY <1>1, <1>2 DEF LockStep

\* Taking a free lock to write leaves what the other threads hold as it is.
LEMMA TakenOthers ==
  ASSUME lock \in [LockNames -> LockState], NEW t \in Threads, NEW l \in LockNames,
         lock[l].writer = NoThread, lock' = Taken(t, l, "write")
  PROVE  \A u \in Threads \ {t}, m \in LockNames : Holds(u, m)' <=> Holds(u, m)
<1> TAKE u \in Threads \ {t}, m \in LockNames
<1>1. lock'[m].readers = lock[m].readers
  BY DEF Taken, LockState
<1>2. lock'[m].writer = lock[m].writer \/ (lock'[m].writer = t /\ lock[m].writer = NoThread)
  BY DEF Taken, LockState
<1> QED
  BY <1>1, <1>2, HostAssumption DEF Holds

\* The stack of collect_files: its top, and what a push and a pop keep.
LEMMA StackPop ==
  ASSUME NEW s \in Seq(Files), Len(s) > 0
  PROVE  /\ s[Len(s)] \in Files
         /\ SubSeq(s, 1, Len(s) - 1) \in Seq(Files)
         /\ Len(SubSeq(s, 1, Len(s) - 1)) = Len(s) - 1
         /\ Len(s) > 1 => SubSeq(s, 1, Len(s) - 1)[1] = s[1]
<1>1. Len(s) \in Nat /\ Len(s) - 1 \in 0 .. Len(s)
  OBVIOUS
<1>2. s \in [1 .. Len(s) -> Files]
  OBVIOUS
<1> QED
  BY <1>1, <1>2, SubSeqProperties

\* The program counters, listed.
LEMMA PCsListed ==
  /\ DOMAIN PyAcquire = {"lookup", "writeRegistered", "writeCore", "readCore"}
  /\ PCs = {"lookup", "writeRegistered", "writeCore", "readCore", "engine", "new",
            "collect", "index", "resolve", "walk", "idle", "once", "snapshot",
            "compile", "compiling", "merge", "merging", "frame", "framing"}
  BY DEF PCs, PyAcquire, PyPoints

\* How the stack of collect_files is typed when a file is pushed and popped.
LEMMA StackOne ==
  ASSUME NEW f \in Files
  PROVE  <<f>> \in Seq(Files) /\ Len(<<f>>) = 1 /\ <<f>>[1] = f
  OBVIOUS
LEMMA StackNone == <<>> \in Seq(Files)
  OBVIOUS
LEMMA StackEmptied ==
  ASSUME NEW s \in [Threads -> Seq(Files)], NEW t \in Threads
  PROVE  [s EXCEPT ![t] = <<>>] \in [Threads -> Seq(Files)]
  BY StackNone
LEMMA StackPush ==
  ASSUME NEW s \in Seq(Files), NEW f \in Files, Len(s) > 0
  PROVE  /\ Append(s, f) \in Seq(Files)
         /\ Len(Append(s, f)) > 0
         /\ Append(s, f)[1] = s[1]
  OBVIOUS

\* What a granted acquisition does to the locks: it takes one of the two
\* that are taken with the interpreter-aware variants, for t alone.
LEMMA GrantTakes ==
  ASSUME TypeOK, NEW t \in Threads, Grant(t)
  PROVE  /\ lock'["env"] = lock["env"] /\ lock'["cache"] = lock["cache"]
         /\ \A u \in Threads, l \in LockNames : Holds(u, l)' /\ u # t => Holds(u, l)
         /\ lock'["registered"].writer \in {lock["registered"].writer, t}
         /\ lock'["registered"].writer = t /\ lock["registered"].writer # t
              => pc[t] = "writeRegistered"
         /\ \A u \in lock'["registered"].readers :
              u \in lock["registered"].readers \/ (u = t /\ pc[t] = "lookup")
         /\ pc[t] \in {"lookup", "writeRegistered"} => lock'["core"] = lock["core"]
<1>1. pc[t] \in {"lookup", "writeRegistered", "writeCore", "readCore"}
  BY PCsListed DEF Grant
<1>2. CASE pc[t] = "lookup"
  <2>1. lock' = Taken(t, "registered", "read")
    BY <1>2 DEF Grant, PyAcquire
  <2> QED
    BY <1>2, <2>1, HostAssumption DEF TypeOK, Taken, LockNames, LockState, Holds
<1>3. CASE pc[t] = "writeRegistered"
  <2>1. lock' = Taken(t, "registered", "write")
    BY <1>3 DEF Grant, PyAcquire
  <2> QED
    BY <1>3, <2>1, HostAssumption DEF TypeOK, Taken, LockNames, LockState, Holds
<1>4. CASE pc[t] = "writeCore"
  <2>1. lock' = Taken(t, "core", "write")
    BY <1>4 DEF Grant, PyAcquire
  <2> QED
    BY <1>4, <2>1, HostAssumption DEF TypeOK, Taken, LockNames, LockState, Holds
<1>5. CASE pc[t] = "readCore"
  <2>1. lock' = Taken(t, "core", "read")
    BY <1>5 DEF Grant, PyAcquire
  <2> QED
    BY <1>5, <2>1, HostAssumption DEF TypeOK, Taken, LockNames, LockState, Holds
<1> QED
  BY <1>1, <1>2, <1>3, <1>4, <1>5

\* Every step keeps the types; CollectReturn needs the stack not empty.
LEMMA TypeInductive == TypeOK /\ Collecting /\ [Next]_vars => TypeOK'
<1> SUFFICES ASSUME TypeOK, Collecting, [Next]_vars PROVE TypeOK'
  OBVIOUS
<1> USE HostAssumption, FilesAssumption DEF TypeOK
<1> USE PCsListed DEF files, vars, At, AtPy, Goto, PyPoints, LockNames
<1>1. CASE UNCHANGED vars \/ StopTheWorld \/ RestartTheWorld
  BY <1>1 DEF StopTheWorld, RestartTheWorld
<1>2. ASSUME NEW t \in Threads, NEW f \in Files, Call(t, f)
      PROVE  TypeOK'
  BY <1>2 DEF Call, Modes
<1>3. ASSUME NEW t \in Threads, NEW f \in Files, Reenter(t, f)
      PROVE  TypeOK'
  BY <1>3 DEF Reenter, Modes
<1>4. ASSUME NEW t \in Threads, Attach(t) \/ Yield(t) \/ WalkFrame(t) \/ EngineWait(t)
                  \/ EngineWake(t) \/ NewDone(t) \/ Block(t) \/ Snapshot(t)
                  \/ Resolve(t)
      PROVE  TypeOK'
  BY <1>4 DEF Attach, Modes, Yield, WalkFrame, EngineWait, EngineWake,
     NewDone, Block, Snapshot, Resolve
<1>5. ASSUME NEW t \in Threads, NEW f \in Files, NewRegister(t, f)
      PROVE  TypeOK'
  BY <1>5 DEF NewRegister
<1>6. ASSUME NEW t \in Threads, EngineReady(t)
      PROVE  TypeOK'
  BY <1>6 DEF EngineReady
<1>7. ASSUME NEW t \in Threads, PyError(t)
      PROVE  TypeOK'
  <2>1. LockStep(t)
    BY <1>7 DEF PyError, Fail, LockStep, LockNames
  <2>2. lock' \in [LockNames -> LockState]
    BY LockTypes, <2>1
  <2>3. stack' \in [Threads -> Seq(Files)]
    BY <1>7 DEF PyError, Fail, Left
  <2>4. mode' \in [Threads -> Modes]
    BY <1>7 DEF PyError, Fail, Left, Modes
  <2> QED
    BY <1>7, <2>1, <2>2, <2>3, <2>4 DEF PyError, Fail, Left
<1>8. ASSUME NEW t \in Threads, Grant(t)
      PROVE  TypeOK'
  <2>1. \E p \in {"lookup", "writeRegistered", "writeCore", "readCore"} :
         lock' = Taken(t, PyAcquire[p].lock, PyAcquire[p].kind)
    BY <1>8, PCsListed DEF Grant
  <2>2. LockStep(t)
    BY <1>8, <2>1 DEF PyAcquire, LockStep, LockNames
  <2>3. lock' \in [LockNames -> LockState]
    BY LockTypes, <2>2
  <2> QED
    BY <1>8, <2>1, <2>2, <2>3 DEF Grant, Modes, PyAcquire, LockNames
<1>9. ASSUME NEW t \in Threads, Lookup(t)
      PROVE  TypeOK'
  <2>1. LockStep(t)
    BY <1>9 DEF Lookup, LockStep, LockNames
  <2>2. lock' \in [LockNames -> LockState]
    BY LockTypes, <2>1
  <2>3. stack' = stack \/ stack' = [stack EXCEPT ![t] = <<>>]
    BY <1>9 DEF Lookup
  <2>4. stack' \in [Threads -> Seq(Files)]
    <3>1. CASE stack' = stack
      BY <3>1
    <3>2. CASE stack' = [stack EXCEPT ![t] = <<>>]
      BY <3>2, StackEmptied
    <3> QED
      BY <2>3, <3>1, <3>2
  <2>5. \E p \in PCs : pc' = [pc EXCEPT ![t] = p]
    BY <1>9 DEF Lookup, AfterRegister
  <2>6. UNCHANGED <<once, files, cache, world, mode, want>>
    BY <1>9 DEF Lookup
  <2> QED
    BY <2>2, <2>4, <2>5, <2>6
<1>10. ASSUME NEW t \in Threads, WriteRegistered(t) \/ WriteCore(t) \/ ReadCore(t)
      PROVE  TypeOK'
  <2>1. LockStep(t)
    BY <1>10 DEF WriteRegistered, WriteCore, ReadCore, Acquire, PyAcquire,
       LockStep, LockNames
  <2>2. lock' \in [LockNames -> LockState]
    BY LockTypes, <2>1
  <2> QED
    BY <1>10, <2>1, <2>2 DEF WriteRegistered, Acquire, PyAcquire, LockNames,
       WriteCore, ReadCore
<1>11. ASSUME NEW t \in Threads, CollectKnown(t)
      PROVE  TypeOK'
  <2>1. Len(stack[t]) > 0
    BY <1>11 DEF CollectKnown, Collecting, RegisterPCs
  <2>2. LockStep(t)
    BY <1>11, <2>1 DEF CollectKnown, CollectReturn, LockStep, LockNames
  <2>3. lock' \in [LockNames -> LockState]
    BY LockTypes, <2>2
  <2>4. stack' \in [Threads -> Seq(Files)]
    BY <1>11, StackPop, <2>1 DEF CollectKnown, CollectReturn, AfterRegister,
       LockNames
  <2>5. \E p \in PCs : pc' = [pc EXCEPT ![t] = p]
    BY <1>11 DEF CollectKnown, CollectReturn, AfterRegister
  <2>6. UNCHANGED <<once, files, cache, world, mode, want>>
    BY <1>11 DEF CollectKnown
  <2> QED
    BY <2>3, <2>4, <2>5, <2>6
<1>12. ASSUME NEW t \in Threads, NEW f \in Files, CollectImport(t, f)
      PROVE  TypeOK'
  <2>1. Len(stack[t]) > 0
    BY <1>12 DEF CollectImport, Collecting, RegisterPCs
  <2>2. stack' \in [Threads -> Seq(Files)]
    BY <1>12, StackPush, <2>1 DEF CollectImport
  <2> QED
    BY <1>12, <2>1, <2>2 DEF CollectImport
<1>13. ASSUME NEW t \in Threads, CollectAdd(t)
      PROVE  TypeOK'
  <2>1. Len(stack[t]) > 0 /\ Top(t) \in Files
    BY <1>13, StackPop DEF CollectAdd, Top, Collecting, RegisterPCs
  <2>2. LockStep(t)
    BY <1>13, <2>1 DEF CollectAdd, Fail, LockStep, LockNames
  <2>3. lock' \in [LockNames -> LockState]
    BY LockTypes, <2>2
  <2>4. stack' = stack \/ stack' = [stack EXCEPT ![t] = <<>>]
    BY <1>13 DEF CollectAdd, Fail
  <2>5. stack' \in [Threads -> Seq(Files)]
    <3>1. CASE stack' = stack
      BY <3>1
    <3>2. CASE stack' = [stack EXCEPT ![t] = <<>>]
      BY <3>2, StackEmptied
    <3> QED
      BY <2>4, <3>1, <3>2
  <2>6. mode' \in [Threads -> Modes]
    BY <1>13 DEF CollectAdd, Fail, Left, Modes
  <2>7. pc' \in [Threads -> PCs] /\ once' \in {"empty", "ready"} \cup Threads
    BY <1>13 DEF CollectAdd, Fail
  <2>8. /\ pool' \subseteq Files /\ celPool' \subseteq Files
        /\ registered' \subseteq Files /\ registry' \subseteq Files
    BY <1>13, <2>1 DEF CollectAdd
  <2>9. UNCHANGED <<cache, world, want>>
    BY <1>13 DEF CollectAdd
  <2> QED
    BY <2>3, <2>5, <2>6, <2>7, <2>8, <2>9
<1>14. ASSUME NEW t \in Threads, CollectIndex(t)
      PROVE  TypeOK'
  <2>1. Len(stack[t]) > 0 /\ Top(t) \in Files
    BY <1>14, StackPop DEF CollectIndex, Top, Collecting, RegisterPCs
  <2>2. LockStep(t)
    BY <1>14, <2>1 DEF CollectIndex, CollectReturn, LockStep, LockNames
  <2>3. lock' \in [LockNames -> LockState]
    BY LockTypes, <2>2
  <2>4. stack' \in [Threads -> Seq(Files)]
    BY <1>14, StackPop, <2>1 DEF CollectIndex, CollectReturn, AfterRegister
  <2>5. \E p \in PCs : pc' = [pc EXCEPT ![t] = p]
    BY <1>14 DEF CollectIndex, CollectReturn, AfterRegister
  <2>6. registry' \subseteq Files /\ registered' \subseteq Files
    BY <1>14, <2>1 DEF CollectIndex
  <2>7. UNCHANGED <<once, pool, celPool, cache, world, mode, want>>
    BY <1>14 DEF CollectIndex
  <2> QED
    BY <2>3, <2>4, <2>5, <2>6, <2>7
<1>15. ASSUME NEW t \in Threads, Compile(t) \/ Compiled(t) \/ Merge(t) \/ Frame(t) \/ Framed(t)
      PROVE  TypeOK'
  <2>1. LockStep(t)
    BY <1>15 DEF Compile, Compiled, Merge, Frame, Framed, LockStep, LockNames
  <2>2. lock' \in [LockNames -> LockState]
    BY LockTypes, <2>1
  <2> QED
    BY <1>15, <2>1, <2>2 DEF Compile, LockNames, Compiled, Merge, Frame,
       Framed
<1>16. ASSUME NEW t \in Threads, Merged(t)
      PROVE  TypeOK'
  <2>1. LockStep(t)
    BY <1>16 DEF Merged, LockStep, LockNames
  <2>2. lock' \in [LockNames -> LockState]
    BY LockTypes, <2>1
  <2>3. cache' \subseteq Files
    BY <1>16 DEF Merged, Reach
  <2> QED
    BY <1>16, <2>1, <2>2, <2>3 DEF Merged, LockNames
<1>17. ASSUME NEW t \in Threads, WalkDone(t)
      PROVE  TypeOK'
  <2>1. LockStep(t)
    BY <1>17 DEF WalkDone, LockStep, LockNames
  <2>2. lock' \in [LockNames -> LockState]
    BY LockTypes, <2>1
  <2>3. mode' \in [Threads -> Modes]
    BY <1>17 DEF WalkDone, Left, Modes
  <2> QED
    BY <1>17, <2>1, <2>2, <2>3 DEF WalkDone, LockNames
<1> QED
  BY <1>1, <1>2, <1>3, <1>4, <1>5, <1>6, <1>7, <1>8, <1>9, <1>10, <1>11,
     <1>12, <1>13, <1>14, <1>15, <1>16, <1>17 DEF Next, Step

\* Only the thread that initialises the once cell works on the engine before
\* it is ready, and it alone empties or fills the cell.
LEMMA OwnedInductive == TypeOK /\ Owned /\ [Next]_vars => Owned'
<1> SUFFICES ASSUME TypeOK, Owned, [Next]_vars PROVE Owned'
  OBVIOUS
<1> USE DEF TypeOK, Owned, RegisterPCs, EvaluatePCs
<1> USE HostAssumption DEF vars, files, At, AtPy, Goto, PyPoints
<1>1. CASE UNCHANGED vars \/ StopTheWorld \/ RestartTheWorld
  BY <1>1 DEF StopTheWorld, RestartTheWorld
<1>2. ASSUME NEW t \in Threads, NEW f \in Files, Call(t, f)
      PROVE  Owned'
  BY <1>2 DEF Call
<1>3. ASSUME NEW t \in Threads, NEW f \in Files, Reenter(t, f)
      PROVE  Owned'
  BY <1>3 DEF Reenter
<1>4. ASSUME NEW t \in Threads, NEW f \in Files, Attach(t) \/ Yield(t) \/ WalkFrame(t)
       \/ Block(t) \/ Grant(t)
                  \/ Resolve(t) \/ WriteRegistered(t) \/ WriteCore(t)
                  \/ CollectImport(t, f)
      PROVE  Owned'
  BY <1>4 DEF Attach, Yield, WalkFrame, Block, Grant, Resolve,
     WriteRegistered, Acquire, WriteCore, CollectImport
<1>5. ASSUME NEW t \in Threads, PyError(t)
      PROVE  Owned'
  BY <1>5 DEF PyError, Fail
<1>6. ASSUME NEW t \in Threads, EngineReady(t) \/ EngineWait(t) \/ EngineWake(t)
      PROVE  Owned'
  BY <1>6 DEF EngineReady, EngineWait, EngineWake
<1>7. ASSUME NEW t \in Threads, NEW f \in Files, NewRegister(t, f) \/ NewDone(t)
      PROVE  Owned'
  BY <1>7 DEF NewRegister, NewDone
<1>8. ASSUME NEW t \in Threads, Lookup(t)
      PROVE  Owned'
  BY <1>8 DEF Lookup, AfterRegister
<1>9. ASSUME NEW t \in Threads, CollectKnown(t)
      PROVE  Owned'
  BY <1>9 DEF CollectKnown, CollectReturn, AfterRegister
<1>10. ASSUME NEW t \in Threads, CollectAdd(t)
      PROVE  Owned'
  BY <1>10 DEF CollectAdd, Fail
<1>11. ASSUME NEW t \in Threads, CollectIndex(t)
      PROVE  Owned'
  BY <1>11 DEF CollectIndex, CollectReturn, AfterRegister
<1>12. ASSUME NEW t \in Threads, ReadCore(t)
      PROVE  Owned'
  BY <1>12 DEF ReadCore, Acquire
<1>13. ASSUME NEW t \in Threads, Snapshot(t) \/ Compile(t) \/ Compiled(t) \/ Merge(t) \/ Merged(t)
                  \/ Frame(t) \/ Framed(t) \/ WalkDone(t)
      PROVE  Owned'
  BY <1>13 DEF Snapshot, Compile, Compiled, Merge, Merged, Frame, Framed,
     WalkDone
<1> QED
  BY <1>1, <1>2, <1>3, <1>4, <1>5, <1>6, <1>7, <1>8, <1>9, <1>10, <1>11,
     <1>12, <1>13 DEF Next, Step

\* Registration keeps the file the call wants at the bottom of the stack, and a
\* file is indexed in the Registry only after its imports are registered.
LEMMA CollectingInductive == TypeOK /\ Owned /\ Collecting /\ [Next]_vars => Collecting'
<1> SUFFICES ASSUME TypeOK, Owned, Collecting, [Next]_vars PROVE Collecting'
  OBVIOUS
<1> USE DEF TypeOK, Owned, Collecting, RegisterPCs, EvaluatePCs, Top
<1> USE HostAssumption DEF vars, files, At, AtPy, Goto, PyPoints
<1>1. CASE UNCHANGED vars \/ StopTheWorld \/ RestartTheWorld
  BY <1>1 DEF StopTheWorld, RestartTheWorld
<1>2. ASSUME NEW t \in Threads, NEW f \in Files, Call(t, f)
      PROVE  Collecting'
  BY <1>2 DEF Call
<1>3. ASSUME NEW t \in Threads, NEW f \in Files, Reenter(t, f)
      PROVE  Collecting'
  BY <1>3 DEF Reenter
<1>4. ASSUME NEW t \in Threads, Attach(t) \/ Yield(t) \/ WalkFrame(t) \/ Block(t) \/ Grant(t)
                  \/ Resolve(t)
      PROVE  Collecting'
  BY <1>4 DEF Attach, Yield, WalkFrame, Block, Grant, Resolve
<1>5. ASSUME NEW t \in Threads, WriteRegistered(t) \/ WriteCore(t)
      PROVE  Collecting'
  BY <1>5 DEF WriteRegistered, Acquire, WriteCore
<1>6. ASSUME NEW t \in Threads, PyError(t)
      PROVE  Collecting'
  BY <1>6 DEF PyError, Fail
<1>7. ASSUME NEW t \in Threads, EngineReady(t)
      PROVE  Collecting'
  BY <1>7 DEF EngineReady
<1>8. ASSUME NEW t \in Threads, EngineWait(t) \/ EngineWake(t)
      PROVE  Collecting'
  BY <1>8 DEF EngineWait, EngineWake
<1>9. ASSUME NEW t \in Threads, NEW f \in Files, NewRegister(t, f)
      PROVE  Collecting'
  BY <1>9 DEF NewRegister
<1>10. ASSUME NEW t \in Threads, NewDone(t)
      PROVE  Collecting'
  BY <1>10 DEF NewDone
<1>11. ASSUME NEW t \in Threads, Lookup(t)
      PROVE  Collecting'
  BY <1>11 DEF Lookup, AfterRegister
<1>12. ASSUME NEW t \in Threads, CollectKnown(t)
      PROVE  Collecting'
  <2>1. Len(stack[t]) > 0
    BY <1>12 DEF CollectKnown
  <2>2. IF Len(stack[t]) = 1 THEN pc'[t] \in {"new", "readCore"}
         ELSE pc'[t] = "collect" /\ stack'[t] = SubSeq(stack[t], 1, Len(stack[t]) - 1)
    BY <1>12 DEF CollectKnown, CollectReturn, AfterRegister
  <2>3. pc'[t] \in RegisterPCs => Len(stack'[t]) > 0 /\ stack'[t][1] = stack[t][1]
    BY <1>12, StackPop, <2>1, <2>2 DEF StackPop
  <2> QED
    BY <1>12, <2>1, <2>2, <2>3 DEF CollectKnown, CollectReturn, AfterRegister
<1>13. ASSUME NEW t \in Threads, NEW f \in Files, CollectImport(t, f)
      PROVE  Collecting'
  BY <1>13 DEF CollectImport
<1>14. ASSUME NEW t \in Threads, CollectAdd(t)
      PROVE  Collecting'
  BY <1>14 DEF CollectAdd, Fail
<1>15. ASSUME NEW t \in Threads, CollectIndex(t)
      PROVE  Collecting'
  <2>1. Len(stack[t]) > 0
    BY <1>15 DEF CollectIndex
  <2>2. IF Len(stack[t]) = 1 THEN pc'[t] \in {"new", "readCore"}
         ELSE pc'[t] = "collect" /\ stack'[t] = SubSeq(stack[t], 1, Len(stack[t]) - 1)
    BY <1>15 DEF CollectIndex, CollectReturn, AfterRegister
  <2>3. pc'[t] \in RegisterPCs => Len(stack'[t]) > 0 /\ stack'[t][1] = stack[t][1]
    BY <1>15, StackPop, <2>1, <2>2 DEF StackPop
  <2> QED
    BY <1>15, <2>1, <2>2, <2>3 DEF CollectIndex, CollectReturn, AfterRegister
<1>16. ASSUME NEW t \in Threads, ReadCore(t) \/ Snapshot(t) \/ Compile(t) \/ Compiled(t)
                  \/ Merge(t) \/ Merged(t) \/ Frame(t) \/ Framed(t) \/ WalkDone(t)
      PROVE  Collecting'
  BY <1>16 DEF ReadCore, Acquire, Snapshot, Compile, Compiled, Merge, Merged,
     Frame, Framed, WalkDone
<1> QED
  BY <1>1, <1>2, <1>3, <1>4, <1>5, <1>6, <1>7, <1>8, <1>9, <1>10, <1>11,
     <1>12, <1>13, <1>14, <1>15, <1>16 DEF Next, Step

\* No step of collect_files, failing or not, records a file before its imports
\* or before both pools have it.
LEMMA RegistrationLinkedInductive ==
  TypeOK /\ Collecting /\ RegistrationLinked /\ [Next]_vars => RegistrationLinked'
<1> SUFFICES ASSUME TypeOK, Collecting, RegistrationLinked, [Next]_vars PROVE RegistrationLinked'
  OBVIOUS
<1> USE FilesAssumption DEF TypeOK, RegistrationLinked, Linked, Collecting
<1> USE HostAssumption DEF vars, files, At, AtPy, Goto, PyPoints
<1>1. CASE UNCHANGED vars \/ StopTheWorld \/ RestartTheWorld
  BY <1>1 DEF StopTheWorld, RestartTheWorld
<1>2. ASSUME NEW t \in Threads, NEW f \in Files, Call(t, f) \/ Reenter(t, f)
       \/ Attach(t) \/ Yield(t)
                  \/ WalkFrame(t) \/ EngineReady(t) \/ EngineWait(t) \/ EngineWake(t)
                  \/ NewRegister(t, f) \/ NewDone(t) \/ Block(t) \/ Grant(t)
                  \/ Lookup(t) \/ WriteRegistered(t) \/ WriteCore(t) \/ CollectKnown(t)
                  \/ CollectImport(t, f) \/ ReadCore(t) \/ Snapshot(t) \/ Resolve(t)
                  \/ Compile(t) \/ Compiled(t) \/ Merge(t) \/ Merged(t) \/ Frame(t)
                  \/ Framed(t) \/ WalkDone(t)
      PROVE  RegistrationLinked'
  BY <1>2 DEF Call, Reenter, Attach, Yield, WalkFrame, EngineReady,
     EngineWait, EngineWake, NewRegister, NewDone, Block, Grant, Lookup,
     AfterRegister, WriteRegistered, Acquire, WriteCore, CollectKnown,
     CollectReturn, CollectImport, ReadCore, Snapshot, Resolve, Compile,
     Compiled, Merge, Merged, Frame, Framed, WalkDone
<1>3. ASSUME NEW t \in Threads, PyError(t)
      PROVE  RegistrationLinked'
  BY <1>3 DEF PyError, Fail
<1>4. ASSUME NEW t \in Threads, CollectAdd(t)
      PROVE  RegistrationLinked'
  <2>1. Linked(pool)' /\ pool' \subseteq pool \cup {Top(t)}
    BY <1>4 DEF CollectAdd, Fail
  <2>2. registered' = {} \/ (registered' = registered /\ pool \subseteq pool' /\ celPool \subseteq celPool')
    BY <1>4 DEF CollectAdd, Fail
  <2> QED
    BY <1>4, <2>1, <2>2 DEF CollectAdd, Fail
<1>5. ASSUME NEW t \in Threads, CollectIndex(t)
      PROVE  RegistrationLinked'
  BY <1>5 DEF CollectIndex, CollectReturn, AfterRegister
<1> QED
  BY <1>1, <1>2, <1>3, <1>4, <1>5 DEF Next, Step

\* The core lock follows the pc: collect_files runs under the write guard, an
\* evaluation under a read guard, and a writer is alone.
LEMMA CoreGuardedInductive == TypeOK /\ CoreGuarded /\ [Next]_vars => CoreGuarded'
<1> SUFFICES ASSUME TypeOK, CoreGuarded, [Next]_vars PROVE CoreGuarded'
  OBVIOUS
<1> USE DEF TypeOK, CoreGuarded, EvaluatePCs, LockNames, Released, Taken, Holds, Free, LockState
<1> USE HostAssumption DEF vars, files, At, AtPy, Goto, PyPoints
<1>1. CASE UNCHANGED vars \/ StopTheWorld \/ RestartTheWorld
  BY <1>1 DEF StopTheWorld, RestartTheWorld
<1>2. ASSUME NEW t \in Threads, NEW f \in Files, Call(t, f)
      PROVE  CoreGuarded'
  BY <1>2 DEF Call
<1>3. ASSUME NEW t \in Threads, NEW f \in Files, Reenter(t, f)
      PROVE  CoreGuarded'
  BY <1>3 DEF Reenter
<1>4. ASSUME NEW t \in Threads, Attach(t) \/ Yield(t) \/ WalkFrame(t) \/ Resolve(t)
      PROVE  CoreGuarded'
  <2>1. CASE Attach(t)
    BY <2>1 DEF Attach
  <2>2. CASE Yield(t)
    BY <2>2 DEF Yield
  <2>3. CASE WalkFrame(t)
    BY <2>3 DEF WalkFrame
  <2>4. CASE Resolve(t)
    BY <2>4 DEF Resolve
  <2> QED
    BY <1>4, <2>1, <2>2, <2>3, <2>4
<1>5. ASSUME NEW t \in Threads, Block(t)
      PROVE  CoreGuarded'
  BY <1>5 DEF Block, PyAcquire
<1>6. ASSUME NEW t \in Threads, Grant(t)
      PROVE  CoreGuarded'
  <2>1. pc[t] \in {"lookup", "writeRegistered", "writeCore", "readCore"}
    BY <1>6, PCsListed DEF Grant
  <2>2. pc[t] = "writeCore" => /\ lock["core"].readers = {} /\ lock["core"].writer = NoThread
                                /\ lock'["core"].readers = {} /\ lock'["core"].writer = t
    BY <1>6 DEF Grant, PyAcquire
  <2>3. pc[t] = "readCore" => /\ lock["core"].writer = NoThread
                               /\ lock'["core"].readers = lock["core"].readers \cup {t}
                               /\ lock'["core"].writer = NoThread
    BY <1>6 DEF Grant, PyAcquire
  <2>4. pc[t] \in {"lookup", "writeRegistered"} => lock'["core"] = lock["core"]
    BY <1>6, GrantTakes
  <2>5. pc' = pc
    BY <1>6 DEF Grant
  <2> QED
    BY <2>1, <2>2, <2>3, <2>4, <2>5
<1>7. ASSUME NEW t \in Threads, PyError(t)
      PROVE  CoreGuarded'
  BY <1>7 DEF PyError, Fail
<1>8. ASSUME NEW t \in Threads, EngineReady(t)
      PROVE  CoreGuarded'
  BY <1>8 DEF EngineReady
<1>9. ASSUME NEW t \in Threads, EngineWait(t)
      PROVE  CoreGuarded'
  BY <1>9 DEF EngineWait
<1>10. ASSUME NEW t \in Threads, EngineWake(t)
      PROVE  CoreGuarded'
  BY <1>10 DEF EngineWake
<1>11. ASSUME NEW t \in Threads, NEW f \in Files, NewRegister(t, f)
      PROVE  CoreGuarded'
  BY <1>11 DEF NewRegister
<1>12. ASSUME NEW t \in Threads, NewDone(t)
      PROVE  CoreGuarded'
  BY <1>12 DEF NewDone
<1>13. ASSUME NEW t \in Threads, Lookup(t)
      PROVE  CoreGuarded'
  <2>1. lock'["core"] = lock["core"]
    BY <1>13 DEF Lookup, AfterRegister
  <2>2. pc' = [pc EXCEPT ![t] = "writeRegistered"] \/ pc' = [pc EXCEPT ![t] = "new"]
       \/ pc' = [pc EXCEPT ![t] = "readCore"]
    BY <1>13 DEF Lookup, AfterRegister
  <2> QED
    BY <1>13, <2>1, <2>2 DEF Lookup, AfterRegister
<1>14. ASSUME NEW t \in Threads, WriteRegistered(t)
      PROVE  CoreGuarded'
  BY <1>14 DEF WriteRegistered, Acquire, PyAcquire
<1>15. ASSUME NEW t \in Threads, WriteCore(t)
      PROVE  CoreGuarded'
  BY <1>15 DEF WriteCore, Acquire, PyAcquire
<1>16. ASSUME NEW t \in Threads, CollectKnown(t)
      PROVE  CoreGuarded'
  BY <1>16 DEF CollectKnown, CollectReturn, AfterRegister
<1>17. ASSUME NEW t \in Threads, NEW f \in Files, CollectImport(t, f)
      PROVE  CoreGuarded'
  BY <1>17 DEF CollectImport
<1>18. ASSUME NEW t \in Threads, CollectAdd(t)
      PROVE  CoreGuarded'
  BY <1>18 DEF CollectAdd, Fail
<1>19. ASSUME NEW t \in Threads, CollectIndex(t)
      PROVE  CoreGuarded'
  <2>1. IF Len(stack[t]) = 1 THEN lock' = Released(t, {"registered", "core"}) /\ pc'[t] \in {"new", "readCore"}
         ELSE UNCHANGED lock /\ pc'[t] = "collect"
    BY <1>19 DEF CollectIndex, CollectReturn, AfterRegister
  <2>2. \A u \in Threads : u # t => pc'[u] = pc[u]
    BY <1>19 DEF CollectIndex, CollectReturn
  <2>3. lock'["core"] = lock["core"] \/ lock'["core"] = [readers |-> lock["core"].readers \ {t}, writer |-> NoThread]
    BY <1>19, <2>1 DEF CollectIndex
  <2> QED
    BY <1>19, <2>1, <2>2, <2>3 DEF CollectIndex, CollectReturn, AfterRegister
<1>20. ASSUME NEW t \in Threads, ReadCore(t)
      PROVE  CoreGuarded'
  BY <1>20 DEF ReadCore, Acquire, PyAcquire
<1>21. ASSUME NEW t \in Threads, Snapshot(t)
      PROVE  CoreGuarded'
  BY <1>21 DEF Snapshot
<1>22. ASSUME NEW t \in Threads, Compile(t) \/ Compiled(t) \/ Merge(t)
      PROVE  CoreGuarded'
  <2>1. lock'["core"] = lock["core"]
    BY <1>22 DEF Compile, Compiled, Merge
  <2>2. CASE Compile(t)
    BY <2>1, <2>2 DEF Compile
  <2>3. CASE Compiled(t)
    BY <2>1, <2>3 DEF Compiled
  <2>4. CASE Merge(t)
    BY <2>1, <2>4 DEF Merge
  <2> QED
    BY <1>22, <2>2, <2>3, <2>4
<1>23. ASSUME NEW t \in Threads, Merged(t) \/ Frame(t) \/ Framed(t)
      PROVE  CoreGuarded'
  <2>1. lock'["core"] = lock["core"]
    BY <1>23 DEF Merged, Frame, Framed
  <2>2. CASE Merged(t)
    BY <2>1, <2>2 DEF Merged
  <2>3. CASE Frame(t)
    BY <2>1, <2>3 DEF Frame
  <2>4. CASE Framed(t)
    BY <2>1, <2>4 DEF Framed
  <2> QED
    BY <1>23, <2>2, <2>3, <2>4
<1>24. ASSUME NEW t \in Threads, WalkDone(t)
      PROVE  CoreGuarded'
  BY <1>24 DEF WalkDone
<1> QED
  BY <1>1, <1>2, <1>3, <1>4, <1>5, <1>6, <1>7, <1>8, <1>9, <1>10, <1>11,
     <1>12, <1>13, <1>14, <1>15, <1>16, <1>17, <1>18, <1>19, <1>20, <1>21,
     <1>22, <1>23, <1>24 DEF Next, Step

\* Once a call is past register, its file stays registered.
LEMMA WantedInductive == TypeOK /\ Owned /\ Collecting /\ Wanted /\ [Next]_vars => Wanted'
<1> SUFFICES ASSUME TypeOK, Owned, Collecting, Wanted, [Next]_vars PROVE Wanted'
  OBVIOUS
<1> USE DEF TypeOK, Owned, Collecting, Wanted, RegisterPCs, EvaluatePCs, Top
<1> USE HostAssumption DEF vars, files, At, AtPy, Goto, PyPoints
<1>1. CASE UNCHANGED vars \/ StopTheWorld \/ RestartTheWorld
  BY <1>1 DEF StopTheWorld, RestartTheWorld
<1>2. ASSUME NEW t \in Threads, NEW f \in Files, Call(t, f)
      PROVE  Wanted'
  BY <1>2 DEF Call
<1>3. ASSUME NEW t \in Threads, NEW f \in Files, Reenter(t, f)
      PROVE  Wanted'
  BY <1>3 DEF Reenter
<1>4. ASSUME NEW t \in Threads, Attach(t) \/ Yield(t) \/ WalkFrame(t) \/ Resolve(t) \/ Block(t)
                  \/ Grant(t)
      PROVE  Wanted'
  BY <1>4 DEF Attach, Yield, WalkFrame, Resolve, Block, Grant
<1>5. ASSUME NEW t \in Threads, PyError(t)
      PROVE  Wanted'
  BY <1>5 DEF PyError, Fail
<1>6. ASSUME NEW t \in Threads, NEW f \in Files, EngineReady(t) \/ EngineWait(t) \/ EngineWake(t)
                  \/ NewRegister(t, f)
      PROVE  Wanted'
  BY <1>6 DEF EngineReady, EngineWait, EngineWake, NewRegister
<1>7. ASSUME NEW t \in Threads, NewDone(t)
      PROVE  Wanted'
  BY <1>7 DEF NewDone
<1>8. ASSUME NEW t \in Threads, Lookup(t)
      PROVE  Wanted'
  BY <1>8 DEF Lookup, AfterRegister
<1>9. ASSUME NEW t \in Threads, WriteRegistered(t) \/ WriteCore(t)
      PROVE  Wanted'
  BY <1>9 DEF WriteRegistered, Acquire, WriteCore
<1>10. ASSUME NEW t \in Threads, CollectKnown(t)
      PROVE  Wanted'
  BY <1>10 DEF CollectKnown, CollectReturn, AfterRegister
<1>11. ASSUME NEW t \in Threads, NEW f \in Files, CollectImport(t, f)
      PROVE  Wanted'
  BY <1>11 DEF CollectImport
<1>12. ASSUME NEW t \in Threads, CollectAdd(t)
      PROVE  Wanted'
  BY <1>12 DEF CollectAdd, Fail
<1>13. ASSUME NEW t \in Threads, CollectIndex(t)
      PROVE  Wanted'
  BY <1>13 DEF CollectIndex, CollectReturn, AfterRegister
<1>14. ASSUME NEW t \in Threads, ReadCore(t)
      PROVE  Wanted'
  BY <1>14 DEF ReadCore, Acquire
<1>15. ASSUME NEW t \in Threads, Snapshot(t) \/ Compile(t) \/ Compiled(t) \/ Merge(t) \/ Merged(t)
                  \/ Frame(t) \/ Framed(t) \/ WalkDone(t)
      PROVE  Wanted'
  BY <1>15 DEF Snapshot, Compile, Compiled, Merge, Merged, Frame, Framed,
     WalkDone
<1> QED
  BY <1>1, <1>2, <1>3, <1>4, <1>5, <1>6, <1>7, <1>8, <1>9, <1>10, <1>11,
     <1>12, <1>13, <1>14, <1>15 DEF Next, Step

\* The plain locks are held by threads attached to the interpreter, which no
\* Python code runs on meanwhile.
LEMMA PlainGuardedInductive == TypeOK /\ PlainGuarded /\ [Next]_vars => PlainGuarded'
<1> SUFFICES ASSUME TypeOK, PlainGuarded, [Next]_vars PROVE PlainGuarded'
  OBVIOUS
<1> USE DEF TypeOK, PlainGuarded, Attached, CanAttach, LockNames, Released, Taken, Holds,
       Free, LockState
<1> USE HostAssumption DEF vars, files, At, AtPy, Goto, PyPoints
<1>1. CASE UNCHANGED vars \/ StopTheWorld \/ RestartTheWorld
  BY <1>1 DEF StopTheWorld, RestartTheWorld
<1>2. ASSUME NEW t \in Threads, NEW f \in Files, Call(t, f)
      PROVE  PlainGuarded'
  BY <1>2 DEF Call
<1>3. ASSUME NEW t \in Threads, NEW f \in Files, Reenter(t, f)
      PROVE  PlainGuarded'
  BY <1>3 DEF Reenter
<1>4. ASSUME NEW t \in Threads, Attach(t)
      PROVE  PlainGuarded'
  BY <1>4 DEF Attach
<1>5. ASSUME NEW t \in Threads, Yield(t)
      PROVE  PlainGuarded'
  BY <1>5 DEF Yield
<1>6. ASSUME NEW t \in Threads, WalkFrame(t) \/ Resolve(t)
      PROVE  PlainGuarded'
  BY <1>6 DEF WalkFrame, Resolve
<1>7. ASSUME NEW t \in Threads, Block(t)
      PROVE  PlainGuarded'
  BY <1>7 DEF Block, PyAcquire
<1>8. ASSUME NEW t \in Threads, Grant(t)
      PROVE  PlainGuarded'
  <2>1. lock'["env"] = lock["env"] /\ lock'["cache"] = lock["cache"]
    BY <1>8, GrantTakes
  <2>2. pc' = pc /\ mode[t] = "blocked" /\ mode' = [mode EXCEPT ![t] = "ready"]
    BY <1>8 DEF Grant
  <2> QED
    BY <2>1, <2>2
<1>9. ASSUME NEW t \in Threads, PyError(t)
      PROVE  PlainGuarded'
  BY <1>9 DEF PyError, Fail, Left
<1>10. ASSUME NEW t \in Threads, EngineReady(t)
      PROVE  PlainGuarded'
  BY <1>10 DEF EngineReady
<1>11. ASSUME NEW t \in Threads, EngineWait(t)
      PROVE  PlainGuarded'
  BY <1>11 DEF EngineWait
<1>12. ASSUME NEW t \in Threads, EngineWake(t)
      PROVE  PlainGuarded'
  BY <1>12 DEF EngineWake
<1>13. ASSUME NEW t \in Threads, NEW f \in Files, NewRegister(t, f)
      PROVE  PlainGuarded'
  BY <1>13 DEF NewRegister
<1>14. ASSUME NEW t \in Threads, NewDone(t)
      PROVE  PlainGuarded'
  BY <1>14 DEF NewDone
<1>15. ASSUME NEW t \in Threads, Lookup(t)
      PROVE  PlainGuarded'
  BY <1>15 DEF Lookup, AfterRegister
<1>16. ASSUME NEW t \in Threads, WriteRegistered(t)
      PROVE  PlainGuarded'
  <2>1. lock'["env"] = lock["env"] /\ lock'["cache"] = lock["cache"]
    BY <1>16, PCsListed DEF WriteRegistered, Acquire, PyAcquire
  <2> QED
    BY <1>16, <2>1 DEF WriteRegistered, Acquire, PyAcquire
<1>17. ASSUME NEW t \in Threads, WriteCore(t)
      PROVE  PlainGuarded'
  <2>1. lock'["env"] = lock["env"] /\ lock'["cache"] = lock["cache"]
    BY <1>17, PCsListed DEF WriteCore, Acquire, PyAcquire
  <2> QED
    BY <1>17, <2>1 DEF WriteCore, Acquire, PyAcquire
<1>18. ASSUME NEW t \in Threads, ReadCore(t)
      PROVE  PlainGuarded'
  <2>1. lock'["env"] = lock["env"] /\ lock'["cache"] = lock["cache"]
    BY <1>18, PCsListed DEF ReadCore, Acquire, PyAcquire
  <2> QED
    BY <1>18, <2>1 DEF ReadCore, Acquire, PyAcquire
<1>19. ASSUME NEW t \in Threads, CollectKnown(t)
      PROVE  PlainGuarded'
  BY <1>19 DEF CollectKnown, CollectReturn, AfterRegister
<1>20. ASSUME NEW t \in Threads, NEW f \in Files, CollectImport(t, f)
      PROVE  PlainGuarded'
  BY <1>20 DEF CollectImport
<1>21. ASSUME NEW t \in Threads, CollectAdd(t)
      PROVE  PlainGuarded'
  <2>1. (lock' = lock /\ mode' = mode /\ pc' = [pc EXCEPT ![t] = "index"]) \/ Fail(t)
    BY <1>21 DEF CollectAdd
  <2>2. mode[t] = "attached" /\ pc[t] = "collect"
    BY <1>21 DEF CollectAdd
  <2> QED
    BY <2>1, <2>2 DEF Fail, Left
<1>22. ASSUME NEW t \in Threads, CollectIndex(t)
      PROVE  PlainGuarded'
  BY <1>22 DEF CollectIndex, CollectReturn, AfterRegister
<1>23. ASSUME NEW t \in Threads, Snapshot(t)
      PROVE  PlainGuarded'
  BY <1>23 DEF Snapshot
<1>24. ASSUME NEW t \in Threads, Compile(t)
      PROVE  PlainGuarded'
  BY <1>24 DEF Compile
<1>25. ASSUME NEW t \in Threads, Compiled(t)
      PROVE  PlainGuarded'
  BY <1>25 DEF Compiled
<1>26. ASSUME NEW t \in Threads, Merge(t)
      PROVE  PlainGuarded'
  BY <1>26 DEF Merge
<1>27. ASSUME NEW t \in Threads, Merged(t) \/ Frame(t) \/ Framed(t)
      PROVE  PlainGuarded'
  BY <1>27 DEF Merged, Frame, Framed
<1>28. ASSUME NEW t \in Threads, WalkDone(t)
      PROVE  PlainGuarded'
  BY <1>28 DEF WalkDone, Left
<1> QED
  BY <1>1, <1>2, <1>3, <1>4, <1>5, <1>6, <1>7, <1>8, <1>9, <1>10, <1>11,
     <1>12, <1>13, <1>14, <1>15, <1>16, <1>17, <1>18, <1>19, <1>20, <1>21,
     <1>22, <1>23, <1>24, <1>25, <1>26, <1>27, <1>28 DEF Next, Step

\* A granted thread holds what it waited for, and no other thread's waiting
\* is disturbed.
LEMMA BlockingGrant ==
  ASSUME TypeOK, Blocking, NEW t \in Threads, Grant(t)
  PROVE  Blocking'
<1>1. /\ pc' = pc
      /\ mode'[t] = "ready" /\ pc[t] # "idle" /\ pc[t] # "once"
      /\ \A u \in Threads \ {t} : mode'[u] = mode[u]
  BY PCsListed DEF Grant, TypeOK
<1>2. lock'["registered"].writer \in {lock["registered"].writer, t}
  BY GrantTakes
<1>3. lock'["registered"].writer = t /\ lock["registered"].writer # t
        => pc[t] = "writeRegistered"
  BY GrantTakes
<1>4. ASSUME NEW u \in Threads, lock'["registered"].writer = u
      PROVE  pc[u] \in {"writeRegistered", "writeCore", "collect", "index"}
  BY <1>2, <1>3, <1>4 DEF Blocking
<1>5. ASSUME NEW u \in Threads, mode'[u] = "blocked", pc[u] # "once"
      PROVE  ~Holds(u, PyAcquire[pc[u]].lock)'
  <2>1. u # t /\ mode[u] = "blocked"
    BY <1>1, <1>5
  <2>2. ~Holds(u, PyAcquire[pc[u]].lock) /\ pc[u] \in DOMAIN PyAcquire
    BY <1>5, <2>1 DEF Blocking
  <2>3. PyAcquire[pc[u]].lock \in LockNames
    BY <2>2, PCsListed DEF PyAcquire, LockNames
  <2>4. Holds(u, PyAcquire[pc[u]].lock)' => Holds(u, PyAcquire[pc[u]].lock)
    BY <1>1, <2>1, <2>3, GrantTakes
  <2> QED
    BY <2>2, <2>4
<1>6. \A u \in Threads : /\ mode'[u] # "hosting"
                         /\ mode'[u] = "none" <=> pc[u] = "idle"
                         /\ pc[u] = "once" => mode'[u] = "blocked"
                         /\ mode'[u] = "blocked" => pc[u] \in DOMAIN PyAcquire \cup {"once"}
  BY <1>1 DEF Blocking
<1>7. \A u \in lock'["registered"].readers \cap Threads : pc[u] = "lookup"
  <2>1. \A u \in lock'["registered"].readers :
          u \in lock["registered"].readers \/ (u = t /\ pc[t] = "lookup")
    BY GrantTakes
  <2> QED
    BY <2>1 DEF Blocking
<1> QED
  BY <1>1, <1>4, <1>5, <1>6, <1>7 DEF Blocking

\* Without reentrant calls, a thread that is blocked waits for a lock it does
\* not hold, and the registered lock is held by registering threads only.
LEMMA BlockingInductive ==
  Alone /\ TypeOK /\ Owned /\ Blocking /\ [Next]_vars => Blocking'
<1> SUFFICES ASSUME Alone, TypeOK, Owned, Blocking, [Next]_vars PROVE Blocking'
  OBVIOUS
<1>8. ASSUME NEW t \in Threads, Grant(t)
      PROVE  Blocking'
  BY <1>8, BlockingGrant
<1> USE DEF TypeOK, Blocking, Alone, Owned, RegisterPCs, EvaluatePCs, LockNames, Released,
       Taken, Holds, Free, LockState, PyAcquire
<1> USE HostAssumption DEF vars, files, At, AtPy, Goto, PyPoints
<1>1. CASE UNCHANGED vars \/ StopTheWorld \/ RestartTheWorld
  BY <1>1 DEF StopTheWorld, RestartTheWorld
<1>2. ASSUME NEW t \in Threads, NEW f \in Files, Call(t, f)
      PROVE  Blocking'
  BY <1>2 DEF Call
<1>3. ASSUME NEW t \in Threads, NEW f \in Files, Reenter(t, f)
      PROVE  Blocking'
  BY <1>3 DEF Reenter
<1>4. ASSUME NEW t \in Threads, Attach(t)
      PROVE  Blocking'
  BY <1>4 DEF Attach
<1>5. ASSUME NEW t \in Threads, Yield(t)
      PROVE  Blocking'
  BY <1>5 DEF Yield
<1>6. ASSUME NEW t \in Threads, WalkFrame(t) \/ Resolve(t)
      PROVE  Blocking'
  BY <1>6 DEF WalkFrame, Resolve
<1>7. ASSUME NEW t \in Threads, Block(t)
      PROVE  Blocking'
  BY <1>7 DEF Block
<1>9. ASSUME NEW t \in Threads, PyError(t)
      PROVE  Blocking'
  BY <1>9 DEF PyError, Fail, Left
<1>10. ASSUME NEW t \in Threads, EngineReady(t)
      PROVE  Blocking'
  BY <1>10 DEF EngineReady
<1>11. ASSUME NEW t \in Threads, EngineWait(t)
      PROVE  Blocking'
  BY <1>11 DEF EngineWait
<1>12. ASSUME NEW t \in Threads, EngineWake(t)
      PROVE  Blocking'
  BY <1>12 DEF EngineWake
<1>13. ASSUME NEW t \in Threads, NEW f \in Files, NewRegister(t, f)
      PROVE  Blocking'
  BY <1>13 DEF NewRegister
<1>14. ASSUME NEW t \in Threads, NewDone(t)
      PROVE  Blocking'
  BY <1>14 DEF NewDone
<1>15. ASSUME NEW t \in Threads, Lookup(t)
      PROVE  Blocking'
  BY <1>15 DEF Lookup, AfterRegister
<1>16. ASSUME NEW t \in Threads, WriteRegistered(t)
      PROVE  Blocking'
  <2>1. lock' = lock \/ (lock["registered"].writer = NoThread /\ lock' = Taken(t, "registered", "write"))
    BY <1>16 DEF WriteRegistered, Acquire
  <2>2. \A u \in Threads \ {t}, l \in LockNames : Holds(u, l)' <=> Holds(u, l)
    BY <1>16, <2>1, TakenOthers DEF Holds
  <2>3. lock'["registered"].readers = lock["registered"].readers
       /\ (lock'["registered"].writer = lock["registered"].writer \/ lock'["registered"].writer = t)
    BY <1>16 DEF WriteRegistered, Acquire
  <2>4. mode' = mode /\ mode[t] = "attached" /\ pc' = [pc EXCEPT ![t] = "writeCore"] /\ pc[t] = "writeRegistered"
    BY <1>16 DEF WriteRegistered, Acquire
  <2> QED
    BY <2>1, <2>2, <2>3, <2>4
<1>17. ASSUME NEW t \in Threads, WriteCore(t)
      PROVE  Blocking'
  <2>1. lock' = lock \/ (lock["core"].writer = NoThread /\ lock' = Taken(t, "core", "write"))
    BY <1>17 DEF WriteCore, Acquire
  <2>2. \A u \in Threads \ {t}, l \in LockNames : Holds(u, l)' <=> Holds(u, l)
    BY <1>17, <2>1, TakenOthers DEF Holds
  <2>3. lock'["registered"].readers = lock["registered"].readers
       /\ (lock'["registered"].writer = lock["registered"].writer \/ lock'["registered"].writer = t)
    BY <1>17 DEF WriteCore, Acquire
  <2>4. mode' = mode /\ mode[t] = "attached" /\ pc' = [pc EXCEPT ![t] = "collect"] /\ pc[t] = "writeCore"
    BY <1>17 DEF WriteCore, Acquire
  <2> QED
    BY <2>1, <2>2, <2>3, <2>4
<1>18. ASSUME NEW t \in Threads, ReadCore(t)
      PROVE  Blocking'
  BY <1>18 DEF ReadCore, Acquire
<1>19. ASSUME NEW t \in Threads, CollectKnown(t)
      PROVE  Blocking'
  BY <1>19 DEF CollectKnown, CollectReturn, AfterRegister
<1>20. ASSUME NEW t \in Threads, NEW f \in Files, CollectImport(t, f)
      PROVE  Blocking'
  BY <1>20 DEF CollectImport
<1>21. ASSUME NEW t \in Threads, CollectAdd(t)
      PROVE  Blocking'
  BY <1>21 DEF CollectAdd, Fail, Left
<1>22. ASSUME NEW t \in Threads, CollectIndex(t)
      PROVE  Blocking'
  BY <1>22 DEF CollectIndex, CollectReturn, AfterRegister
<1>23. ASSUME NEW t \in Threads, Snapshot(t)
      PROVE  Blocking'
  BY <1>23 DEF Snapshot
<1>24. ASSUME NEW t \in Threads, Compile(t) \/ Compiled(t) \/ Merge(t)
      PROVE  Blocking'
  <2>1. \A u \in Threads, l \in {"registered", "core"} : Holds(u, l)' = Holds(u, l)
       /\ lock'["registered"] = lock["registered"]
    BY <1>24 DEF Compile, Compiled, Merge
  <2> QED
    BY <1>24, <2>1 DEF Compile, Compiled, Merge
<1>25. ASSUME NEW t \in Threads, Merged(t) \/ Frame(t) \/ Framed(t)
      PROVE  Blocking'
  <2>1. \A u \in Threads, l \in {"registered", "core"} : Holds(u, l)' = Holds(u, l)
       /\ lock'["registered"] = lock["registered"]
    BY <1>25 DEF Merged, Frame, Framed
  <2> QED
    BY <1>25, <2>1 DEF Merged, Frame, Framed
<1>26. ASSUME NEW t \in Threads, WalkDone(t)
      PROVE  Blocking'
  BY <1>26 DEF WalkDone, Left
<1> QED
  BY <1>1, <1>2, <1>3, <1>4, <1>5, <1>6, <1>7, <1>8, <1>9, <1>10, <1>11,
     <1>12, <1>13, <1>14, <1>15, <1>16, <1>17, <1>18, <1>19, <1>20, <1>21,
     <1>22, <1>23, <1>24, <1>25, <1>26 DEF Next, Step

-----------------------------------------------------------------------------
(* The inductive invariant, and what follows from it.                      *)

IInv == /\ TypeOK /\ Owned /\ Collecting /\ RegistrationLinked
        /\ CoreGuarded /\ Wanted /\ PlainGuarded

\* The inductive invariant holds before the first call.
LEMMA InitInv == Init => IInv
<1> SUFFICES ASSUME Init PROVE IInv
  OBVIOUS
<1> USE HostAssumption, FilesAssumption, PCsListed DEF Init, LockNames, Unlocked
<1>1. TypeOK
  BY StackNone DEF TypeOK, LockState, Modes
<1>2. Owned /\ Collecting /\ Wanted
  BY DEF Owned, Collecting, Wanted, RegisterPCs, EvaluatePCs
<1>3. RegistrationLinked
  BY DEF RegistrationLinked, Linked
<1>4. CoreGuarded /\ PlainGuarded
  BY DEF CoreGuarded, PlainGuarded, EvaluatePCs, Attached
<1> QED
  BY <1>1, <1>2, <1>3, <1>4 DEF IInv

\* Every step of every thread keeps the inductive invariant.
LEMMA StepInv == IInv /\ [Next]_vars => IInv'
  BY TypeInductive, OwnedInductive, CollectingInductive,
     RegistrationLinkedInductive, CoreGuardedInductive, WantedInductive,
     PlainGuardedInductive DEF IInv

\* The inductive invariant is invariant.
LEMMA Invariance == Spec => []IInv
  BY InitInv, StepInv, PTL DEF Spec

\* The type invariant: every variable keeps its shape, the once cell and the
\* locks included, through failures and retries.
THEOREM TypeCorrect == Spec => []TypeOK
<1>1. IInv => TypeOK
  BY DEF IInv
<1> QED
  BY <1>1, Invariance, PTL

\* Whatever failed before, a registered file is known to the descriptor pool,
\* the CEL environment and the Registry, together with all its imports.
THEOREM RegistrationIsLinked == Spec => []RegistrationLinked
<1>1. IInv => RegistrationLinked
  BY DEF IInv
<1> QED
  BY <1>1, Invariance, PTL

\* A linked set with f in it has everything f reaches.
LEMMA ReachLeast ==
  ASSUME NEW S \in SUBSET Files, Linked(S), NEW f \in S
  PROVE  Reach(f) \subseteq S
  BY DEF Reach

\* A call that holds the core validator for reading, to evaluate a message,
\* finds every file the message's rules can refer to registered.
THEOREM EvaluationIsRegistered == Spec => []EvaluatesRegistered
<1>1. IInv => EvaluatesRegistered
  <2> SUFFICES ASSUME IInv, NEW t \in Threads, t \in lock["core"].readers
               PROVE  Reach(want[t]) \cup Preregistered \subseteq registered
    BY DEF EvaluatesRegistered
  <2>1. pc[t] \in EvaluatePCs \cup {"readCore"}
    BY DEF IInv, CoreGuarded
  <2>2. want[t] \in registered /\ Preregistered \subseteq registered
    BY <2>1 DEF IInv, Wanted, Owned
  <2>3. registered \in SUBSET Files /\ Linked(registered)
    BY DEF IInv, TypeOK, RegistrationLinked
  <2> QED
    BY <2>2, <2>3, ReachLeast
<1> QED
  BY <1>1, Invariance, PTL

\* Under the global interpreter lock no thread ever blocks, attached, on the
\* environment's or the cache's lock: their holders do not run Python code.
THEOREM PlainLocksAreUncontended == Spec => []PlainLocksUncontended
<1>1. IInv => PlainLocksUncontended
  <2> SUFFICES ASSUME IInv, ~FreeThreaded, NEW t \in Threads, mode[t] = "attached",
                      pc[t] \in {"compile", "frame", "merge", "snapshot"}
               PROVE  /\ lock["env"] = Unlocked
                      /\ lock["cache"] = Unlocked
    BY DEF PlainLocksUncontended, At, PlainFree, Unlocked
  <2> USE DEF IInv, PlainGuarded, Attached
  <2>1. \A u \in Threads : mode[u] = "attached" => u = t
    OBVIOUS
  <2>2. lock["env"] \in LockState /\ lock["cache"] \in LockState
    BY DEF TypeOK, LockNames
  <2>3. \A u \in Threads : u \notin lock["env"].readers
    BY <2>1
  <2>4. \A u \in Threads : lock["env"].writer # u /\ lock["cache"].writer # u
    BY <2>1
  <2> QED
    BY <2>2, <2>3, <2>4 DEF LockState, Unlocked
<1> QED
  BY <1>1, Invariance, PTL

\* A step never changes the descriptors under a validation in progress, not
\* even one that fails while it creates the engine.
THEOREM DescriptorsAreStable == Spec => StableUnderValidation
<1> DEFINE Stable == lock["core"].readers \cap lock'["core"].readers # {} =>
                       UNCHANGED <<pool, celPool>>
<1>1. IInv /\ [Next]_vars => [Stable]_vars
  <2> SUFFICES ASSUME IInv, [Next]_vars, NEW u \in Threads,
                      u \in lock["core"].readers
               PROVE  UNCHANGED <<pool, celPool>>
    BY DEF IInv, TypeOK, LockState, LockNames
  <2>1. pc[u] \in EvaluatePCs \cup {"readCore"} /\ once = "ready"
    BY DEF IInv, CoreGuarded, Owned
  <2>2. ASSUME NEW t \in Threads, PyError(t)
        PROVE  UNCHANGED <<pool, celPool>>
    BY <2>1, <2>2, HostAssumption DEF PyError, files
  <2>3. ASSUME NEW t \in Threads, CollectAdd(t)
        PROVE  FALSE
    <3>1. lock["core"].writer = t /\ t # NoThread
      BY <2>3, HostAssumption DEF IInv, CoreGuarded, CollectAdd, At
    <3> QED
      BY <3>1 DEF IInv, CoreGuarded
  <2> QED
    BY <2>2, <2>3 DEF Next, Step, vars, files,
       StopTheWorld, RestartTheWorld, Call, Reenter, Attach, Yield, WalkFrame,
       EngineReady, EngineWait, EngineWake, NewRegister, NewDone, Block, Grant,
       Lookup, WriteRegistered, WriteCore, CollectKnown, CollectImport,
       CollectIndex, ReadCore, Snapshot, Resolve, Compile, Compiled, Merge,
       Merged, Frame, Framed, WalkDone
<1> QED
  BY <1>1, Invariance, PTL DEF Spec, StableUnderValidation

-----------------------------------------------------------------------------
(* No wait cycle, when Python code run by a call starts no other call.     *)
(* Each thread waits for threads of a lower rank only: the order in which  *)
(* the once cell, `registered`, `core`, the interpreter and the plain      *)
(* locks are taken.                                                        *)

Rank(t) ==
  CASE mode[t] = "ready" -> 2
    [] mode[t] = "blocked" /\ pc[t] = "writeCore" -> 3
    [] mode[t] = "blocked" /\ pc[t] \in {"readCore", "writeRegistered"} -> 4
    [] mode[t] = "blocked" /\ pc[t] = "lookup" -> 5
    [] mode[t] = "blocked" /\ pc[t] = "once" -> 6
    [] OTHER -> IF pc[t] \in {"compile", "frame", "merge", "snapshot"} THEN 1 ELSE 0

\* Before the first call no thread is blocked.
LEMMA InitBlocking == Alone /\ Init => Blocking
  BY HostAssumption, PCsListed
  DEF Alone, Init, Blocking, LockNames, Unlocked, Holds

\* A thread that waits for another ranks above it: the order in which a call
\* passes the cell, the locks and the interpreter rules out a cycle.
LEMMA RankLowers ==
  ASSUME Alone, IInv, Blocking, NEW t \in Threads, NEW u \in WaitsFor(t)
  PROVE  u \in Threads /\ Rank(u) < Rank(t)
<1> USE HostAssumption, PCsListed DEF Blocking
<1>1. /\ mode \in [Threads -> {"none", "attached", "ready", "blocked"}]
      /\ pc \in [Threads -> PCs]
      /\ \A l \in LockNames : lock[l] \in LockState
  BY DEF IInv, TypeOK, Modes
<1>2. ASSUME NEW v \in Threads, mode[v] # "blocked"
      PROVE  Rank(v) \in 0 .. 2
  BY <1>2, <1>1 DEF Rank
<1>3. ASSUME NEW v \in Threads, Holds(v, "core")
      PROVE  mode[v] # "blocked"
  <2>1. pc[v] \in {"writeCore", "readCore", "collect", "index"} \cup EvaluatePCs
    BY <1>3 DEF IInv, CoreGuarded, Holds
  <2>2. CASE pc[v] \in {"writeCore", "readCore"}
    BY <2>2, <1>3, <1>1 DEF PyAcquire
  <2>3. CASE pc[v] \in {"collect", "index"} \cup EvaluatePCs
    BY <2>3, <1>1 DEF EvaluatePCs
  <2> QED
    BY <2>1, <2>2, <2>3
<1>4. ASSUME NEW v \in Threads, Holds(v, "registered")
      PROVE  Rank(v) \in 0 .. 3
  <2>1. pc[v] \in {"lookup", "writeRegistered", "writeCore", "collect", "index"}
    BY <1>4 DEF Holds
  <2>2. CASE pc[v] \in {"lookup", "writeRegistered"}
    BY <2>2, <1>4, <1>2, <1>1 DEF PyAcquire
  <2>3. CASE pc[v] \in {"writeCore", "collect", "index"}
    BY <2>3, <1>1 DEF Rank
  <2> QED
    BY <2>1, <2>2, <2>3
<1>5. ASSUME NEW v \in Queued("core")
      PROVE  v \in Threads /\ Rank(v) = 3
  BY <1>5, <1>1 DEF Queued, Rank, PyAcquire
<1>6. ASSUME NEW v \in Queued("registered")
      PROVE  v \in Threads /\ Rank(v) = 4
  BY <1>6, <1>1 DEF Queued, Rank, PyAcquire
<1>7. CASE mode[t] = "blocked" /\ pc[t] = "once"
  <2>1. u = once /\ u \in Threads /\ pc[u] # "once"
    BY <1>7 DEF WaitsFor, IInv, Owned, RegisterPCs
  <2>2. Rank(u) \in 0 .. 5 /\ Rank(t) = 6
    BY <2>1, <1>7, <1>1 DEF Rank
  <2> QED
    BY <2>1, <2>2
<1>8. CASE mode[t] = "blocked" /\ pc[t] = "writeCore"
  <2>1. u \in Threads /\ Holds(u, "core")
    BY <1>8, <1>1 DEF WaitsFor, Holders, Holds, LockState, LockNames, PyAcquire
  <2>2. Rank(t) = 3
    BY <1>8 DEF Rank
  <2> QED
    BY <2>1, <2>2, <1>3, <1>2
<1>9. CASE mode[t] = "blocked" /\ pc[t] = "readCore"
  <2>1. \/ u \in Threads /\ Holds(u, "core")
        \/ u \in Queued("core")
    BY <1>9, <1>1 DEF WaitsFor, Holds, LockState, LockNames, PyAcquire
  <2>2. Rank(t) = 4
    BY <1>9 DEF Rank
  <2> QED
    BY <2>1, <2>2, <1>3, <1>2, <1>5
<1>10. CASE mode[t] = "blocked" /\ pc[t] = "writeRegistered"
  <2>1. u \in Threads /\ Holds(u, "registered")
    BY <1>10, <1>1 DEF WaitsFor, Holders, Holds, LockState, LockNames, PyAcquire
  <2>2. Rank(t) = 4
    BY <1>10 DEF Rank
  <2> QED
    BY <2>1, <2>2, <1>4
<1>11. CASE mode[t] = "blocked" /\ pc[t] = "lookup"
  <2>1. \/ u \in Threads /\ Holds(u, "registered")
        \/ u \in Queued("registered")
    BY <1>11, <1>1 DEF WaitsFor, Holds, LockState, LockNames, PyAcquire
  <2>2. Rank(t) = 5
    BY <1>11 DEF Rank
  <2> QED
    BY <2>1, <2>2, <1>4, <1>6
<1>12. CASE mode[t] = "ready"
  <2>1. u \in Threads /\ mode[u] = "attached"
    BY <1>12 DEF WaitsFor, Attached
  <2>2. Rank(t) = 2 /\ Rank(u) \in 0 .. 1
    BY <1>12, <2>1 DEF Rank
  <2> QED
    BY <2>1, <2>2
<1>13. CASE mode[t] = "attached"
  <2>1. /\ pc[t] \in {"compile", "frame", "merge", "snapshot"}
        /\ u \in Threads
        /\ Holds(u, "env") \/ Holds(u, "cache")
    BY <1>13, <1>1 DEF WaitsFor, At, Holders, Holds, LockState, LockNames
  <2>2. mode[u] = "attached" /\ pc[u] \in {"compiling", "framing", "merging"}
    BY <2>1 DEF IInv, PlainGuarded, Holds
  <2>3. Rank(t) = 1 /\ Rank(u) = 0
    BY <2>1, <2>2, <1>13 DEF Rank
  <2> QED
    BY <2>1, <2>3
<1>14. CASE mode[t] = "none"
  BY <1>14 DEF WaitsFor, At
<1> QED
  BY <1>1, <1>7, <1>8, <1>9, <1>10, <1>11, <1>12, <1>13, <1>14

\* Whatever the number of threads and the imports, no set of calls waits for
\* itself: registration, creation of the engine, validation and the
\* interpreter's own hand-over and stop-the-world never deadlock, as long as
\* no Python code run by a call calls the validator again on its thread.
THEOREM CallsDoNotDeadlock == Alone => (Spec => []NoWaitCycle)
<1> SUFFICES ASSUME Alone PROVE Spec => []NoWaitCycle
  OBVIOUS
<1>1. IInv /\ Blocking => NoWaitCycle
  <2> SUFFICES ASSUME IInv, Blocking, NEW S \in SUBSET Threads, S # {},
                      \A t \in S : WaitsFor(t) \cap S # {}
               PROVE  FALSE
    BY DEF NoWaitCycle
  <2>1. \A t \in S : Rank(t) \in 0 .. 6
    BY DEF Rank
  <2>2. \A t \in S : \E u \in S : Rank(u) < Rank(t)
    BY RankLowers
  <2>3. \A t \in S : Rank(t) # 0
    BY <2>1, <2>2
  <2>4. \A t \in S : Rank(t) # 1
    BY <2>1, <2>2, <2>3
  <2>5. \A t \in S : Rank(t) # 2
    BY <2>1, <2>2, <2>3, <2>4
  <2>6. \A t \in S : Rank(t) # 3
    BY <2>1, <2>2, <2>3, <2>4, <2>5
  <2>7. \A t \in S : Rank(t) \in 4 .. 6
    BY <2>1, <2>3, <2>4, <2>5, <2>6
  <2>8. \A t \in S : Rank(t) \in 5 .. 6
    BY <2>2, <2>7
  <2>9. \A t \in S : Rank(t) = 6
    BY <2>2, <2>8
  <2> QED
    BY <2>2, <2>9
<1>2. IInv /\ Blocking /\ [Next]_vars => Blocking'
  BY BlockingInductive DEF IInv
<1>3. Init => Blocking
  BY InitBlocking
<1> QED
  BY <1>1, <1>2, <1>3, Invariance, PTL DEF Spec
=============================================================================
