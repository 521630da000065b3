------------------------------- MODULE Engine -------------------------------
(***************************************************************************)
(* One engine of the Python extension (src/lib.rs): the core validator and *)
(* the registration state of one Protobuf runtime, shared by every thread  *)
(* that calls Validator.validate or Validator.collect_violations.          *)
(*                                                                         *)
(* A call makes sure the engine exists (a once cell), registers the        *)
(* message's file and, before it, the file's imports, and then evaluates   *)
(* the message.  What makes this hard is that the call runs Python code    *)
(* (reading descriptors and messages) at points where the interpreter may  *)
(* hand over to another thread, and that it takes two kinds of lock:       *)
(*   - `registered` and `core`, taken with read_py_attached and            *)
(*     write_py_attached: try the lock, else detach from the interpreter,  *)
(*     block, and attach again while holding it;                           *)
(*   - `env` and `cache` of the core validator (validator.rs), taken       *)
(*     plainly: a thread that blocks on one stays attached.                *)
(* A file stands for its one message type too, whose rules refer to the    *)
(* message types of the files it imports.                                  *)
(***************************************************************************)
EXTENDS Naturals, Sequences, FiniteSets

CONSTANTS
  Threads,        \* the calls that can be in progress at once
  NoThread,
  Host,           \* Host[t]: the thread whose Python code makes the calls t
                  \* stands for (a finalizer, a signal handler), or NoThread
  Files,
  Imports,        \* Imports[f]: the files f imports
  PoolRejects,    \* files the descriptor pool refuses
  CelRejects,     \* files the pool takes and the CEL environment refuses
  Preregistered,  \* the files of the constructor's registry argument
  HasRegistry,    \* TRUE for protobuf-py, FALSE for google.protobuf
  FreeThreaded    \* whether the interpreter runs without its global lock

ASSUME HostAssumption ==
  /\ NoThread \notin Threads
  /\ {"empty", "ready"} \cap Threads = {}
  /\ Host \in [Threads -> Threads \cup {NoThread}]
  /\ \A t \in Threads : Host[t] # t
ASSUME FilesAssumption ==
  /\ Imports \in [Files -> SUBSET Files]
  /\ PoolRejects \subseteq Files
  /\ CelRejects \subseteq Files
  /\ Preregistered \subseteq Files
ASSUME BuildAssumption == HasRegistry \in BOOLEAN /\ FreeThreaded \in BOOLEAN

(***************************************************************************)
(* Linked(S): every import of a file of S is in S.  Reach(f) is the least  *)
(* linked set with f: the files f needs, itself included.                  *)
(***************************************************************************)
Linked(S) == \A f \in S : Imports[f] \subseteq S
Reach(f) == {g \in Files : \A S \in SUBSET Files : f \in S /\ Linked(S) => g \in S}

VARIABLES
  once,        \* the engine's cell: "empty", the thread initialising it, "ready"
  registered,  \* names of the files registered
  pool,        \* files of the core validator's descriptor pool
  celPool,     \* files of the CEL environment's pool
  registry,    \* files of the protobuf-py Registry
  cache,       \* files whose message type's rules are compiled
  lock,        \* the four locks
  world,       \* "stopping" while a free-threaded interpreter stops the world
  pc,          \* where each call is
  mode,        \* how the call's thread stands to the interpreter
  want,        \* the file of the message being validated
  stack        \* the files being registered, innermost last

files == <<registered, pool, celPool, registry>>
vars == <<once, files, cache, lock, world, pc, mode, want, stack>>

LockNames == {"registered", "core", "env", "cache"}
LockState == [readers : SUBSET Threads, writer : Threads \cup {NoThread}]
Unlocked == [readers |-> {}, writer |-> NoThread]

\* The acquisitions made with the interpreter-aware variants, by their pc.
PyAcquire ==
  [lookup |-> [lock |-> "registered", kind |-> "read"],
   writeRegistered |-> [lock |-> "registered", kind |-> "write"],
   writeCore |-> [lock |-> "core", kind |-> "write"],
   readCore |-> [lock |-> "core", kind |-> "read"]]

\* Mutants: Python code runs under the environment's write or read guard.
PyPointsCompiling == {"engine", "new", "collect", "index", "resolve", "walk", "compiling"}
PyPointsFraming == {"engine", "new", "collect", "index", "resolve", "walk", "framing"}

\* Where the call is inside Python code: the interpreter may switch threads,
\* the code may raise, and it may start another validation.
PyPoints == {"engine", "new", "collect", "index", "resolve", "walk"}

PCs == DOMAIN PyAcquire \cup PyPoints \cup
         {"idle", "once", "snapshot", "compile", "compiling", "merge", "merging",
          "frame", "framing"}

\* "attached": runs with the interpreter.  "ready": waits to attach.
\* "blocked": detached, waits for a lock.  "hosting": runs Python code that
\* called the validator again.
Modes == {"none", "attached", "ready", "blocked", "hosting"}

Attached == {t \in Threads : mode[t] = "attached"}
At(t, p) == mode[t] = "attached" /\ pc[t] = p
AtPy(t) == mode[t] = "attached" /\ pc[t] \in PyPoints
Goto(t, p) == pc' = [pc EXCEPT ![t] = p]

Init ==
  /\ once = "empty"
  /\ registered = {} /\ pool = {} /\ celPool = {} /\ registry = {}
  /\ cache = {}
  /\ lock = [l \in LockNames |-> Unlocked]
  /\ world = "running"
  /\ pc = [t \in Threads |-> "idle"]
  /\ mode = [t \in Threads |-> "none"]
  /\ want \in [Threads -> Files]
  /\ stack = [t \in Threads |-> <<>>]

-----------------------------------------------------------------------------
(* The interpreter.                                                        *)

CanAttach == IF FreeThreaded THEN world = "running" ELSE Attached = {}

\* A detached thread gets the interpreter back.
Attach(t) ==
  /\ mode[t] = "ready" /\ CanAttach
  /\ mode' = [mode EXCEPT ![t] = "attached"]
  /\ UNCHANGED <<once, files, cache, lock, world, pc, want, stack>>

\* Python code lets another thread run.
Yield(t) ==
  /\ AtPy(t)
  /\ mode' = [mode EXCEPT ![t] = "ready"]
  /\ UNCHANGED <<once, files, cache, lock, world, pc, want, stack>>

\* A free-threaded interpreter waits for every thread to detach (a garbage
\* collection), lets none attach meanwhile, and goes on.
StopTheWorld ==
  /\ FreeThreaded /\ world = "running"
  /\ world' = "stopping"
  /\ UNCHANGED <<once, files, cache, lock, pc, mode, want, stack>>
RestartTheWorld ==
  /\ world = "stopping" /\ Attached = {}
  /\ world' = "running"
  /\ UNCHANGED <<once, files, cache, lock, pc, mode, want, stack>>

-----------------------------------------------------------------------------
(* Locks.  A waiting writer holds off new readers, as std's RwLock does.   *)

Holds(t, l) == t \in lock[l].readers \/ lock[l].writer = t
Holders(l) == lock[l].readers \cup ({lock[l].writer} \ {NoThread})
Queued(l) == {t \in Threads : /\ mode[t] = "blocked" /\ pc[t] \in DOMAIN PyAcquire
                              /\ PyAcquire[pc[t]] = [lock |-> l, kind |-> "write"]}
Free(l, kind) ==
  /\ lock[l].writer = NoThread
  /\ IF kind = "read" THEN Queued(l) = {} ELSE lock[l].readers = {}
Taken(t, l, kind) ==
  IF kind = "read" THEN [lock EXCEPT ![l].readers = lock[l].readers \cup {t}]
                   ELSE [lock EXCEPT ![l].writer = t]
Released(t, L) ==
  [l \in LockNames |-> IF l \in L
     THEN [readers |-> lock[l].readers \ {t},
           writer |-> IF lock[l].writer = t THEN NoThread ELSE lock[l].writer]
     ELSE lock[l]]

\* The interpreter-aware variants: the try fails, so the thread detaches and
\* blocks; once it has the lock it waits to attach again.
Block(t) ==
  /\ mode[t] = "attached" /\ pc[t] \in DOMAIN PyAcquire
  /\ LET a == PyAcquire[pc[t]] IN ~Holds(t, a.lock) /\ ~Free(a.lock, a.kind)
  /\ mode' = [mode EXCEPT ![t] = "blocked"]
  /\ UNCHANGED <<once, files, cache, lock, world, pc, want, stack>>
Grant(t) ==
  /\ mode[t] = "blocked" /\ pc[t] \in DOMAIN PyAcquire
  /\ LET a == PyAcquire[pc[t]] IN
       /\ Free(a.lock, a.kind)
       /\ lock' = Taken(t, a.lock, a.kind)
  /\ mode' = [mode EXCEPT ![t] = "ready"]
  /\ UNCHANGED <<once, files, cache, world, pc, want, stack>>

\* The attached thread at p passes the acquisition, taking the lock or
\* having been granted it.
Acquire(t, p) ==
  LET a == PyAcquire[p] IN
  /\ At(t, p)
  /\ \/ Holds(t, a.lock) /\ UNCHANGED lock
     \/ ~Holds(t, a.lock) /\ Free(a.lock, a.kind) /\ lock' = Taken(t, a.lock, a.kind)

-----------------------------------------------------------------------------
(* A call, up to the engine.                                               *)

\* The thread mode once t's call is over: a hosted call returns to its host.
Left(t) ==
  [u \in Threads |-> IF u = t THEN "none"
                     ELSE IF u = Host[t] THEN "attached" ELSE mode[u]]

Call(t, f) ==
  /\ pc[t] = "idle" /\ Host[t] = NoThread
  /\ Goto(t, "engine")
  /\ mode' = [mode EXCEPT ![t] = "ready"]
  /\ want' = [want EXCEPT ![t] = f]
  /\ UNCHANGED <<once, files, cache, lock, world, stack>>

\* Python code run by a call validates a message on the same thread.
Reenter(t, f) ==
  /\ pc[t] = "idle" /\ Host[t] # NoThread
  /\ AtPy(Host[t])
  /\ Goto(t, "engine")
  /\ mode' = [mode EXCEPT ![t] = "attached", ![Host[t]] = "hosting"]
  /\ want' = [want EXCEPT ![t] = f]
  /\ UNCHANGED <<once, files, cache, lock, world, stack>>

\* Mutants: the cell keeps the failure; the cell is left in initialisation.
FailKept(t) ==
  /\ Goto(t, "idle")
  /\ mode' = Left(t)
  /\ stack' = [stack EXCEPT ![t] = <<>>]
  /\ lock' = Released(t, LockNames)
  /\ once' = IF once = t THEN "failed" ELSE once
FailStuck(t) ==
  /\ Goto(t, "idle")
  /\ mode' = Left(t)
  /\ stack' = [stack EXCEPT ![t] = <<>>]
  /\ lock' = Released(t, LockNames)
  /\ UNCHANGED once

\* A call that ends with an error drops its guards.  If it was creating the
\* engine, the engine goes with it and the cell stays empty.
Fail(t) ==
  /\ Goto(t, "idle")
  /\ mode' = Left(t)
  /\ stack' = [stack EXCEPT ![t] = <<>>]
  /\ lock' = Released(t, LockNames)
  /\ once' = IF once = t THEN "empty" ELSE once

\* Any Python code the call runs may raise.
PyError(t) ==
  /\ AtPy(t)
  /\ Fail(t)
  /\ IF once = t
       THEN registered' = {} /\ pool' = {} /\ celPool' = {} /\ registry' = {}
       ELSE UNCHANGED files
  /\ UNCHANGED <<cache, world, want>>

\* Validator.engine: the cell is ready, or the thread detaches to wait for it.
EngineReady(t) ==
  /\ At(t, "engine") /\ once = "ready"
  /\ Goto(t, "lookup")
  /\ stack' = [stack EXCEPT ![t] = <<want[t]>>]
  /\ UNCHANGED <<once, files, cache, lock, world, mode, want>>
EngineWait(t) ==
  /\ At(t, "engine") /\ once # "ready"
  /\ Goto(t, "once")
  /\ mode' = [mode EXCEPT ![t] = "blocked"]
  /\ UNCHANGED <<once, files, cache, lock, world, want, stack>>
EngineWake(t) ==
  /\ mode[t] = "blocked" /\ pc[t] = "once" /\ once \in {"empty", "ready"}
  /\ once' = IF once = "empty" THEN t ELSE once
  /\ Goto(t, IF once = "empty" THEN "new" ELSE "engine")
  /\ mode' = [mode EXCEPT ![t] = "ready"]
  /\ UNCHANGED <<files, cache, lock, world, want, stack>>

\* Engine::new registers the preregistered files, then the engine is stored.
NewRegister(t, f) ==
  /\ At(t, "new") /\ f \in Preregistered \ registered
  /\ Goto(t, "lookup")
  /\ stack' = [stack EXCEPT ![t] = <<f>>]
  /\ UNCHANGED <<once, files, cache, lock, world, mode, want>>
\* Mutant: the engine is stored before every file is registered.
NewDoneEarly(t) ==
  /\ At(t, "new")
  /\ once' = "ready"
  /\ Goto(t, "engine")
  /\ UNCHANGED <<files, cache, lock, world, mode, want, stack>>
NewDone(t) ==
  /\ At(t, "new") /\ Preregistered \subseteq registered
  /\ once' = "ready"
  /\ Goto(t, "engine")
  /\ UNCHANGED <<files, cache, lock, world, mode, want, stack>>

-----------------------------------------------------------------------------
(* Engine.register and ProtoRuntime.collect_files.                         *)

\* The file collect_files is at.
Top(t) == stack[t][Len(stack[t])]

\* Where register returns to.
AfterRegister(t) == IF once = t THEN "new" ELSE "readCore"

\* The fast path: the read guard lives for the one membership test.
Lookup(t) ==
  /\ At(t, "lookup")
  /\ Holds(t, "registered") \/ Free("registered", "read")
  /\ lock' = Released(t, {"registered"})
  /\ IF Top(t) \in registered
       THEN Goto(t, AfterRegister(t)) /\ stack' = [stack EXCEPT ![t] = <<>>]
       ELSE Goto(t, "writeRegistered") /\ UNCHANGED stack
  /\ UNCHANGED <<once, files, cache, world, mode, want>>

WriteRegistered(t) ==
  /\ Acquire(t, "writeRegistered")
  /\ Goto(t, "writeCore")
  /\ UNCHANGED <<once, files, cache, world, mode, want, stack>>
\* Mutant: registration trusts the registered lock to exclude validations.
WriteCoreSkipped(t) ==
  /\ At(t, "writeCore")
  /\ Goto(t, "collect")
  /\ UNCHANGED <<once, files, cache, lock, world, mode, want, stack>>
WriteCore(t) ==
  /\ Acquire(t, "writeCore")
  /\ Goto(t, "collect")
  /\ UNCHANGED <<once, files, cache, world, mode, want, stack>>

\* collect_files returns from its innermost file; the outermost return drops
\* both write guards.
CollectReturn(t) ==
  /\ stack' = [stack EXCEPT ![t] = SubSeq(@, 1, Len(@) - 1)]
  /\ IF Len(stack[t]) = 1
       THEN Goto(t, AfterRegister(t)) /\ lock' = Released(t, {"registered", "core"})
       ELSE Goto(t, "collect") /\ UNCHANGED lock

\* Another call registered the file before this one had the lock.
CollectKnown(t) ==
  /\ At(t, "collect") /\ Top(t) \in registered
  /\ CollectReturn(t)
  /\ UNCHANGED <<once, files, cache, world, mode, want>>

\* An import not registered yet comes first.
CollectImport(t, f) ==
  /\ At(t, "collect") /\ Top(t) \notin registered
  /\ f \in Imports[Top(t)] \ registered
  /\ stack' = [stack EXCEPT ![t] = Append(@, f)]
  /\ UNCHANGED <<once, files, cache, lock, world, pc, mode, want>>

\* Mutant: the name is recorded before the Registry has taken the file.
CollectAddRecording(t) ==
  LET f == Top(t) IN
  /\ At(t, "collect") /\ f \notin registered
  /\ Imports[f] \subseteq registered
  /\ f \notin PoolRejects \cup CelRejects
  /\ pool' = pool \cup {f} /\ celPool' = celPool \cup {f}
  /\ registered' = registered \cup {f}
  /\ Goto(t, "index")
  /\ UNCHANGED <<once, registry, lock, mode, stack, cache, world, want>>

\* core.add_file_descriptor_bytes: the pool takes the file, then the CEL
\* environment.  A file either already knows by name is skipped.
CollectAdd(t) ==
  LET f == Top(t)
      poolFails == f \in PoolRejects \ pool
      celFails == f \in CelRejects \ celPool
  IN
  /\ At(t, "collect") /\ f \notin registered
  /\ Imports[f] \subseteq registered
  /\ IF poolFails \/ celFails
       THEN /\ Fail(t)
            /\ registered' = IF once = t THEN {} ELSE registered
            /\ pool' = IF once = t THEN {} ELSE IF poolFails THEN pool ELSE pool \cup {f}
            /\ celPool' = IF once = t THEN {} ELSE celPool
            /\ registry' = IF once = t THEN {} ELSE registry
       ELSE /\ pool' = pool \cup {f} /\ celPool' = celPool \cup {f}
            /\ Goto(t, "index")
            /\ UNCHANGED <<once, registered, registry, lock, mode, stack>>
  /\ UNCHANGED <<cache, world, want>>

\* The Registry's add, a Python call, then the name is recorded.
CollectIndex(t) ==
  /\ At(t, "index")
  /\ registry' = IF HasRegistry THEN registry \cup {Top(t)} ELSE registry
  /\ registered' = registered \cup {Top(t)}
  /\ CollectReturn(t)
  /\ UNCHANGED <<once, pool, celPool, cache, world, mode, want>>

-----------------------------------------------------------------------------
(* Validator.evaluate, and the core's validate_message under it.           *)

ReadCore(t) ==
  /\ Acquire(t, "readCore")
  /\ Goto(t, "snapshot")
  /\ UNCHANGED <<once, files, cache, world, mode, want, stack>>

\* The plain locks: At(t, p) holds while the thread waits, attached.
PlainFree(l, kind) ==
  lock[l].writer = NoThread /\ (kind = "write" => lock[l].readers = {})

Snapshot(t) ==
  /\ At(t, "snapshot") /\ PlainFree("cache", "read")
  /\ Goto(t, IF want[t] \in cache THEN "walk" ELSE "resolve")
  /\ UNCHANGED <<once, files, cache, lock, world, mode, want, stack>>

\* build::resolve looks the types up through the reader, in Python, before
\* the environment is locked.
Resolve(t) ==
  /\ At(t, "resolve")
  /\ Goto(t, "compile")
  /\ UNCHANGED <<once, files, cache, lock, world, mode, want, stack>>

Compile(t) ==
  /\ At(t, "compile") /\ PlainFree("env", "write")
  /\ lock' = Taken(t, "env", "write")
  /\ Goto(t, "compiling")
  /\ UNCHANGED <<once, files, cache, world, mode, want, stack>>
Compiled(t) ==
  /\ At(t, "compiling")
  /\ lock' = Released(t, {"env"})
  /\ Goto(t, "merge")
  /\ UNCHANGED <<once, files, cache, world, mode, want, stack>>

Merge(t) ==
  /\ At(t, "merge") /\ PlainFree("cache", "write")
  /\ lock' = Taken(t, "cache", "write")
  /\ Goto(t, "merging")
  /\ UNCHANGED <<once, files, cache, world, mode, want, stack>>
Merged(t) ==
  /\ At(t, "merging")
  /\ cache' = cache \cup Reach(want[t])
  /\ lock' = Released(t, {"cache"})
  /\ Goto(t, "walk")
  /\ UNCHANGED <<once, files, world, mode, want, stack>>

\* A CEL rule needs the message: it is serialized, in Python, and then
\* parsed under the environment's read lock.
WalkFrame(t) ==
  /\ At(t, "walk")
  /\ Goto(t, "frame")
  /\ UNCHANGED <<once, files, cache, lock, world, mode, want, stack>>
Frame(t) ==
  /\ At(t, "frame") /\ PlainFree("env", "read")
  /\ lock' = Taken(t, "env", "read")
  /\ Goto(t, "framing")
  /\ UNCHANGED <<once, files, cache, world, mode, want, stack>>
Framed(t) ==
  /\ At(t, "framing")
  /\ lock' = Released(t, {"env"})
  /\ Goto(t, "walk")
  /\ UNCHANGED <<once, files, cache, world, mode, want, stack>>

\* The walk is over; evaluate drops the core guard and the call returns.
WalkDone(t) ==
  /\ At(t, "walk")
  /\ lock' = Released(t, {"core"})
  /\ Goto(t, "idle")
  /\ mode' = Left(t)
  /\ UNCHANGED <<once, files, cache, world, want, stack>>

-----------------------------------------------------------------------------
Step(t) ==
  \/ EngineReady(t) \/ EngineWait(t) \/ EngineWake(t)
  \/ \E f \in Files : NewRegister(t, f)
  \/ NewDone(t)
  \/ Block(t) \/ Grant(t)
  \/ Lookup(t) \/ WriteRegistered(t) \/ WriteCore(t)
  \/ CollectKnown(t) \/ (\E f \in Files : CollectImport(t, f))
  \/ CollectAdd(t) \/ CollectIndex(t)
  \/ ReadCore(t) \/ Snapshot(t) \/ Resolve(t)
  \/ Compile(t) \/ Compiled(t) \/ Merge(t) \/ Merged(t)
  \/ Frame(t) \/ Framed(t) \/ WalkDone(t)

Next ==
  \/ StopTheWorld \/ RestartTheWorld
  \/ \E t \in Threads :
       \/ \E f \in Files : Call(t, f) \/ Reenter(t, f)
       \/ Attach(t) \/ Yield(t)
       \/ PyError(t)
       \/ WalkFrame(t)
       \/ Step(t)

Spec == Init /\ [][Next]_vars

\* Calls are not forced to start, Python is not forced to switch threads or
\* to raise.  A message is finite, so its walk ends; a call that can go on
\* does, and the interpreter and the locks are handed out without starving
\* a thread.
Fairness ==
  /\ WF_vars(RestartTheWorld)
  /\ \A t \in Threads : SF_vars(Attach(t)) /\ SF_vars(Step(t)) /\ SF_vars(WalkDone(t))

FairSpec == Spec /\ Fairness

\* An engine that calls which have returned left behind: it exists, and the
\* files R are registered.
ReadyInit(R) ==
  /\ once = "ready"
  /\ registered = R /\ pool = R /\ celPool = R
  /\ registry = IF HasRegistry THEN R ELSE {}
  /\ cache \in {S \in SUBSET R : Linked(S)}
  /\ lock = [l \in LockNames |-> Unlocked]
  /\ world = "running"
  /\ pc = [t \in Threads |-> "idle"]
  /\ mode = [t \in Threads |-> "none"]
  /\ want \in [Threads -> Files]
  /\ stack = [t \in Threads |-> <<>>]
\* Every file has been registered before, or some have.
WarmSpec == ReadyInit(Files) /\ [][Next]_vars
ReadySpec ==
  /\ \E R \in SUBSET Files : Linked(R) /\ Preregistered \subseteq R /\ ReadyInit(R)
  /\ [][Next]_vars

-----------------------------------------------------------------------------
TypeOK ==
  /\ once \in {"empty", "ready"} \cup Threads
  /\ registered \subseteq Files /\ pool \subseteq Files
  /\ celPool \subseteq Files /\ registry \subseteq Files
  /\ cache \subseteq Files
  /\ lock \in [LockNames -> LockState]
  /\ world \in {"running", "stopping"}
  /\ pc \in [Threads -> PCs]
  /\ mode \in [Threads -> Modes]
  /\ want \in [Threads -> Files]
  /\ stack \in [Threads -> Seq(Files)]

\* Whatever failed and was retried before, a registered file has been taken
\* by the descriptor pool, by the CEL environment and (protobuf-py) by the
\* Registry, and so has every import it has: the order collect_files adds
\* files in, and that it records a name only once everything took the file.
RegistrationLinked ==
  /\ Linked(registered)
  /\ registered \subseteq pool \cap celPool
  /\ HasRegistry => registered \subseteq registry
  /\ Linked(pool)

\* A call that evaluates finds its type and all the types its rules can
\* reach, and the extensions the constructor was given.
EvaluatesRegistered ==
  \A t \in Threads :
    t \in lock["core"].readers =>
      Reach(want[t]) \cup Preregistered \subseteq registered

\* Descriptors never change under a validation (lib.rs: "Adding descriptors
\* needs exclusive access").
StableUnderValidation ==
  [][lock["core"].readers \cap lock'["core"].readers # {} =>
       UNCHANGED <<pool, celPool>>]_vars

\* What keeps a thread from going on.
WaitsFor(t) ==
  IF mode[t] = "blocked" /\ pc[t] = "once" THEN {once} \cap Threads
  ELSE IF mode[t] = "blocked" THEN
    LET a == PyAcquire[pc[t]] IN
      IF a.kind = "write" THEN Holders(a.lock)
      ELSE ({lock[a.lock].writer} \ {NoThread}) \cup Queued(a.lock)
  ELSE IF mode[t] = "ready" THEN
    IF FreeThreaded /\ world = "running" THEN {} ELSE Attached
  ELSE IF mode[t] = "hosting" THEN {u \in Threads : Host[u] = t /\ pc[u] # "idle"}
  ELSE IF At(t, "compile") THEN Holders("env")
  ELSE IF At(t, "frame") THEN {lock["env"].writer} \ {NoThread}
  ELSE IF At(t, "merge") THEN Holders("cache")
  ELSE IF At(t, "snapshot") THEN {lock["cache"].writer} \ {NoThread}
  ELSE {}

\* No threads wait for each other, through the locks, the once cell and the
\* interpreter together (test_concurrency.py guards one such cycle;
\* Validator.evaluate: "a registration waiting on it cannot deadlock with a
\* validation that Python has preempted").
NoWaitCycle ==
  \A S \in SUBSET Threads : S # {} => \E t \in S : WaitsFor(t) \cap S = {}

\* Validator.evaluate's claim by itself: a thread that waits for the core's
\* write lock, to register, is in no such cycle.
RegistrationNotStuck ==
  \A S \in SUBSET Threads :
    (\E t \in S : mode[t] = "blocked" /\ pc[t] = "writeCore") =>
      \E t \in S : WaitsFor(t) \cap S = {}

\* With the global interpreter lock, a thread that reaches one of the core
\* validator's plain locks never blocks on it, and so never blocks with the
\* interpreter (validator.rs: env is "never locked around Runtime invocations
\* which may switch threads and reenter").
PlainLocksUncontended ==
  ~FreeThreaded =>
    \A t \in Threads :
      /\ At(t, "compile") => PlainFree("env", "write")
      /\ At(t, "frame") => PlainFree("env", "read")
      /\ At(t, "merge") => PlainFree("cache", "write")
      /\ At(t, "snapshot") => PlainFree("cache", "read")

\* Every call ends.
CallsReturn == \A t \in Threads : pc[t] # "idle" ~> pc[t] = "idle"

-----------------------------------------------------------------------------
(* The inductive invariant behind the properties above.                    *)

RegisterPCs == {"lookup", "writeRegistered", "writeCore", "collect", "index"}
EvaluatePCs == {"snapshot", "resolve", "compile", "compiling", "merge", "merging",
                "walk", "frame", "framing"}

\* The thread that creates the engine is alone with it.
Owned ==
  \A t \in Threads :
    /\ pc[t] = "new" => once = t
    /\ pc[t] \in RegisterPCs => once \in {t, "ready"}
    /\ pc[t] \in EvaluatePCs \cup {"readCore"} => once = "ready"
    /\ once = t => pc[t] \in RegisterPCs \cup {"new"}

\* A call registers the file it wants, and collect_files is at the top.
Collecting ==
  \A t \in Threads :
    /\ pc[t] \in RegisterPCs => Len(stack[t]) > 0
    /\ pc[t] \in {"lookup", "writeRegistered", "writeCore"} => Len(stack[t]) = 1
    /\ pc[t] \in RegisterPCs /\ once = "ready" => stack[t][1] = want[t]
    /\ pc[t] = "index" =>
         Top(t) \in pool \cap celPool /\ Imports[Top(t)] \subseteq registered

\* Who holds the core lock, and that a writer is alone.
CoreGuarded ==
  /\ \A t \in Threads :
       /\ pc[t] \in {"collect", "index"} => lock["core"].writer = t
       /\ lock["core"].writer = t => pc[t] \in {"writeCore", "collect", "index"}
       /\ pc[t] \in EvaluatePCs => t \in lock["core"].readers
       /\ t \in lock["core"].readers => pc[t] \in EvaluatePCs \cup {"readCore"}
  /\ lock["core"].writer # NoThread => lock["core"].readers = {}

\* Past registration, the wanted file is registered.
Wanted ==
  /\ \A t \in Threads :
       pc[t] \in EvaluatePCs \cup {"readCore"} => want[t] \in registered
  /\ once = "ready" => Preregistered \subseteq registered

\* The plain locks are held by attached threads only, and one thread at most
\* is attached under the global interpreter lock.
PlainGuarded ==
  /\ \A t \in Threads :
       /\ t \in lock["env"].readers => pc[t] = "framing"
       /\ lock["env"].writer = t => pc[t] = "compiling"
       /\ lock["cache"].writer = t => pc[t] = "merging"
       /\ pc[t] \in {"framing", "compiling", "merging"} => mode[t] = "attached"
  /\ lock["cache"].readers = {}
  /\ ~FreeThreaded => \A t, u \in Attached : t = u

\* Without hosted calls: who can be blocked, on what, and what the holders of
\* the `registered` lock are doing.
Alone == \A t \in Threads : Host[t] = NoThread
Blocking ==
  \A t \in Threads :
    /\ mode[t] # "hosting"
    /\ mode[t] = "none" <=> pc[t] = "idle"
    /\ pc[t] = "once" => mode[t] = "blocked"
    /\ mode[t] = "blocked" => pc[t] \in DOMAIN PyAcquire \cup {"once"}
    /\ mode[t] = "blocked" /\ pc[t] # "once" => ~Holds(t, PyAcquire[pc[t]].lock)
    /\ lock["registered"].writer = t =>
         pc[t] \in {"writeRegistered", "writeCore", "collect", "index"}
    /\ t \in lock["registered"].readers => pc[t] = "lookup"
=============================================================================
