---------------------------- MODULE CelLifetime ----------------------------
(***************************************************************************)
(* Who owns the C++ CEL engine (protovalidate-deps/src/engine.rs).  The    *)
(* Engine, and every Program and Frame made from it, hold a share of the   *)
(* raw engine, counted by an Arc; the thread that gives up the last share  *)
(* frees it.  A Program or Frame also owns a raw object inside the engine, *)
(* which its drop frees before its share goes.  Threads evaluate programs  *)
(* on frames meanwhile; what they borrow cannot be dropped.                *)
(***************************************************************************)
EXTENDS Naturals, FiniteSets

CONSTANTS
  CelThreads,       \* threads that compile, evaluate and drop
  Programs, Frames, \* the programs and frames there may be
  TheEngine,        \* the Engine, the share that new objects copy
  NoFrame           \* an evaluation on a scalar borrows no frame

Objects == Programs \cup Frames
Owners == Objects \cup {TheEngine}

ASSUME OwnersAssumption ==
  /\ IsFiniteSet(Programs) /\ IsFiniteSet(Frames) /\ Programs \cap Frames = {}
  /\ TheEngine \notin Objects /\ NoFrame \notin Owners

VARIABLES
  rawEngine, \* "none", "live", "unshared" (about to be freed) or "freed"
  shares,    \* the Arc's count
  owner,     \* each owner: "absent", "live", "rawless" (freed its raw object) or "gone"
  rawObjects,\* the raw objects of programs and frames
  evaluation \* each thread's: what it borrows, and where it is
celVars == <<rawEngine, shares, owner, rawObjects, evaluation>>

Idle == [at |-> "idle", program |-> NoFrame, frame |-> NoFrame]
Borrowed == UNION {{evaluation[t].program, evaluation[t].frame} : t \in CelThreads}

----------------------------------------------------------------------------
CelInit ==
  /\ rawEngine = "none" /\ shares = 0 /\ owner = [o \in Owners |-> "absent"]
  /\ rawObjects = {} /\ evaluation = [t \in CelThreads |-> Idle]

\* Engine::new, and the library registered with it; a failure leaves nothing,
\* or an Engine to drop.
NewEngine ==
  /\ rawEngine = "none" /\ rawEngine' = "live" /\ shares' = 1
  /\ owner' = [owner EXCEPT ![TheEngine] = "live"]
  /\ UNCHANGED <<rawObjects, evaluation>>

\* Mutant: the object gets no share of the engine.
NewObjectUnshared(o) ==
  /\ owner[TheEngine] = "live" /\ owner[o] = "absent"
  /\ rawObjects' = rawObjects \cup {o}
  /\ owner' = [owner EXCEPT ![o] = "live"]
  /\ UNCHANGED <<rawEngine, shares, evaluation>>

\* compile and frame, when the shim returns an object: it gets a share.
NewObject(o) ==
  /\ owner[TheEngine] = "live" /\ owner[o] = "absent"
  /\ rawObjects' = rawObjects \cup {o} /\ shares' = shares + 1
  /\ owner' = [owner EXCEPT ![o] = "live"]
  /\ UNCHANGED <<rawEngine, evaluation>>

\* eval, on a frame or a scalar.
BeginEval(t) ==
  /\ evaluation[t].at = "idle"
  /\ \E p \in Programs, f \in Frames \cup {NoFrame} :
       /\ owner[p] = "live" /\ (f # NoFrame => owner[f] = "live")
       /\ evaluation' = [evaluation EXCEPT ![t] = [at |-> "shim", program |-> p, frame |-> f]]
  /\ UNCHANGED <<rawEngine, shares, owner, rawObjects>>

\* The shim calls a registered function, which answers, fails or panics; a
\* panic is caught and reported as a failure.
CallFunction(t) ==
  /\ evaluation[t].at = "shim"
  /\ evaluation' = [evaluation EXCEPT ![t].at = "function"]
  /\ UNCHANGED <<rawEngine, shares, owner, rawObjects>>

FunctionReturns(t) ==
  /\ evaluation[t].at = "function"
  /\ \E result \in {"shim", "failed"} : evaluation' = [evaluation EXCEPT ![t].at = result]
  /\ UNCHANGED <<rawEngine, shares, owner, rawObjects>>

EndEval(t) ==
  /\ evaluation[t].at \in {"shim", "failed"}
  /\ evaluation' = [evaluation EXCEPT ![t] = Idle]
  /\ UNCHANGED <<rawEngine, shares, owner, rawObjects>>

\* Drop of a Program or Frame: the raw object, then the share.
DropObject(o) ==
  /\ owner[o] = "live" /\ o \notin Borrowed
  /\ rawObjects' = rawObjects \ {o}
  /\ owner' = [owner EXCEPT ![o] = "rawless"]
  /\ UNCHANGED <<rawEngine, shares, evaluation>>

\* The Engine has nothing but its share to give up.
GivesUpShare(o) == owner[o] = IF o = TheEngine THEN "live" ELSE "rawless"
ReleaseShare(o) ==
  /\ GivesUpShare(o)
  /\ shares' = shares - 1 /\ owner' = [owner EXCEPT ![o] = "gone"]
  /\ rawEngine' = IF shares = 1 THEN "unshared" ELSE rawEngine
  /\ UNCHANGED <<rawObjects, evaluation>>

\* Drop of Shared, by the thread that gave up the last share.
FreeEngine ==
  /\ rawEngine = "unshared" /\ rawEngine' = "freed"
  /\ UNCHANGED <<shares, owner, rawObjects, evaluation>>

EvalStep(t) == BeginEval(t) \/ CallFunction(t) \/ FunctionReturns(t) \/ EndEval(t)
CelNext ==
  \/ NewEngine \/ FreeEngine
  \/ \E o \in Objects : NewObject(o) \/ DropObject(o)
  \/ \E o \in Owners : ReleaseShare(o)
  \/ \E t \in CelThreads : EvalStep(t)
CelSpec == CelInit /\ [][CelNext]_celVars

----------------------------------------------------------------------------
CelTypeOK ==
  /\ rawEngine \in {"none", "live", "unshared", "freed"} /\ shares \in Nat
  /\ owner \in [Owners -> {"absent", "live", "rawless", "gone"}]
  /\ rawObjects \subseteq Objects
  /\ evaluation \in [CelThreads ->
       [at : {"idle", "shim", "function", "failed"},
        program : Programs \cup {NoFrame}, frame : Frames \cup {NoFrame}]]

\* The raw engine is there as long as a raw object is, whichever thread drops
\* what last; an evaluation uses raw objects that are there; and the engine is
\* given up only after, and as soon as, every owner is gone: no share leaks.
EngineOutlives ==
  /\ rawObjects # {} => rawEngine = "live"
  /\ Borrowed \ {NoFrame} \subseteq rawObjects
  /\ rawEngine \in {"unshared", "freed"} <=>
       /\ owner[TheEngine] = "gone"
       /\ \A o \in Objects : owner[o] \in {"absent", "gone"}
=============================================================================
