--------------------------- MODULE StandardChecks ---------------------------
(***************************************************************************)
(* The comparison rules of a numeric, duration or timestamp field, built   *)
(* once into checks (rules/standard/build/mod.rs) and run one by one       *)
(* against a field's value (rules/standard/mod.rs, with the reads of       *)
(* rules/eval.rs).  validate.proto states each rule as a CEL expression;   *)
(* the checks must report what those expressions would.  The expressions   *)
(* are in CelFails, outside the code; everything else is the code.         *)
(*                                                                         *)
(* An instant or a duration is a record of seconds and nanos; the clock    *)
(* is in nanoseconds.  A double that is not a number is the value NaN.     *)
(* `lt_now: false' and `gt_now: false' are the same as nothing set.        *)
(***************************************************************************)
EXTENDS Integers, Sequences, SequencesExt

CONSTANTS
  RuleSets,   \* RuleSets[kind]: the rules messages considered
  FieldValues,\* FieldValues[kind]: the values a field of that kind holds
  NaN,        \* the double that is not a number
  Unset,      \* an optional rule that is not set
  Infinite,   \* the numbers that stand for the two infinities
  PerSecond,  \* nanoseconds in a second
  MaxSecond,  \* the type of seconds holds -MaxSecond - 1 .. MaxSecond
  MaxNano,    \* the type of nanoseconds holds -MaxNano - 1 .. MaxNano
  Wide,       \* the type of total nanoseconds holds -Wide .. Wide - 1
  MinTime, MaxTime, \* the range a Timestamp allows, in nanoseconds
  ClockReadings     \* the nanoseconds a clock may show

\* The type of total nanoseconds is wide enough for any seconds and nanoseconds
\* of theirs, whatever their signs, as 128 bits are for 64 and 32.
ASSUME WidthAssumption ==
  /\ PerSecond \in Nat \ {0} /\ Wide \in Nat /\ MaxSecond \in Nat /\ MaxNano \in Nat
  /\ (MaxSecond + 1) * PerSecond + MaxNano + 1 <= Wide
ASSUME ClockAssumption == ClockReadings \subseteq Int

VARIABLES ruleset, fieldValue, checkPhase, pending, reported, clock, began
checkVars == <<ruleset, fieldValue, checkPhase, pending, reported, clock, began>>

----------------------------------------------------------------------------
(* Values.  Comparisons with NaN are false, as those of a double are. *)

Less(a, b) == a # NaN /\ b # NaN /\ a < b
LessEq(a, b) == a # NaN /\ b # NaN /\ a <= b

Wrap(n) == ((n + Wide) % (2 * Wide)) - Wide

\* Mutant: in the type of the seconds.
TotalNanosNarrow(t) ==
  ((t.seconds * PerSecond + t.nanos + MaxSecond + 1) % (2 * (MaxSecond + 1))) - (MaxSecond + 1)
TotalNanos(t) == Wrap(t.seconds * PerSecond + t.nanos)

\* The value in the type it is compared in.
Compared(kind, v) == IF kind \in {"duration", "timestamp"} THEN TotalNanos(v) ELSE v

----------------------------------------------------------------------------
(* Building the checks. *)

Check(id, op, arg) == [id |-> id, op |-> op, arg |-> arg]
When(condition, check) == IF condition THEN <<check>> ELSE <<>>

\* The bounds set in the two oneofs; lt_now and gt_now are not bounds.
HasUpper(r) == r.upper.field \in {"lt", "lte"}
HasLower(r) == r.lower.field \in {"gt", "gte"}
Side(kind, bound) ==
  [value |-> Compared(kind, bound.value), inclusive |-> bound.field \in {"lte", "gte"}]

\* Mutant: two equal bounds count as crossed.
BoundChecksStrict(r) ==
  LET lo == Side(r.kind, r.lower)
      hi == Side(r.kind, r.upper)
      both == [lower |-> lo, upper |-> hi]
  IN CASE HasLower(r) /\ ~HasUpper(r) -> <<Check(<<r.lower.field>>, "lower", [lower |-> lo])>>
       [] HasUpper(r) /\ ~HasLower(r) -> <<Check(<<r.upper.field>>, "upper", [upper |-> hi])>>
       [] HasLower(r) /\ HasUpper(r) ->
            When(Less(lo.value, hi.value),
                 Check(<<r.lower.field, r.upper.field>>, "inside", both))
            \o When(LessEq(hi.value, lo.value),
                 Check(<<r.lower.field, r.upper.field, "exclusive">>, "outside", both))
       [] OTHER -> <<>>

\* A lone bound is checked alone.  Two make one check on the lower: the values
\* between them, or outside them if they are crossed, nothing if they do not order.
BoundChecks(r) ==
  LET lo == Side(r.kind, r.lower)
      hi == Side(r.kind, r.upper)
      both == [lower |-> lo, upper |-> hi]
  IN CASE HasLower(r) /\ ~HasUpper(r) -> <<Check(<<r.lower.field>>, "lower", [lower |-> lo])>>
       [] HasUpper(r) /\ ~HasLower(r) -> <<Check(<<r.upper.field>>, "upper", [upper |-> hi])>>
       [] HasLower(r) /\ HasUpper(r) ->
            When(LessEq(lo.value, hi.value),
                 Check(<<r.lower.field, r.upper.field>>, "inside", both))
            \o When(Less(hi.value, lo.value),
                 Check(<<r.lower.field, r.upper.field, "exclusive">>, "outside", both))
       [] OTHER -> <<>>

ComparisonChecks(r) ==
  When(r.const # Unset, Check(<<"const">>, "const", Compared(r.kind, r.const)))
  \o BoundChecks(r)
  \o When(r.in # {}, Check(<<"in">>, "in", {Compared(r.kind, v) : v \in r.in}))
  \o When(r.notIn # {}, Check(<<"not_in">>, "not_in", {Compared(r.kind, v) : v \in r.notIn}))

\* `finite' follows the comparisons of a double, the clock rules those of a timestamp.
FiniteChecks(r) == When(r.finite, Check(<<"finite">>, "finite", Infinite))
NowChecks(r) ==
  When(r.upper.field = "lt_now", Check(<<"lt_now">>, "lt_now", 0))
  \o When(r.lower.field = "gt_now", Check(<<"gt_now">>, "gt_now", 0))
  \o When(r.within # Unset, Check(<<"within">>, "within", TotalNanos(r.within)))

ChecksOf(r) == ComparisonChecks(r) \o FiniteChecks(r) \o NowChecks(r)

\* What the fields of a kind hold: a number, or any time its two types can hold.
Times == [seconds : (-MaxSecond - 1)..MaxSecond, nanos : (-MaxNano - 1)..MaxNano]
ValuesOf(kind) == IF kind \in {"duration", "timestamp"} THEN Times ELSE Int \cup {NaN}

\* The rules messages of a kind: a bound that is set has a value, and only
\* those of a timestamp have rules about the time it is.
RulesOf(kind) ==
  LET bound(names) == [field : names \cup {"none"}, value : ValuesOf(kind) \cup {Unset}]
  IN {r \in [kind : {kind}, const : ValuesOf(kind) \cup {Unset},
             lower : bound({"gt", "gte", "gt_now"}), upper : bound({"lt", "lte", "lt_now"}),
             in : SUBSET ValuesOf(kind), notIn : SUBSET ValuesOf(kind), finite : BOOLEAN,
             within : ValuesOf("duration") \cup {Unset}] :
        /\ HasUpper(r) => r.upper.value # Unset
        /\ HasLower(r) => r.lower.value # Unset
        /\ r.kind # "timestamp" =>
             r.upper.field # "lt_now" /\ r.lower.field # "gt_now" /\ r.within = Unset}

ASSUME NumberAssumption == NaN \notin Int
ASSUME BoundRulesAssumption ==
  /\ \A kind \in DOMAIN RuleSets : \A r \in RuleSets[kind] : r \in RulesOf(kind)
  /\ \A kind \in DOMAIN RuleSets : \A v \in FieldValues[kind] : v \in ValuesOf(kind)

\* The instants of a timestamp rules message must be ones a Timestamp allows.
CheckedInstants(r) ==
  {r.const} \cup (IF HasUpper(r) THEN {r.upper.value} ELSE {})
            \cup (IF HasLower(r) THEN {r.lower.value} ELSE {})
InRange(t) == t.nanos \in 0..(PerSecond - 1) /\ TotalNanos(t) \in MinTime..MaxTime
Accepted(r) == r.kind = "timestamp" => \A t \in CheckedInstants(r) \ {Unset} : InRange(t)

----------------------------------------------------------------------------
(* What a check tests. *)

TooHigh(side, v) == IF side.inclusive THEN Less(side.value, v) ELSE LessEq(side.value, v)
TooLow(side, v) == IF side.inclusive THEN Less(v, side.value) ELSE LessEq(v, side.value)

OrderedFails(c, v, now) ==
  CASE c.op = "const" -> v # c.arg
    [] c.op = "lower" -> TooLow(c.arg.lower, v)
    [] c.op = "upper" -> TooHigh(c.arg.upper, v)
    [] c.op = "inside" -> TooHigh(c.arg.upper, v) \/ TooLow(c.arg.lower, v)
    [] c.op = "outside" -> TooHigh(c.arg.upper, v) /\ TooLow(c.arg.lower, v)
    [] c.op = "in" -> v \notin c.arg
    [] c.op = "not_in" -> v \in c.arg
    [] c.op = "finite" -> v \in c.arg
    [] c.op = "lt_now" -> now < v
    [] c.op = "gt_now" -> v < now
    [] c.op = "within" -> v < now - c.arg \/ now + c.arg < v

\* A value that is not a number fails every check but `not_in'.
Fails(c, v, now) == IF v = NaN THEN c.op # "not_in" ELSE OrderedFails(c, v, now)

----------------------------------------------------------------------------
(* One field's rules built, and one value checked. *)

ChecksInit ==
  /\ \E kind \in DOMAIN RuleSets :
       ruleset \in RuleSets[kind] /\ fieldValue \in FieldValues[kind]
  /\ checkPhase = "build" /\ pending = <<>> /\ reported = <<>>
  /\ clock \in ClockReadings /\ began = clock

BuildChecks ==
  /\ checkPhase = "build"
  /\ IF Accepted(ruleset)
     THEN checkPhase' = "run" /\ pending' = ChecksOf(ruleset)
     ELSE checkPhase' = "rejected" /\ UNCHANGED pending
  /\ began' = clock
  /\ UNCHANGED <<ruleset, fieldValue, reported, clock>>

\* Each check that asks for the time reads the clock itself.
RunCheck ==
  /\ checkPhase = "run" /\ pending # <<>>
  /\ reported' = IF Fails(Head(pending), Compared(ruleset.kind, fieldValue), clock)
                 THEN Append(reported, Head(pending).id) ELSE reported
  /\ pending' = Tail(pending)
  /\ UNCHANGED <<ruleset, fieldValue, checkPhase, clock, began>>

FinishChecks ==
  /\ checkPhase = "run" /\ pending = <<>> /\ checkPhase' = "done"
  /\ UNCHANGED <<ruleset, fieldValue, pending, reported, clock, began>>

\* Time passes while the checks run.
ClockTicks ==
  /\ checkPhase = "run"
  /\ \E now \in ClockReadings : clock < now /\ clock' = now
  /\ UNCHANGED <<ruleset, fieldValue, checkPhase, pending, reported, began>>

ChecksNext == BuildChecks \/ RunCheck \/ FinishChecks \/ ClockTicks
ChecksSpec == ChecksInit /\ [][ChecksNext]_checkVars

----------------------------------------------------------------------------
(* The rules as validate.proto states them.  Exact(kind, v) is the value   *)
(* as CEL compares it, without a width.                                    *)

Exact(kind, v) ==
  IF kind \in {"duration", "timestamp"} THEN v.seconds * PerSecond + v.nanos ELSE v

CelBound(r, v, id) ==
  LET up == Exact(r.kind, r.upper.value)
      low == Exact(r.kind, r.lower.value)
      high == IF r.upper.field = "lt" THEN LessEq(up, v) ELSE Less(up, v)
      tooLow == IF r.lower.field = "gt" THEN LessEq(v, low) ELSE Less(v, low)
  IN \/ HasUpper(r) /\ ~HasLower(r) /\ id = <<r.upper.field>> /\ (v = NaN \/ high)
     \/ HasLower(r) /\ ~HasUpper(r) /\ id = <<r.lower.field>> /\ (v = NaN \/ tooLow)
     \/ /\ HasLower(r) /\ HasUpper(r) /\ LessEq(low, up)
        /\ id = <<r.lower.field, r.upper.field>>
        /\ v = NaN \/ high \/ tooLow
     \/ /\ HasLower(r) /\ HasUpper(r) /\ Less(up, low)
        /\ id = <<r.lower.field, r.upper.field, "exclusive">>
        /\ v = NaN \/ (high /\ tooLow)

\* `in' is CEL's: a list never holds NaN, whatever is in it.
CelIn(kind, v, list) == v # NaN /\ \E w \in list : v = Exact(kind, w)

CelFails(id, r, v, now) ==
  \/ id = <<"const">> /\ r.const # Unset /\ (v = NaN \/ v # Exact(r.kind, r.const))
  \/ CelBound(r, v, id)
  \/ id = <<"in">> /\ r.in # {} /\ ~CelIn(r.kind, v, r.in)
  \/ id = <<"not_in">> /\ CelIn(r.kind, v, r.notIn)
  \/ id = <<"finite">> /\ r.finite /\ (v = NaN \/ v \in Infinite)
  \/ id = <<"lt_now">> /\ r.upper.field = "lt_now" /\ now < v
  \/ id = <<"gt_now">> /\ r.lower.field = "gt_now" /\ v < now
  \/ /\ id = <<"within">> /\ r.within # Unset
     /\ LET d == Exact("duration", r.within) IN v < now - d \/ now + d < v

\* The order validate.proto declares the rule fields in.
DeclaredFields ==
  <<"const", "lt", "lte", "lt_now", "gt", "gte", "gt_now", "in", "not_in", "finite", "within">>
Ids == {<<f>> : f \in ToSet(DeclaredFields)}
       \cup {<<lo, hi>> : lo \in {"gt", "gte"}, hi \in {"lt", "lte"}}
       \cup {<<lo, hi, "exclusive">> : lo \in {"gt", "gte"}, hi \in {"lt", "lte"}}
Declared(id) == CHOOSE i \in 1..Len(DeclaredFields) : DeclaredFields[i] = id[1]

----------------------------------------------------------------------------
\* A rules message whose checks ran reports, each once, the rule ids that the
\* CEL expressions of validate.proto report for the value: a clock rule as it
\* was at some instant between the first check and the last (crossed and
\* unordered bounds, NaN, totals of nanoseconds that seconds' width cannot hold).
AgreesWithCel ==
  checkPhase = "done" =>
    LET v == Exact(ruleset.kind, fieldValue)
        instants == {n \in ClockReadings : began <= n /\ n <= clock}
    IN /\ IsInjective(reported)
       /\ \A id \in Ids :
            IF id \in ToSet(reported)
            THEN \E n \in instants : CelFails(id, ruleset, v, n)
            ELSE \E n \in instants : ~CelFails(id, ruleset, v, n)

\* standard/mod.rs:22-23: the checks "run in the same order" as the CEL
\* expressions, which is the order validate.proto declares the rules in.
InDeclaredOrder ==
  \A i, j \in DOMAIN reported : i < j => Declared(reported[i]) < Declared(reported[j])
============================================================================
