-------------------------- MODULE MCStandardChecks --------------------------
(***************************************************************************)
(* Rules and values of StandardChecks, for TLC: every pair of bounds of a  *)
(* double, NaN among them; lists; instants before and after the epoch,     *)
(* with nanoseconds below and above a second's, and the least and the      *)
(* greatest their types hold; and a clock.                                 *)
(***************************************************************************)
EXTENDS StandardChecks, TLC

CONSTANTS nan, unset

NoBound == [field |-> "none", value |-> unset]
BoundsOf(names, S) == {NoBound} \cup [field : names, value : S]
Instant(s, n) == [seconds |-> s, nanos |-> n]
NumberRules(kind, consts, lowers, uppers, ins, notIns, finites, withins) ==
  [kind : {kind}, const : consts, lower : lowers, upper : uppers, in : ins, notIn : notIns,
   finite : finites, within : withins]
DoubleRules ==
  NumberRules("double", {unset}, BoundsOf({"gt", "gte"}, {0, 1, nan}),
              BoundsOf({"lt", "lte"}, {0, 1, nan}), {{}}, {{}}, BOOLEAN, {unset})
ListRules ==
  NumberRules("double", {unset, 1, nan}, {NoBound, [field |-> "gt", value |-> 0]}, {NoBound},
              {{}, {1, nan}}, {{}, {2, nan}}, {TRUE}, {unset})
TimestampRules ==
  NumberRules("timestamp", {unset},
              {NoBound, [field |-> "gt", value |-> Instant(0, 1)],
               [field |-> "gte", value |-> Instant(1, 2)],
               [field |-> "gte", value |-> Instant(3, 0)], [field |-> "gt_now", value |-> unset]},
              {NoBound, [field |-> "lt", value |-> Instant(0, 2)],
               [field |-> "lte", value |-> Instant(-2, 7)], [field |-> "lt_now", value |-> unset]},
              {{}}, {{}}, {FALSE}, {unset, Instant(0, 3)})
SomeRuleSets == [double |-> DoubleRules \cup ListRules, timestamp |-> TimestampRules]
SomeFieldValues ==
  [double |-> {-2, -1, 0, 1, 2, nan},
   timestamp |-> {Instant(s, n) : s \in {-3, 0, 1, 3}, n \in {-1, 1, 2}}
                 \cup {Instant(s, n) : s \in {-MaxSecond - 1, MaxSecond},
                                       n \in {-MaxNano - 1, MaxNano}}]
Infinities == {-2, 2}
Earliest == -12
==============================================================================
