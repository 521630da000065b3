----------------------------- MODULE Duplicates -----------------------------
(***************************************************************************)
(* The `repeated.unique' rule: has_duplicates of rules/standard/mod.rs on  *)
(* the items of a list (rules/eval.rs).  The first keys are compared in    *)
(* pairs in a window of Pairwise slots; the first key the window has no    *)
(* room for moves the search to a hash set.                                *)
(***************************************************************************)
EXTENDS Naturals, Sequences, SequencesExt

CONSTANTS
  Items,       \* what a list may hold
  ItemLists,       \* the lists considered, sequences of items
  NotANumber,  \* the item NaN
  MinusZero, PlusZero, \* the two zeros
  NoScalar,    \* an item without a scalar value
  NoKey,       \* what such an item, and NaN, have for a key
  Pairwise     \* PAIRWISE_KEYS, 16 in the code

ASSUME PairwiseAssumption == Pairwise \in Nat \ {0}
ASSUME ListsAssumption == ItemLists \subseteq Seq(Items)
ASSUME ItemsAssumption ==
  /\ NoKey \notin Items /\ {NotANumber, MinusZero, PlusZero, NoScalar} \subseteq Items
  /\ NotANumber \notin {MinusZero, PlusZero, NoScalar}
  /\ NoScalar \notin {MinusZero, PlusZero} /\ MinusZero # PlusZero

VARIABLES
  items,    \* the list searched
  position, \* the items taken from it
  window,   \* `first': the keys seen while they are compared in pairs
  seen,     \* the hash set
  search    \* "pairs", "hashes", or the answer: "duplicate", "unique"
dupVars == <<items, position, window, seen, search>>

\* unique_key: NaN and what is not a scalar have none, the zeros share one.
KeyOf(item) ==
  IF item \in {NotANumber, NoScalar} THEN NoKey
  ELSE IF item = MinusZero THEN PlusZero ELSE item

\* The next item, and its key.
More == position < Len(items)
Key == KeyOf(items[position + 1])

DupInit ==
  /\ items \in ItemLists
  /\ position = 0 /\ window = <<>> /\ seen = {} /\ search = "pairs"

\* `flatten' drops the items without a key.
SkipItem ==
  /\ search \in {"pairs", "hashes"} /\ More /\ Key = NoKey
  /\ position' = position + 1
  /\ UNCHANGED <<items, window, seen, search>>

\* Mutant: the key the window has no room for is not handed over.
ComparePairsLosing ==
  /\ search = "pairs" /\ More /\ Key # NoKey
  /\ position' = position + 1
  /\ \/ /\ Key \in ToSet(window)
        /\ search' = "duplicate" /\ UNCHANGED <<window, seen>>
     \/ /\ Key \notin ToSet(window) /\ Len(window) < Pairwise
        /\ window' = Append(window, Key) /\ UNCHANGED <<seen, search>>
     \/ /\ Key \notin ToSet(window) /\ Len(window) = Pairwise
        /\ search' = "hashes" /\ window' = <<>>
        /\ seen' = ToSet(window)
  /\ UNCHANGED items

ComparePairs ==
  /\ search = "pairs" /\ More /\ Key # NoKey
  /\ position' = position + 1
  /\ \/ /\ Key \in ToSet(window)
        /\ search' = "duplicate" /\ UNCHANGED <<window, seen>>
     \/ /\ Key \notin ToSet(window) /\ Len(window) < Pairwise
        /\ window' = Append(window, Key) /\ UNCHANGED <<seen, search>>
     \/ /\ Key \notin ToSet(window) /\ Len(window) = Pairwise
        /\ search' = "hashes" /\ window' = <<>>
        /\ seen' = ToSet(window) \cup {Key}
  /\ UNCHANGED items

CompareHashes ==
  /\ search = "hashes" /\ More /\ Key # NoKey
  /\ position' = position + 1
  /\ search' = IF Key \in seen THEN "duplicate" ELSE "hashes"
  /\ seen' = seen \cup {Key}
  /\ UNCHANGED <<items, window>>

EndOfItems ==
  /\ search \in {"pairs", "hashes"} /\ ~More /\ search' = "unique"
  /\ UNCHANGED <<items, position, window, seen>>

DupNext == SkipItem \/ ComparePairs \/ CompareHashes \/ EndOfItems
DupSpec == DupInit /\ [][DupNext]_dupVars

----------------------------------------------------------------------------
DupTypeOK ==
  /\ items \in Seq(Items) /\ position \in 0..Len(items)
  /\ window \in Seq(Items) /\ Len(window) <= Pairwise /\ seen \subseteq Items
  /\ search \in {"pairs", "hashes", "duplicate", "unique"}

\* CEL's `unique()': two items are the same value of the same type; NaN is
\* never equal to anything, the zeros are equal to each other.
SameItem(x, y) ==
  /\ x \notin {NotANumber, NoScalar} /\ y \notin {NotANumber, NoScalar}
  /\ x = y \/ {x, y} = {MinusZero, PlusZero}
HasPair(n) == \E i, j \in 1..n : i < j /\ SameItem(items[i], items[j])

\* However long the list, and wherever in it the two items are, the search
\* answers "duplicate" exactly when two items are equal: none is lost when the
\* window is handed over to the hash set.
FindsDuplicates ==
  /\ search = "duplicate" => HasPair(Len(items))
  /\ search = "unique" => ~HasPair(Len(items))
=============================================================================
