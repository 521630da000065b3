------------------------------ MODULE RuleBook ------------------------------
(***************************************************************************)
(* What validator.rs promises of its cache, whatever threads compile at    *)
(* once: a book of validators.  An entry is written once and never changes *)
(* or goes; a step writes a set of entries together, and leaves the book   *)
(* complete: every type that a field of an entered type holds is entered.  *)
(* A field is marked as embedding a failure exactly if the type it nests   *)
(* is entered as a failure.                                                *)
(***************************************************************************)
CONSTANTS Types, NoType, Fields, Owner, Value, ItemsIgnored

VARIABLE book

Nests(f) == IF f \in ItemsIgnored THEN NoType ELSE Value[f]

Complete(b) ==
  \A f \in Fields : Owner[f] \in DOMAIN b /\ Value[f] # NoType => Value[f] \in DOMAIN b

Marked(b) ==
  \A f \in Fields : Owner[f] \in DOMAIN b /\ Nests(f) # NoType =>
    LET e == b[Owner[f]].fields[f] IN
      IF b[Nests(f)].ok THEN e # "embedded" ELSE e # "ok"

Init == DOMAIN book = {}

Write ==
  /\ DOMAIN book \subseteq DOMAIN book' /\ DOMAIN book' \subseteq Types
  /\ \A m \in DOMAIN book : book'[m] = book[m]
  /\ Complete(book') /\ Marked(book')

Spec == Init /\ [][Write]_book
=============================================================================
