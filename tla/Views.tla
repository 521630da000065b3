------------------------------- MODULE Views -------------------------------
(***************************************************************************)
(* The views through which one validation reads Python objects (view.rs).  *)
(* A view of a message keeps the field values it fetched in a buffer of    *)
(* cells, one for each field; a view of a list keeps a copy of the items.  *)
(* Dropped views leave their buffers to later views.  Meanwhile the        *)
(* program that asked for the validation may change the lists.             *)
(*                                                                         *)
(* A cell holds where its value was fetched from, an object and a slot, so *)
(* that a value left behind by another view can be told.                   *)
(***************************************************************************)
EXTENDS Naturals, FiniteSets, Sequences, SequencesExt

CONSTANTS
  Messages,   \* the message objects
  FieldCount, \* FieldCount[m]: how many fields the type of m has
  PyLists,    \* the list objects
  MaxItems,   \* a list object never has more items than this
  Nothing,    \* a protobuf-py message field that is not set, or an unset list
  ViewIds,    \* the views that may be open at a time
  NoView, NoBuffer,
  Buffers,    \* the buffers there may be
  Empty       \* a cell nothing was fetched into

ASSUME ObjectsAssumption ==
  /\ FieldCount \in [Messages -> Nat] /\ MaxItems \in Nat
  /\ Nothing \notin Messages \cup PyLists /\ Messages \cap PyLists = {}
ASSUME ViewsAssumption ==
  /\ NoView \notin ViewIds /\ NoBuffer \notin Buffers
  /\ Empty \notin (Messages \cup PyLists) \X Nat

VARIABLES
  lengths,       \* how many items each list object has
  view,       \* the views: what each one is open on, in which buffer
  cells,      \* what is in each buffer
  grown,      \* the element buffers that held an item, and so have memory
  freeValues, \* the value buffers that dropped message views returned
  freeItems,  \* the element buffers that dropped list views returned
  peak        \* (ghost) the most buffers that were in use at a time
viewVars == <<lengths, view, cells, grown, freeValues, freeItems, peak>>

----------------------------------------------------------------------------
Slots(m) == 1..FieldCount[m]
CellsNeeded(m) == IF m = Nothing THEN 0 ELSE FieldCount[m]
Closed == [open |-> FALSE, parent |-> NoView, object |-> Nothing, buffer |-> NoBuffer]
IsOpen(v) == view[v].open

InUse(viewing) == {v \in ViewIds : viewing[v].buffer # NoBuffer}
Free == ToSet(freeValues) \cup ToSet(freeItems)
Unallocated == Buffers \ (Free \cup {view[v].buffer : v \in InUse(view)})
NewBuffer == CHOOSE b \in Unallocated : TRUE

Higher(a, b) == IF a < b THEN b ELSE a
CountsPeak == peak' = Higher(peak, Cardinality(InUse(view')))

\* Views are values on the stack: a view outlives those read from it.
Parents == {NoView} \cup {v \in ViewIds : IsOpen(v)}
Opened(v, p, o, b) ==
  view' = [view EXCEPT ![v] = [open |-> TRUE, parent |-> p, object |-> o, buffer |-> b]]

----------------------------------------------------------------------------
ViewsInit ==
  /\ lengths \in [PyLists -> 0..MaxItems]
  /\ view = [v \in ViewIds |-> Closed] /\ cells = [b \in Buffers |-> <<>>]
  /\ grown = {} /\ freeValues = <<>> /\ freeItems = <<>> /\ peak = 0

\* A view of a message with no field, or of one that is not set, needs no buffer.
OpenBare(v, p, o) ==
  /\ Opened(v, p, o, NoBuffer)
  /\ UNCHANGED <<lengths, cells, grown, freeValues, freeItems, peak>>

\* take_values: a returned buffer with at least n cells, the last such one.
\* Mutant: a buffer that just fits is not reused.
LongerThan(n) == {i \in DOMAIN freeValues : Len(cells[freeValues[i]]) > n}
LongEnough(n) == {i \in DOMAIN freeValues : Len(cells[freeValues[i]]) >= n}
LastOf(indices) == {i \in indices : \A j \in indices : j <= i}
SwapRemove(s, i) ==
  IF i = Len(s) THEN Front(s) ELSE [Front(s) EXCEPT ![i] = Last(s)]

\* Mutant: the buffer that is taken stays free.
OpenReusingShared(v, p, m) ==
  /\ \E i \in LastOf(LongEnough(FieldCount[m])) : Opened(v, p, m, freeValues[i])
  /\ CountsPeak
  /\ UNCHANGED <<lengths, cells, grown, freeValues, freeItems>>

OpenReusing(v, p, m) ==
  /\ \E i \in LastOf(LongEnough(FieldCount[m])) :
       /\ Opened(v, p, m, freeValues[i])
       /\ freeValues' = SwapRemove(freeValues, i)
  /\ CountsPeak
  /\ UNCHANGED <<lengths, cells, grown, freeItems>>

OpenAllocating(v, p, m) ==
  /\ LongEnough(FieldCount[m]) = {} /\ Unallocated # {}
  /\ cells' = [cells EXCEPT ![NewBuffer] = [i \in Slots(m) |-> Empty]]
  /\ Opened(v, p, m, NewBuffer)
  /\ CountsPeak
  /\ UNCHANGED <<lengths, grown, freeValues, freeItems>>

OpenMessage(v) ==
  \E p \in Parents, m \in Messages \cup {Nothing} :
    /\ ~IsOpen(v)
    /\ IF CellsNeeded(m) = 0 THEN OpenBare(v, p, m)
       ELSE OpenReusing(v, p, m) \/ OpenAllocating(v, p, m)

\* A list's items are not read before one is asked for.
OpenList(v) ==
  \E p \in Parents, l \in PyLists \cup {Nothing} : ~IsOpen(v) /\ OpenBare(v, p, l)

\* The field's value, fetched unless this view has fetched it before.
ReadField(v) ==
  /\ view[v].object \in Messages
  /\ \E slot \in Slots(view[v].object) :
       /\ cells[view[v].buffer][slot] = Empty
       /\ cells' = [cells EXCEPT ![view[v].buffer][slot] = <<view[v].object, slot>>]
  /\ UNCHANGED <<lengths, view, grown, freeValues, freeItems, peak>>

\* The first read of an item appends all of them to a buffer.
ItemsUnread(v) == view[v].object \in PyLists /\ view[v].buffer = NoBuffer
AppendItems(v, b) ==
  LET l == view[v].object
  IN /\ cells' = [cells EXCEPT ![b] = @ \o [i \in 1..lengths[l] |-> <<l, i>>]]
     /\ view' = [view EXCEPT ![v].buffer = b]
     /\ grown' = IF lengths[l] > 0 THEN grown \cup {b} ELSE grown

ReadItemsReusing(v) ==
  /\ ItemsUnread(v) /\ freeItems # <<>>
  /\ AppendItems(v, Last(freeItems)) /\ freeItems' = Front(freeItems)
  /\ CountsPeak
  /\ UNCHANGED <<lengths, freeValues>>

ReadItemsAllocating(v) ==
  /\ ItemsUnread(v) /\ freeItems = <<>> /\ Unallocated # {}
  /\ AppendItems(v, NewBuffer)
  /\ CountsPeak
  /\ UNCHANGED <<lengths, freeValues, freeItems>>

\* Reading the items may raise: the buffer taken for them is gone with them.
ReadItemsFails(v) ==
  /\ ItemsUnread(v) /\ freeItems # <<>>
  /\ freeItems' = Front(freeItems) /\ grown' = grown \ {Last(freeItems)}
  /\ UNCHANGED <<lengths, view, cells, freeValues, peak>>

\* Drop: the buffer is emptied and returned.
Closing(v) ==
  /\ IsOpen(v) /\ \A w \in ViewIds : IsOpen(w) => view[w].parent # v
  /\ view' = [view EXCEPT ![v] = Closed]
\* Mutant: a buffer is returned with what is in it.
EmptiedNot(b) == cells[b]
Emptied(b) == [i \in DOMAIN cells[b] |-> Empty]

CloseBare(v) ==
  /\ Closing(v) /\ view[v].buffer = NoBuffer
  /\ UNCHANGED <<lengths, cells, grown, freeValues, freeItems, peak>>

CloseMessage(v) ==
  /\ Closing(v) /\ view[v].object \in Messages /\ view[v].buffer # NoBuffer
  /\ cells' = [cells EXCEPT ![view[v].buffer] = Emptied(view[v].buffer)]
  /\ freeValues' = Append(freeValues, view[v].buffer)
  /\ UNCHANGED <<lengths, grown, freeItems, peak>>

\* A buffer without memory is not worth keeping.
CloseList(v) ==
  /\ Closing(v) /\ view[v].object \in PyLists /\ view[v].buffer # NoBuffer
  /\ cells' = [cells EXCEPT ![view[v].buffer] = <<>>]
  /\ freeItems' = IF view[v].buffer \in grown THEN Append(freeItems, view[v].buffer) ELSE freeItems
  /\ UNCHANGED <<lengths, grown, freeValues, peak>>

\* Another thread, or Python code run by a read, changes a list.
Resize ==
  /\ \E l \in PyLists, n \in 0..MaxItems : lengths' = [lengths EXCEPT ![l] = n]
  /\ UNCHANGED <<view, cells, grown, freeValues, freeItems, peak>>

ViewStep(v) ==
  \/ OpenMessage(v) \/ OpenList(v) \/ ReadField(v)
  \/ ReadItemsReusing(v) \/ ReadItemsAllocating(v) \/ ReadItemsFails(v)
  \/ CloseBare(v) \/ CloseMessage(v) \/ CloseList(v)
ViewsNext == Resize \/ \E v \in ViewIds : ViewStep(v)
ViewsSpec == ViewsInit /\ [][ViewsNext]_viewVars

----------------------------------------------------------------------------
CellsOf(v) == cells[view[v].buffer]
ValueBuffers ==
  ToSet(freeValues) \cup {view[v].buffer : v \in {w \in InUse(view) : view[w].object \in Messages}}

\* A buffer is never used by two views, nor free while a view reads from it,
\* nor free twice.
NeverShared ==
  /\ \A v, w \in InUse(view) : view[v].buffer = view[w].buffer => v = w
  /\ \A v \in InUse(view) : view[v].buffer \notin Free
  /\ IsInjective(freeValues \o freeItems)

\* What a view reads was fetched from its own object: a message's field from
\* the field's own cell, of which there are enough, and a list's items one by
\* one, although its buffer held another object's values before.
OwnValues ==
  \A v \in InUse(view) :
    IF view[v].object \in Messages
    THEN \A s \in Slots(view[v].object) :
           s \in DOMAIN CellsOf(v) /\ CellsOf(v)[s] \in {Empty, <<view[v].object, s>>}
    ELSE \A i \in DOMAIN CellsOf(v) : CellsOf(v)[i] = <<view[v].object, i>>

\* However many messages a validation visits, it has no more buffers of one
\* length than were once in use together.
PoolBounded ==
  /\ \A b \in ValueBuffers :
       Cardinality({c \in ValueBuffers : Len(cells[c]) = Len(cells[b])}) <= peak
  /\ Len(freeItems) <= peak
=============================================================================
