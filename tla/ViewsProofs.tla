----------------------------- MODULE ViewsProofs -----------------------------
(***************************************************************************)
(* Proofs about Views, for any objects, views and buffers.  Every buffer   *)
(* is in one place: free, used by one view, or neither.  Between uses it   *)
(* is clean: a free value buffer has nothing but empty cells, and one that *)
(* is not in use otherwise has no cell.  And of one length there are no    *)
(* more than were in use at one time.                                      *)
(*                                                                         *)
(* Then about Duplicates, which searches the items of a list that a view   *)
(* reads, for lists of any length and a window of any size: both ways to   *)
(* search keep the keys of the items behind them, which hold no two equal  *)
(* items yet.                                                              *)
(*                                                                         *)
(* Then about CelLifetime, for any finite numbers of programs and frames   *)
(* and any threads.  The count of shares is the number of owners that hold *)
(* one; when the last is given up there is no owner left, and an owner     *)
(* whose raw object is there still holds its share.                        *)
(*                                                                         *)
(* Last about FieldReads, what is read through a view of one field, for    *)
(* any shapes of fields, contents, lengths and number of changes.          *)
(* ReadsInv holds whatever other threads do: what is judged of the field   *)
(* is judged of one binding, and what is judged of the items comes after   *)
(* it, from one copy.  QuietInv says in addition how far a validation has  *)
(* come of a message that nothing changes: its judgements are the first of *)
(* those that validate.proto asks for.                                     *)
(***************************************************************************)
EXTENDS Views, Duplicates, CelLifetime, FieldReads,
        SequenceTheorems, FiniteSetTheorems, WellFoundedInduction, TLAPS

Cell == {Empty} \cup ((Messages \cup PyLists) \X Nat)
ViewRecords ==
  [open : BOOLEAN, parent : ViewIds \cup {NoView},
   object : Messages \cup PyLists \cup {Nothing}, buffer : Buffers \cup {NoBuffer}]

FreeLists ==
  /\ freeValues \in Seq(Buffers) /\ freeItems \in Seq(Buffers)
  /\ IsInjective(freeValues) /\ IsInjective(freeItems)
  /\ ToSet(freeValues) \cap ToSet(freeItems) = {}

ViewsTypeOK ==
  /\ lengths \in [PyLists -> 0..MaxItems] /\ view \in [ViewIds -> ViewRecords]
  /\ cells \in [Buffers -> Seq(Cell)]
  /\ \A v \in ViewIds : ~view[v].open => view[v].object = Nothing

\* A buffer has one view, which is open on the object that it has values of.
OneUse ==
  /\ \A v, w \in ViewIds : view[v].buffer # NoBuffer /\ view[v].buffer = view[w].buffer => v = w
  /\ \A v \in ViewIds : view[v].buffer # NoBuffer =>
       /\ view[v].buffer \notin ToSet(freeValues) \cup ToSet(freeItems)
       /\ view[v].open /\ view[v].object \in Messages \cup PyLists

Used(b) == \E v \in ViewIds : view[v].buffer = b
Clean ==
  \A b \in Buffers :
    /\ b \in ToSet(freeValues) => \A i \in DOMAIN cells[b] : cells[b][i] = Empty
    /\ b \notin ToSet(freeValues) /\ ~Used(b) => cells[b] = <<>>

\* The cells c hold values of object o, and are enough.
Holds(c, o) ==
  /\ o \in Messages => \A s \in Slots(o) : s \in DOMAIN c /\ c[s] \in {Empty, <<o, s>>}
  /\ o \in PyLists => \A i \in DOMAIN c : c[i] = <<o, i>>
OwnCells ==
  \A v \in ViewIds : view[v].buffer # NoBuffer => Holds(cells[view[v].buffer], view[v].object)

ViewsInv == ViewsTypeOK /\ FreeLists /\ OneUse /\ Clean /\ OwnCells

----------------------------------------------------------------------------
(* Lists of free buffers. *)

LEMMA Returned ==
  ASSUME NEW s \in Seq(Buffers), IsInjective(s), NEW b \in Buffers, b \notin ToSet(s)
  PROVE  /\ Append(s, b) \in Seq(Buffers) /\ IsInjective(Append(s, b))
         /\ ToSet(Append(s, b)) = ToSet(s) \cup {b}
<1> DEFINE n == Len(s)
           t == Append(s, b)
<1>1. /\ n \in Nat /\ DOMAIN s = 1..n /\ t \in Seq(Buffers) /\ DOMAIN t = 1..(n + 1)
      /\ t[n + 1] = b /\ \A i \in 1..n : t[i] = s[i] /\ s[i] \in ToSet(s)
  BY DEF ToSet
<1> HIDE DEF n, t
<1>2. ASSUME NEW i \in DOMAIN t, NEW j \in DOMAIN t, t[i] = t[j] PROVE i = j
  <2>1. CASE i \in 1..n /\ j \in 1..n
    BY <1>1, <1>2, <2>1 DEF IsInjective
  <2>2. CASE i = n + 1 \/ j = n + 1
    BY <1>1, <1>2, <2>2
  <2>3. QED
    BY <1>1, <2>1, <2>2
<1>3. ASSUME NEW x PROVE x \in ToSet(t) <=> x \in ToSet(s) \cup {b}
  <2>1. x \in ToSet(t) <=> \E i \in 1..(n + 1) : t[i] = x
    BY <1>1 DEF ToSet
  <2>2. x \in ToSet(s) <=> \E i \in 1..n : s[i] = x
    BY <1>1 DEF ToSet
  <2>3. (\E i \in 1..(n + 1) : t[i] = x) <=> (x = b \/ \E i \in 1..n : s[i] = x)
    BY <1>1
  <2>4. QED
    BY <2>1, <2>2, <2>3
<1>4. ToSet(t) = ToSet(s) \cup {b}
  BY <1>3
<1>5. IsInjective(t)
  BY <1>2 DEF IsInjective
<1>6. QED
  BY <1>1, <1>4, <1>5 DEF t

LEMMA TakenOut ==
  ASSUME NEW s \in Seq(Buffers), IsInjective(s), NEW k \in DOMAIN s
  PROVE  /\ SwapRemove(s, k) \in Seq(Buffers) /\ IsInjective(SwapRemove(s, k))
         /\ ToSet(SwapRemove(s, k)) = ToSet(s) \ {s[k]} /\ s[k] \in ToSet(s)
<1> DEFINE n == Len(s)
           t == SwapRemove(s, k)
<1>1. /\ n \in Nat /\ DOMAIN s = 1..n /\ k \in 1..n /\ n - 1 \in Nat
      /\ \A i \in 1..n : s[i] \in Buffers
  OBVIOUS
<1>2. /\ Front(s) \in Seq(Buffers) /\ DOMAIN Front(s) = 1..(n - 1)
      /\ \A i \in 1..(n - 1) : Front(s)[i] = s[i]
  BY <1>1 DEF Front
<1>3. /\ t \in Seq(Buffers) /\ DOMAIN t = 1..(n - 1)
      /\ \A i \in 1..(n - 1) : t[i] = IF i = k THEN s[n] ELSE s[i]
  <2>1. CASE k = n
    BY <1>1, <1>2, <2>1 DEF SwapRemove
  <2>2. CASE k # n
    <3>1. t = [Front(s) EXCEPT ![k] = s[n]]
      BY <2>2 DEF SwapRemove, Last
    <3>2. k \in 1..(n - 1) /\ s[n] \in Buffers
      BY <1>1, <2>2
    <3>3. QED
      BY <1>1, <1>2, <3>1, <3>2
  <2>3. QED
    BY <2>1, <2>2
<1> HIDE DEF n, t
<1>4. \A i, j \in 1..n : s[i] = s[j] => i = j
  BY <1>1 DEF IsInjective
<1>5. ASSUME NEW i \in DOMAIN t, NEW j \in DOMAIN t, t[i] = t[j] PROVE i = j
  <2>1. i \in 1..(n - 1) /\ j \in 1..(n - 1) /\ i \in 1..n /\ j \in 1..n /\ n \in 1..n
    BY <1>1, <1>3, <1>5
  <2>2. (IF i = k THEN s[n] ELSE s[i]) = (IF j = k THEN s[n] ELSE s[j])
    BY <1>3, <1>5, <2>1
  <2>3. QED
    BY <1>1, <1>4, <2>1, <2>2
<1>6. ASSUME NEW x PROVE x \in ToSet(t) <=> x \in ToSet(s) /\ x # s[k]
  <2>1. x \in ToSet(t) <=> \E i \in 1..(n - 1) : t[i] = x
    BY <1>3 DEF ToSet
  <2>2. x \in ToSet(s) <=> \E i \in 1..n : s[i] = x
    BY <1>1 DEF ToSet
  <2>3. ASSUME NEW i \in 1..(n - 1), t[i] = x PROVE (\E j \in 1..n : s[j] = x) /\ x # s[k]
    <3>1. i \in 1..n /\ n \in 1..n
      BY <1>1, <2>3
    <3>2. CASE i = k
      BY <1>1, <1>3, <1>4, <2>3, <3>1, <3>2
    <3>3. CASE i # k
      BY <1>1, <1>3, <1>4, <2>3, <3>1, <3>3
    <3>4. QED
      BY <3>2, <3>3
  <2>4. ASSUME NEW j \in 1..n, s[j] = x, x # s[k] PROVE \E i \in 1..(n - 1) : t[i] = x
    <3>1. j # k
      BY <2>4
    <3>2. CASE j = n
      <4>1. k \in 1..(n - 1)
        BY <1>1, <3>1, <3>2
      <4>2. QED
        BY <1>3, <2>4, <3>2, <4>1
    <3>3. CASE j # n
      <4>1. j \in 1..(n - 1)
        BY <1>1, <2>4, <3>3
      <4>2. QED
        BY <1>3, <2>4, <3>1, <4>1
    <3>4. QED
      BY <3>2, <3>3
  <2>5. QED
    BY <2>1, <2>2, <2>3, <2>4
<1>7. ToSet(t) = ToSet(s) \ {s[k]}
  BY <1>6
<1>8. IsInjective(t)
  BY <1>5 DEF IsInjective
<1>9. s[k] \in ToSet(s)
  BY <1>1 DEF ToSet
<1>10. QED
  BY <1>3, <1>7, <1>8, <1>9 DEF t

LEMMA Popped ==
  ASSUME NEW s \in Seq(Buffers), IsInjective(s), s # <<>>
  PROVE  /\ Front(s) \in Seq(Buffers) /\ IsInjective(Front(s))
         /\ ToSet(Front(s)) = ToSet(s) \ {Last(s)} /\ Last(s) \in ToSet(s)
<1>1. Len(s) \in DOMAIN s
  OBVIOUS
<1>2. SwapRemove(s, Len(s)) = Front(s) /\ Last(s) = s[Len(s)]
  BY DEF SwapRemove, Last
<1>3. QED
  BY <1>1, <1>2, TakenOut

LEMMA Joined ==
  ASSUME FreeLists
  PROVE  IsInjective(freeValues \o freeItems)
<1> DEFINE n == Len(freeValues)
           m == Len(freeItems)
           t == freeValues \o freeItems
<1>1. /\ n \in Nat /\ m \in Nat /\ DOMAIN freeValues = 1..n /\ DOMAIN freeItems = 1..m
      /\ DOMAIN t = 1..(n + m)
      /\ \A i \in 1..(n + m) : t[i] = IF i <= n THEN freeValues[i] ELSE freeItems[i - n]
  BY DEF FreeLists
<1>2. /\ \A i \in 1..n : freeValues[i] \in ToSet(freeValues)
      /\ \A i \in 1..m : freeItems[i] \in ToSet(freeItems)
  BY <1>1 DEF ToSet
<1>3. /\ \A i, j \in 1..n : freeValues[i] = freeValues[j] => i = j
      /\ \A i, j \in 1..m : freeItems[i] = freeItems[j] => i = j
      /\ \A i \in 1..n, j \in 1..m : freeValues[i] # freeItems[j]
  BY <1>1, <1>2 DEF FreeLists, IsInjective
<1> HIDE DEF n, m, t
<1>4. ASSUME NEW i \in DOMAIN t, NEW j \in DOMAIN t, t[i] = t[j] PROVE i = j
  <2>1. i \in 1..(n + m) /\ j \in 1..(n + m)
    BY <1>1
  <2>2. \A k \in 1..(n + m) : k \in 1..n \/ (k - n \in 1..m /\ k \notin 1..n)
    BY <1>1
  <2>3. /\ i \in 1..n => t[i] = freeValues[i]
        /\ j \in 1..n => t[j] = freeValues[j]
        /\ i \notin 1..n => t[i] = freeItems[i - n]
        /\ j \notin 1..n => t[j] = freeItems[j - n]
    BY <1>1, <2>1
  <2>4. CASE i \in 1..n /\ j \in 1..n
    BY <1>3, <1>4, <2>3, <2>4
  <2>5. CASE i \notin 1..n /\ j \notin 1..n
    <3>1. i - n \in 1..m /\ j - n \in 1..m /\ freeItems[i - n] = freeItems[j - n]
      BY <1>4, <2>1, <2>2, <2>3, <2>5
    <3>2. i - n = j - n
      BY <1>3, <3>1
    <3>3. QED
      BY <1>1, <2>1, <3>2
  <2>6. CASE i \in 1..n <=> j \notin 1..n
    BY <1>3, <1>4, <2>1, <2>2, <2>3, <2>6
  <2>7. QED
    BY <2>4, <2>5, <2>6
<1>5. QED
  BY <1>4 DEF IsInjective, t

----------------------------------------------------------------------------
(* What a step can do to the buffers: give one to a view, take one back, or *)
(* leave them alone.                                                        *)

LEMMA Assigned ==
  ASSUME ViewsInv, NEW v \in ViewIds, NEW b \in Buffers, ~Used(b),
         ViewsTypeOK', view[v].buffer = NoBuffer,
         view'[v].open, view'[v].buffer = b, view'[v].object \in Messages \cup PyLists,
         \A w \in ViewIds \ {v} : view'[w] = view[w],
         \A c \in Buffers \ {b} : cells'[c] = cells[c],
         FreeLists', ToSet(freeValues') = ToSet(freeValues) \ {b},
         ToSet(freeItems') = ToSet(freeItems) \ {b},
         Holds(cells'[b], view'[v].object)
  PROVE  ViewsInv'
<1>1. OneUse /\ Clean /\ OwnCells /\ ViewsTypeOK
  BY DEF ViewsInv
<1>2. \A w \in ViewIds : view[w].buffer # b
  BY DEF Used
<1>3. b # NoBuffer
  BY ViewsAssumption
<1>4. OneUse'
  BY <1>1, <1>2, <1>3 DEF OneUse
<1>5. ASSUME NEW c \in Buffers \ {b} PROVE Used(c)' <=> Used(c)
  BY <1>5, ViewsAssumption DEF Used
<1>6. Clean'
  <2> SUFFICES ASSUME NEW c \in Buffers
               PROVE  /\ c \in ToSet(freeValues') => \A i \in DOMAIN cells'[c] : cells'[c][i] = Empty
                      /\ c \notin ToSet(freeValues') /\ ~Used(c)' => cells'[c] = <<>>
    BY DEF Clean
  <2>1. CASE c = b
    BY <2>1 DEF Used
  <2>2. CASE c # b
    <3>1. (c \in ToSet(freeValues') <=> c \in ToSet(freeValues)) /\ cells'[c] = cells[c]
      BY <2>2
    <3>2. QED
      BY <1>1, <1>5, <2>2, <3>1 DEF Clean
  <2>3. QED
    BY <2>1, <2>2
<1>7. OwnCells'
  <2> SUFFICES ASSUME NEW w \in ViewIds, view'[w].buffer # NoBuffer
               PROVE  Holds(cells'[view'[w].buffer], view'[w].object)
    BY DEF OwnCells, Holds, Slots
  <2>1. CASE w = v
    BY <2>1
  <2>2. CASE w # v
    <3>1. view'[w] = view[w] /\ view[w].buffer \in Buffers
      BY <1>1, <2>2 DEF ViewsTypeOK, ViewRecords
    <3>2. cells'[view[w].buffer] = cells[view[w].buffer]
      BY <1>2, <3>1
    <3>3. QED
      BY <1>1, <3>1, <3>2 DEF OwnCells
  <2>3. QED
    BY <2>1, <2>2
<1>8. QED
  BY <1>4, <1>6, <1>7 DEF ViewsInv

LEMMA Released ==
  ASSUME ViewsInv, NEW v \in ViewIds, NEW b \in Buffers, view[v].buffer = b,
         ViewsTypeOK', view'[v].buffer = NoBuffer,
         \A w \in ViewIds \ {v} : view'[w] = view[w],
         \A c \in Buffers \ {b} : cells'[c] = cells[c],
         FreeLists',
         \/ /\ ToSet(freeValues') = ToSet(freeValues) \cup {b}
            /\ \A i \in DOMAIN cells'[b] : cells'[b][i] = Empty
            /\ ToSet(freeItems') = ToSet(freeItems)
         \/ /\ ToSet(freeValues') = ToSet(freeValues) /\ cells'[b] = <<>>
            /\ ToSet(freeItems') \in {ToSet(freeItems), ToSet(freeItems) \cup {b}}
  PROVE  ViewsInv'
<1>1. OneUse /\ Clean /\ OwnCells /\ ViewsTypeOK
  BY DEF ViewsInv
<1>2. b # NoBuffer /\ b \notin ToSet(freeValues) \cup ToSet(freeItems)
  BY <1>1, ViewsAssumption DEF OneUse
<1>3. \A w \in ViewIds \ {v} : view[w].buffer # b
  BY <1>1, <1>2 DEF OneUse
<1>4. OneUse'
  <2> SUFFICES ASSUME NEW w \in ViewIds, view'[w].buffer # NoBuffer
               PROVE  /\ \A u \in ViewIds : view'[u].buffer = view'[w].buffer => u = w
                      /\ view'[w].buffer \notin ToSet(freeValues') \cup ToSet(freeItems')
                      /\ view'[w].open /\ view'[w].object \in Messages \cup PyLists
    BY DEF OneUse
  <2>1. w # v /\ view'[w] = view[w]
    OBVIOUS
  <2>2. ASSUME NEW u \in ViewIds, view'[u].buffer = view'[w].buffer PROVE u = w
    <3>1. u # v /\ view'[u] = view[u]
      BY <2>2
    <3>2. QED
      BY <1>1, <2>1, <2>2, <3>1 DEF OneUse
  <2>3. view[w].buffer \notin ToSet(freeValues) \cup ToSet(freeItems) \cup {b}
    BY <1>1, <1>3, <2>1 DEF OneUse
  <2>4. view[w].open /\ view[w].object \in Messages \cup PyLists
    BY <1>1, <2>1 DEF OneUse
  <2>5. QED
    BY <2>1, <2>2, <2>3, <2>4
<1>5. ASSUME NEW c \in Buffers \ {b} PROVE Used(c)' <=> Used(c)
  BY <1>5, ViewsAssumption DEF Used
<1>6. Clean'
  <2> SUFFICES ASSUME NEW c \in Buffers
               PROVE  /\ c \in ToSet(freeValues') => \A i \in DOMAIN cells'[c] : cells'[c][i] = Empty
                      /\ c \notin ToSet(freeValues') /\ ~Used(c)' => cells'[c] = <<>>
    BY DEF Clean
  <2>1. CASE c = b
    BY <1>2, <2>1
  <2>2. CASE c # b
    <3>1. (c \in ToSet(freeValues') <=> c \in ToSet(freeValues)) /\ cells'[c] = cells[c]
      BY <2>2
    <3>2. QED
      BY <1>1, <1>5, <2>2, <3>1 DEF Clean
  <2>3. QED
    BY <2>1, <2>2
<1>7. OwnCells'
  <2> SUFFICES ASSUME NEW w \in ViewIds, view'[w].buffer # NoBuffer
               PROVE  Holds(cells'[view'[w].buffer], view'[w].object)
    BY DEF OwnCells, Holds, Slots
  <2>1. w # v /\ view'[w] = view[w] /\ view[w].buffer \in Buffers
    BY <1>1 DEF ViewsTypeOK, ViewRecords
  <2>2. cells'[view[w].buffer] = cells[view[w].buffer]
    BY <1>3, <2>1
  <2>3. QED
    BY <1>1, <2>1, <2>2 DEF OwnCells
<1>8. QED
  BY <1>4, <1>6, <1>7 DEF ViewsInv

LEMMA LeftAlone ==
  ASSUME ViewsInv, ViewsTypeOK', FreeLists', cells' = cells,
         freeValues' = freeValues, ToSet(freeItems') \subseteq ToSet(freeItems),
         \A v \in ViewIds : view'[v] = view[v] \/ (view[v].buffer = NoBuffer /\ view'[v].buffer = NoBuffer)
  PROVE  ViewsInv'
<1>1. OneUse /\ Clean /\ OwnCells
  BY DEF ViewsInv
<1>2. \A v \in ViewIds : view'[v].buffer = view[v].buffer
  OBVIOUS
<1>3. \A v \in ViewIds : view'[v].buffer # NoBuffer => view'[v] = view[v]
  OBVIOUS
<1>4. OneUse'
  BY <1>1, <1>2, <1>3 DEF OneUse
<1>5. \A b \in Buffers : Used(b)' <=> Used(b)
  BY <1>2 DEF Used
<1>6. Clean'
  BY <1>1, <1>5 DEF Clean
<1>7. OwnCells'
  BY <1>1, <1>3 DEF OwnCells, Holds, Slots
<1>8. QED
  BY <1>4, <1>6, <1>7 DEF ViewsInv

----------------------------------------------------------------------------
LEMMA ViewsInitInv == ViewsInit => ViewsInv
<1> SUFFICES ASSUME ViewsInit PROVE ViewsInv
  OBVIOUS
<1>1. /\ \A v \in ViewIds : view[v] = Closed
      /\ \A b \in Buffers : cells[b] = <<>>
      /\ freeValues = <<>> /\ freeItems = <<>>
  BY DEF ViewsInit
<1>2. \A v \in ViewIds : view[v].buffer = NoBuffer
  BY <1>1 DEF Closed
<1>3. ViewsTypeOK
  BY DEF ViewsInit, ViewsTypeOK, Closed, ViewRecords
<1>4. FreeLists
  BY <1>1 DEF FreeLists, IsInjective, ToSet
<1>5. OneUse /\ Clean /\ OwnCells
  BY <1>1, <1>2 DEF OneUse, Clean, OwnCells, ToSet
<1>6. QED
  BY <1>3, <1>4, <1>5 DEF ViewsInv

\* Opening a view types as one.
LEMMA OpenedTypes ==
  ASSUME ViewsTypeOK, NEW v \in ViewIds, NEW p \in Parents,
         NEW o \in Messages \cup PyLists \cup {Nothing}, NEW b \in Buffers \cup {NoBuffer},
         Opened(v, p, o, b)
  PROVE  /\ view' \in [ViewIds -> ViewRecords]
         /\ view'[v].open /\ view'[v].object = o /\ view'[v].buffer = b
         /\ \A w \in ViewIds \ {v} : view'[w] = view[w]
<1>1. p \in ViewIds \cup {NoView} /\ view \in [ViewIds -> ViewRecords]
  BY DEF Parents, ViewsTypeOK
<1> DEFINE r == [open |-> TRUE, parent |-> p, object |-> o, buffer |-> b]
<1>2. r \in ViewRecords /\ r.open /\ r.object = o /\ r.buffer = b
  BY <1>1 DEF ViewRecords
<1>3. view' = [view EXCEPT ![v] = r]
  BY DEF Opened
<1> HIDE DEF r
<1>4. QED
  BY <1>1, <1>2, <1>3

LEMMA OpenBareInv ==
  ASSUME ViewsInv, NEW v \in ViewIds, ~IsOpen(v), NEW p \in Parents,
         NEW o \in Messages \cup PyLists \cup {Nothing}, OpenBare(v, p, o)
  PROVE  ViewsInv'
<1>1. ViewsTypeOK /\ FreeLists /\ OneUse
  BY DEF ViewsInv
<1>2. /\ Opened(v, p, o, NoBuffer) /\ cells' = cells /\ lengths' = lengths
      /\ freeValues' = freeValues /\ freeItems' = freeItems
  BY DEF OpenBare
<1>3. /\ view' \in [ViewIds -> ViewRecords] /\ view'[v].open
      /\ view'[v].buffer = NoBuffer
      /\ \A w \in ViewIds \ {v} : view'[w] = view[w]
  BY <1>1, <1>2, OpenedTypes
<1>4. view[v].buffer = NoBuffer
  BY <1>1 DEF OneUse, IsOpen
<1>5. ViewsTypeOK' /\ FreeLists'
  BY <1>1, <1>2, <1>3 DEF ViewsTypeOK, FreeLists
<1>6. QED
  BY <1>2, <1>3, <1>4, <1>5, LeftAlone

LEMMA OpenReusingInv ==
  ASSUME ViewsInv, NEW v \in ViewIds, ~IsOpen(v), NEW p \in Parents, NEW m \in Messages,
         OpenReusing(v, p, m)
  PROVE  ViewsInv'
<1>1. ViewsTypeOK /\ FreeLists /\ OneUse /\ Clean
  BY DEF ViewsInv
<1>2. PICK i \in LastOf(LongEnough(FieldCount[m])) :
        Opened(v, p, m, freeValues[i]) /\ freeValues' = SwapRemove(freeValues, i)
  BY DEF OpenReusing
<1>3. cells' = cells /\ lengths' = lengths /\ freeItems' = freeItems
  BY DEF OpenReusing
<1> DEFINE b == freeValues[i]
<1>4. i \in DOMAIN freeValues /\ Len(cells[b]) >= FieldCount[m]
  BY <1>2 DEF LastOf, LongEnough
<1>5. /\ freeValues' \in Seq(Buffers) /\ IsInjective(freeValues')
      /\ ToSet(freeValues') = ToSet(freeValues) \ {b} /\ b \in ToSet(freeValues)
  BY <1>1, <1>2, <1>4, TakenOut DEF FreeLists
<1>6. b \in Buffers
  BY <1>1, <1>4 DEF FreeLists
<1> HIDE DEF b
<1>7. /\ view' \in [ViewIds -> ViewRecords] /\ view'[v].open /\ view'[v].object = m
      /\ view'[v].buffer = b /\ \A w \in ViewIds \ {v} : view'[w] = view[w]
  BY <1>1, <1>2, <1>6, OpenedTypes DEF b
<1>8. ~Used(b) /\ b \notin ToSet(freeItems)
  <2>1. \A w \in ViewIds : view[w].buffer # b
    BY <1>1, <1>5, <1>6, ViewsAssumption DEF OneUse
  <2>2. QED
    BY <1>1, <1>5, <2>1 DEF Used, FreeLists
<1>9. FreeLists' /\ ToSet(freeItems') = ToSet(freeItems) \ {b}
  <2>1. ToSet(freeItems') = ToSet(freeItems) \ {b}
    BY <1>3, <1>8
  <2>2. ToSet(freeValues') \cap ToSet(freeItems') = {}
    BY <1>1, <1>5, <2>1 DEF FreeLists
  <2>3. QED
    BY <1>1, <1>3, <1>5, <2>1, <2>2 DEF FreeLists
<1>10. ViewsTypeOK'
  BY <1>1, <1>3, <1>7 DEF ViewsTypeOK
<1>11. Holds(cells'[b], view'[v].object)
  <2>1. cells[b] \in Seq(Cell) /\ \A j \in DOMAIN cells[b] : cells[b][j] = Empty
    BY <1>1, <1>5, <1>6 DEF Clean, ViewsTypeOK
  <2>2. FieldCount[m] \in Nat /\ DOMAIN cells[b] = 1..Len(cells[b]) /\ Len(cells[b]) \in Nat
    BY <2>1, ObjectsAssumption
  <2>3. \A s \in Slots(m) : s \in DOMAIN cells[b]
    BY <1>4, <2>2 DEF Slots, b
  <2>4. m \notin PyLists
    BY ObjectsAssumption
  <2>5. QED
    BY <1>3, <1>7, <2>1, <2>3, <2>4 DEF Holds
<1>12. view[v].buffer = NoBuffer
  BY <1>1 DEF OneUse, IsOpen
<1>13. QED
  BY <1>3, <1>5, <1>6, <1>7, <1>8, <1>9, <1>10, <1>11, <1>12, Assigned

\* A buffer that is neither free nor in use.
LEMMA NewBufferIs ==
  ASSUME Unallocated # {}
  PROVE  /\ NewBuffer \in Buffers /\ ~Used(NewBuffer)
         /\ NewBuffer \notin ToSet(freeValues) \cup ToSet(freeItems)
<1>1. NewBuffer \in Unallocated
  BY DEF NewBuffer
<1>2. NewBuffer \in Buffers /\ NewBuffer \notin Free
      /\ \A v \in InUse(view) : view[v].buffer # NewBuffer
  BY <1>1 DEF Unallocated
<1>3. QED
  BY <1>2, ViewsAssumption DEF Free, InUse, Used

LEMMA OpenAllocatingInv ==
  ASSUME ViewsInv, NEW v \in ViewIds, ~IsOpen(v), NEW p \in Parents, NEW m \in Messages,
         OpenAllocating(v, p, m)
  PROVE  ViewsInv'
<1>1. ViewsTypeOK /\ FreeLists /\ OneUse /\ Clean
  BY DEF ViewsInv
<1> DEFINE b == NewBuffer
           fresh == [i \in Slots(m) |-> Empty]
<1>2. /\ cells' = [cells EXCEPT ![b] = fresh] /\ Opened(v, p, m, b) /\ lengths' = lengths
      /\ freeValues' = freeValues /\ freeItems' = freeItems
  BY DEF OpenAllocating
<1>3. /\ b \in Buffers /\ ~Used(b) /\ b \notin ToSet(freeValues) \cup ToSet(freeItems)
  BY NewBufferIs DEF OpenAllocating
<1>4. fresh \in Seq(Cell)
  BY ObjectsAssumption DEF Slots, Cell
<1>5. Holds(fresh, m)
  BY ObjectsAssumption DEF Holds
<1> HIDE DEF b, fresh
<1>6. /\ view' \in [ViewIds -> ViewRecords] /\ view'[v].open /\ view'[v].object = m
      /\ view'[v].buffer = b /\ \A w \in ViewIds \ {v} : view'[w] = view[w]
  BY <1>1, <1>2, <1>3, OpenedTypes
<1>7. /\ cells' \in [Buffers -> Seq(Cell)] /\ cells'[b] = fresh
      /\ \A c \in Buffers \ {b} : cells'[c] = cells[c]
  BY <1>1, <1>2, <1>3, <1>4 DEF ViewsTypeOK
<1>8. ViewsTypeOK' /\ FreeLists'
  BY <1>1, <1>2, <1>6, <1>7 DEF ViewsTypeOK, FreeLists
<1>9. /\ ToSet(freeValues') = ToSet(freeValues) \ {b}
      /\ ToSet(freeItems') = ToSet(freeItems) \ {b}
  BY <1>2, <1>3
<1>10. view[v].buffer = NoBuffer
  BY <1>1 DEF OneUse, IsOpen
<1>11. QED
  BY <1>3, <1>5, <1>6, <1>7, <1>8, <1>9, <1>10, Assigned

LEMMA ReadFieldInv ==
  ASSUME ViewsInv, NEW v \in ViewIds, ReadField(v)
  PROVE  ViewsInv'
<1>1. ViewsTypeOK /\ FreeLists /\ OneUse /\ Clean /\ OwnCells
  BY DEF ViewsInv
<1> DEFINE b == view[v].buffer
           m == view[v].object
<1>2. PICK slot \in Slots(m) : cells' = [cells EXCEPT ![b][slot] = <<m, slot>>]
  BY DEF ReadField
<1>3. /\ view' = view /\ lengths' = lengths /\ freeValues' = freeValues /\ freeItems' = freeItems
      /\ m \in Messages
  BY DEF ReadField
<1>4. view[v] \in ViewRecords /\ b \in Buffers \cup {NoBuffer}
  BY <1>1 DEF ViewsTypeOK, ViewRecords
<1>5. CASE b = NoBuffer
  <2>1. cells \in [Buffers -> Seq(Cell)] /\ b \notin Buffers
    BY <1>1, <1>5, ViewsAssumption DEF ViewsTypeOK
  <2>2. cells' = cells
    BY <1>2, <2>1
  <2>3. ViewsTypeOK' /\ FreeLists'
    BY <1>1, <1>3, <2>2 DEF ViewsTypeOK, FreeLists
  <2>4. QED
    BY <1>3, <2>2, <2>3, LeftAlone
<1>6. CASE b # NoBuffer
  <2>1. b \in Buffers
    BY <1>4, <1>6
  <2>2. Holds(cells[b], m) /\ cells[b] \in Seq(Cell)
    BY <1>1, <1>6, <2>1 DEF OwnCells, ViewsTypeOK
  <2> DEFINE c == [cells[b] EXCEPT ![slot] = <<m, slot>>]
  <2>3. /\ slot \in DOMAIN cells[b] /\ slot \in Nat /\ m \notin PyLists
    BY <1>3, <2>2, ObjectsAssumption DEF Holds, Slots
  <2>4. c \in Seq(Cell) /\ DOMAIN c = DOMAIN cells[b]
    <3>1. <<m, slot>> \in Cell
      BY <1>3, <2>3 DEF Cell
    <3>2. DOMAIN cells[b] = 1..Len(cells[b]) /\ slot \in 1..Len(cells[b])
      BY <2>2, <2>3
    <3>3. QED
      BY <2>2, <3>1, <3>2
  <2>5. Holds(c, m)
    <3>1. \A s \in Slots(m) : c[s] = IF s = slot THEN <<m, slot>> ELSE cells[b][s]
      BY <1>3, <2>2 DEF Holds
    <3>2. QED
      BY <1>3, <2>2, <2>3, <2>4, <3>1 DEF Holds
  <2>6. cells' = [cells EXCEPT ![b] = c]
    BY <1>2
  <2> HIDE DEF c
  <2>7. /\ cells' \in [Buffers -> Seq(Cell)] /\ cells'[b] = c
        /\ \A d \in Buffers \ {b} : cells'[d] = cells[d]
    BY <1>1, <2>1, <2>4, <2>6 DEF ViewsTypeOK
  <2>8. ViewsTypeOK' /\ FreeLists' /\ OneUse'
    BY <1>1, <1>3, <2>7 DEF ViewsTypeOK, FreeLists, OneUse
  <2>9. b \notin ToSet(freeValues) /\ Used(b)
    BY <1>1, <1>6 DEF OneUse, Used
  <2>10. Clean'
    BY <1>1, <1>3, <2>7, <2>9 DEF Clean, Used
  <2>11. OwnCells'
    <3> SUFFICES ASSUME NEW w \in ViewIds, view[w].buffer # NoBuffer
                 PROVE  Holds(cells'[view[w].buffer], view[w].object)
      BY <1>3 DEF OwnCells, Holds, Slots
    <3>1. CASE w = v
      BY <2>5, <2>7, <3>1
    <3>2. CASE w # v
      <4>1. view[w].buffer \in Buffers \ {b}
        BY <1>1, <1>6, <3>2 DEF OneUse, ViewsTypeOK, ViewRecords
      <4>2. QED
        BY <1>1, <2>7, <4>1 DEF OwnCells
    <3>3. QED
      BY <3>1, <3>2
  <2>12. QED
    BY <2>8, <2>10, <2>11 DEF ViewsInv
<1>7. QED
  BY <1>5, <1>6

\* Appending a list's items to a clean buffer makes them its content.
LEMMA AppendedItems ==
  ASSUME ViewsInv, NEW v \in ViewIds, ItemsUnread(v), NEW b \in Buffers,
         b \notin ToSet(freeValues), ~Used(b), AppendItems(v, b)
  PROVE  /\ cells' \in [Buffers -> Seq(Cell)] /\ \A c \in Buffers \ {b} : cells'[c] = cells[c]
         /\ view' \in [ViewIds -> ViewRecords] /\ \A w \in ViewIds \ {v} : view'[w] = view[w]
         /\ view'[v].open /\ view'[v].buffer = b /\ view'[v].object \in PyLists
         /\ Holds(cells'[b], view'[v].object)
<1> DEFINE l == view[v].object
           listed == [i \in 1..lengths[l] |-> <<l, i>>]
<1>1. ViewsTypeOK /\ OneUse /\ Clean
  BY DEF ViewsInv
<1>2. l \in PyLists /\ view[v].buffer = NoBuffer /\ view[v] \in ViewRecords
  BY <1>1 DEF ItemsUnread, ViewsTypeOK
<1>3. cells[b] = <<>>
  BY <1>1 DEF Clean
<1>4. cells' = [cells EXCEPT ![b] = @ \o listed] /\ view' = [view EXCEPT ![v].buffer = b]
  BY DEF AppendItems
<1>5. lengths[l] \in Nat
  BY <1>1, <1>2, ObjectsAssumption DEF ViewsTypeOK
<1>6. listed \in Seq(Cell) /\ DOMAIN listed = 1..lengths[l]
  <2>1. \A i \in 1..lengths[l] : <<l, i>> \in Cell
    BY <1>2, <1>5 DEF Cell
  <2>2. QED
    BY <1>5, <2>1
<1>7. Holds(listed, l)
  BY <1>2, ObjectsAssumption DEF Holds
<1> HIDE DEF listed
<1>8. cells[b] \o listed = listed
  BY <1>3, <1>6
<1>9. cells' = [cells EXCEPT ![b] = listed]
  BY <1>4, <1>8
<1>10. /\ cells' \in [Buffers -> Seq(Cell)] /\ cells'[b] = listed
       /\ \A c \in Buffers \ {b} : cells'[c] = cells[c]
  BY <1>1, <1>6, <1>9 DEF ViewsTypeOK
<1>11. /\ view'[v] = [view[v] EXCEPT !.buffer = b]
       /\ \A w \in ViewIds \ {v} : view'[w] = view[w]
  BY <1>1, <1>4 DEF ViewsTypeOK
<1>12. /\ view'[v] \in ViewRecords /\ view'[v].open = view[v].open
       /\ view'[v].object = l /\ view'[v].buffer = b
  BY <1>2, <1>11 DEF ViewRecords
<1>13. view' \in [ViewIds -> ViewRecords]
  <2>1. \A w \in ViewIds : view'[w] \in ViewRecords
    BY <1>1, <1>11, <1>12 DEF ViewsTypeOK
  <2>2. DOMAIN view' = ViewIds /\ view' = [w \in ViewIds |-> view'[w]]
    BY <1>1, <1>4 DEF ViewsTypeOK
  <2>3. QED
    BY <2>1, <2>2
<1>14. view[v].open
  BY <1>1, <1>2, ObjectsAssumption DEF ViewsTypeOK
<1>15. QED
  BY <1>2, <1>7, <1>10, <1>11, <1>12, <1>13, <1>14

LEMMA ReadItemsReusingInv ==
  ASSUME ViewsInv, NEW v \in ViewIds, ReadItemsReusing(v)
  PROVE  ViewsInv'
<1>1. ViewsTypeOK /\ FreeLists /\ OneUse
  BY DEF ViewsInv
<1> DEFINE b == Last(freeItems)
<1>2. /\ ItemsUnread(v) /\ AppendItems(v, b) /\ freeItems # <<>> /\ freeItems' = Front(freeItems)
      /\ lengths' = lengths /\ freeValues' = freeValues
  BY DEF ReadItemsReusing
<1>3. /\ freeItems' \in Seq(Buffers) /\ IsInjective(freeItems')
      /\ ToSet(freeItems') = ToSet(freeItems) \ {b} /\ b \in ToSet(freeItems)
  BY <1>1, <1>2, Popped DEF FreeLists
<1>4. b \in Buffers
  BY <1>1, <1>3 DEF FreeLists, ToSet
<1> HIDE DEF b
<1>5. ~Used(b) /\ b \notin ToSet(freeValues)
  <2>1. \A w \in ViewIds : view[w].buffer # b
    BY <1>1, <1>3, <1>4, ViewsAssumption DEF OneUse
  <2>2. QED
    BY <1>1, <1>3, <2>1 DEF Used, FreeLists
<1>6. /\ cells' \in [Buffers -> Seq(Cell)] /\ \A c \in Buffers \ {b} : cells'[c] = cells[c]
      /\ view' \in [ViewIds -> ViewRecords] /\ \A w \in ViewIds \ {v} : view'[w] = view[w]
      /\ view'[v].open /\ view'[v].buffer = b /\ view'[v].object \in PyLists
      /\ Holds(cells'[b], view'[v].object)
  BY <1>2, <1>4, <1>5, AppendedItems
<1>7. ToSet(freeValues') = ToSet(freeValues) \ {b}
  BY <1>2, <1>5
<1>8. FreeLists'
  <2>1. ToSet(freeValues') \cap ToSet(freeItems') = {}
    BY <1>1, <1>3, <1>7 DEF FreeLists
  <2>2. QED
    BY <1>1, <1>2, <1>3, <2>1 DEF FreeLists
<1>9. ViewsTypeOK'
  BY <1>1, <1>2, <1>6 DEF ViewsTypeOK
<1>10. view[v].buffer = NoBuffer
  BY <1>2 DEF ItemsUnread
<1>11. QED
  BY <1>3, <1>4, <1>5, <1>6, <1>7, <1>8, <1>9, <1>10, Assigned

LEMMA ReadItemsAllocatingInv ==
  ASSUME ViewsInv, NEW v \in ViewIds, ReadItemsAllocating(v)
  PROVE  ViewsInv'
<1>1. ViewsTypeOK /\ FreeLists
  BY DEF ViewsInv
<1> DEFINE b == NewBuffer
<1>2. /\ ItemsUnread(v) /\ AppendItems(v, b) /\ lengths' = lengths
      /\ freeValues' = freeValues /\ freeItems' = freeItems
  BY DEF ReadItemsAllocating
<1>3. b \in Buffers /\ ~Used(b) /\ b \notin ToSet(freeValues) \cup ToSet(freeItems)
  BY NewBufferIs DEF ReadItemsAllocating
<1> HIDE DEF b
<1>4. /\ cells' \in [Buffers -> Seq(Cell)] /\ \A c \in Buffers \ {b} : cells'[c] = cells[c]
      /\ view' \in [ViewIds -> ViewRecords] /\ \A w \in ViewIds \ {v} : view'[w] = view[w]
      /\ view'[v].open /\ view'[v].buffer = b /\ view'[v].object \in PyLists
      /\ Holds(cells'[b], view'[v].object)
  BY <1>2, <1>3, AppendedItems
<1>5. /\ ToSet(freeValues') = ToSet(freeValues) \ {b}
      /\ ToSet(freeItems') = ToSet(freeItems) \ {b}
  BY <1>2, <1>3
<1>6. ViewsTypeOK' /\ FreeLists'
  BY <1>1, <1>2, <1>4 DEF ViewsTypeOK, FreeLists
<1>7. view[v].buffer = NoBuffer
  BY <1>2 DEF ItemsUnread
<1>8. QED
  BY <1>3, <1>4, <1>5, <1>6, <1>7, Assigned

LEMMA ReadItemsFailsInv ==
  ASSUME ViewsInv, NEW v \in ViewIds, ReadItemsFails(v)
  PROVE  ViewsInv'
<1>1. ViewsTypeOK /\ FreeLists
  BY DEF ViewsInv
<1>2. /\ freeItems # <<>> /\ freeItems' = Front(freeItems) /\ lengths' = lengths
      /\ freeValues' = freeValues /\ view' = view /\ cells' = cells
  BY DEF ReadItemsFails
<1>3. /\ freeItems' \in Seq(Buffers) /\ IsInjective(freeItems')
      /\ ToSet(freeItems') \subseteq ToSet(freeItems)
  BY <1>1, <1>2, Popped DEF FreeLists
<1>4. ToSet(freeValues') \cap ToSet(freeItems') = {}
  BY <1>1, <1>2, <1>3 DEF FreeLists
<1>5. ViewsTypeOK' /\ FreeLists'
  BY <1>1, <1>2, <1>3, <1>4 DEF ViewsTypeOK, FreeLists
<1>6. QED
  BY <1>2, <1>3, <1>5, LeftAlone

\* A view that closes has no buffer any more.
LEMMA ClosingTypes ==
  ASSUME ViewsTypeOK, NEW v \in ViewIds, Closing(v)
  PROVE  /\ view' \in [ViewIds -> ViewRecords]
         /\ view'[v].buffer = NoBuffer /\ view'[v].object = Nothing
         /\ \A w \in ViewIds \ {v} : view'[w] = view[w]
<1>1. view' = [view EXCEPT ![v] = Closed] /\ view \in [ViewIds -> ViewRecords]
  BY DEF Closing, ViewsTypeOK
<1>2. Closed \in ViewRecords /\ Closed.buffer = NoBuffer /\ Closed.object = Nothing
  BY DEF Closed, ViewRecords
<1> QED
  BY <1>1, <1>2

LEMMA CloseBareInv ==
  ASSUME ViewsInv, NEW v \in ViewIds, CloseBare(v)
  PROVE  ViewsInv'
<1>1. ViewsTypeOK /\ FreeLists
  BY DEF ViewsInv
<1>2. /\ Closing(v) /\ view[v].buffer = NoBuffer /\ lengths' = lengths /\ cells' = cells
      /\ freeValues' = freeValues /\ freeItems' = freeItems
  BY DEF CloseBare
<1>3. /\ view' \in [ViewIds -> ViewRecords]
      /\ view'[v].buffer = NoBuffer /\ view'[v].object = Nothing
      /\ \A w \in ViewIds \ {v} : view'[w] = view[w]
  BY <1>1, <1>2, ClosingTypes
<1>4. ViewsTypeOK' /\ FreeLists'
  BY <1>1, <1>2, <1>3 DEF ViewsTypeOK, FreeLists
<1>5. QED
  BY <1>2, <1>3, <1>4, LeftAlone

LEMMA CloseMessageInv ==
  ASSUME ViewsInv, NEW v \in ViewIds, CloseMessage(v)
  PROVE  ViewsInv'
<1>1. ViewsTypeOK /\ FreeLists /\ OneUse
  BY DEF ViewsInv
<1> DEFINE b == view[v].buffer
<1>2. /\ Closing(v) /\ b # NoBuffer /\ lengths' = lengths /\ freeItems' = freeItems
      /\ cells' = [cells EXCEPT ![b] = Emptied(b)] /\ freeValues' = Append(freeValues, b)
  BY DEF CloseMessage
<1>3. b \in Buffers /\ b \notin ToSet(freeValues) \cup ToSet(freeItems)
  BY <1>1, <1>2 DEF ViewsTypeOK, ViewRecords, OneUse
<1>4. /\ view' \in [ViewIds -> ViewRecords]
      /\ view'[v].buffer = NoBuffer /\ view'[v].object = Nothing
      /\ \A w \in ViewIds \ {v} : view'[w] = view[w]
  BY <1>1, <1>2, ClosingTypes
<1>5. Emptied(b) \in Seq(Cell) /\ \A i \in DOMAIN Emptied(b) : Emptied(b)[i] = Empty
  <2>1. cells[b] \in Seq(Cell)
    BY <1>1, <1>3 DEF ViewsTypeOK
  <2>2. DOMAIN cells[b] = 1..Len(cells[b]) /\ Len(cells[b]) \in Nat
    BY <2>1
  <2>3. QED
    BY <2>2 DEF Emptied, Cell
<1>6. /\ freeValues' \in Seq(Buffers) /\ IsInjective(freeValues')
      /\ ToSet(freeValues') = ToSet(freeValues) \cup {b}
  BY <1>1, <1>2, <1>3, Returned DEF FreeLists
<1> HIDE DEF b
<1>7. /\ cells' \in [Buffers -> Seq(Cell)] /\ \A i \in DOMAIN cells'[b] : cells'[b][i] = Empty
      /\ \A c \in Buffers \ {b} : cells'[c] = cells[c]
  BY <1>1, <1>2, <1>3, <1>5 DEF ViewsTypeOK
<1>8. FreeLists'
  <2>1. ToSet(freeItems') = ToSet(freeItems)
    BY <1>2
  <2>2. ToSet(freeValues') \cap ToSet(freeItems') = {}
    BY <1>1, <1>3, <1>6, <2>1 DEF FreeLists
  <2>3. QED
    BY <1>1, <1>2, <1>6, <2>2 DEF FreeLists
<1>9. ViewsTypeOK'
  BY <1>1, <1>2, <1>4, <1>7 DEF ViewsTypeOK
<1>10. view[v].buffer = b /\ ToSet(freeItems') = ToSet(freeItems)
  BY <1>2 DEF b
<1>11. QED
  BY <1>3, <1>4, <1>6, <1>7, <1>8, <1>9, <1>10, Released

LEMMA CloseListInv ==
  ASSUME ViewsInv, NEW v \in ViewIds, CloseList(v)
  PROVE  ViewsInv'
<1>1. ViewsTypeOK /\ FreeLists /\ OneUse
  BY DEF ViewsInv
<1> DEFINE b == view[v].buffer
<1>2. /\ Closing(v) /\ b # NoBuffer /\ lengths' = lengths /\ freeValues' = freeValues
      /\ cells' = [cells EXCEPT ![b] = <<>>]
      /\ freeItems' = Append(freeItems, b) \/ freeItems' = freeItems
  BY DEF CloseList
<1>3. b \in Buffers /\ b \notin ToSet(freeValues) \cup ToSet(freeItems)
  BY <1>1, <1>2 DEF ViewsTypeOK, ViewRecords, OneUse
<1>4. /\ view' \in [ViewIds -> ViewRecords]
      /\ view'[v].buffer = NoBuffer /\ view'[v].object = Nothing
      /\ \A w \in ViewIds \ {v} : view'[w] = view[w]
  BY <1>1, <1>2, ClosingTypes
<1>5. /\ freeItems' \in Seq(Buffers) /\ IsInjective(freeItems')
      /\ ToSet(freeItems') \in {ToSet(freeItems), ToSet(freeItems) \cup {b}}
  <2>1. CASE freeItems' = freeItems
    BY <1>1, <2>1 DEF FreeLists
  <2>2. CASE freeItems' = Append(freeItems, b)
    <3>1. /\ freeItems' \in Seq(Buffers) /\ IsInjective(freeItems')
          /\ ToSet(freeItems') = ToSet(freeItems) \cup {b}
      BY <1>1, <1>3, <2>2, Returned DEF FreeLists
    <3>2. QED
      BY <3>1
  <2>3. QED
    BY <1>2, <2>1, <2>2
<1> HIDE DEF b
<1>6. /\ cells' \in [Buffers -> Seq(Cell)] /\ cells'[b] = <<>>
      /\ \A c \in Buffers \ {b} : cells'[c] = cells[c]
  BY <1>1, <1>2, <1>3 DEF ViewsTypeOK
<1>7. FreeLists'
  <2>1. ToSet(freeValues') = ToSet(freeValues)
    BY <1>2
  <2>2. ToSet(freeValues') \cap ToSet(freeItems') = {}
    BY <1>1, <1>3, <1>5, <2>1 DEF FreeLists
  <2>3. QED
    BY <1>1, <1>2, <1>5, <2>2 DEF FreeLists
<1>8. ViewsTypeOK'
  BY <1>1, <1>2, <1>4, <1>6 DEF ViewsTypeOK
<1>9. view[v].buffer = b /\ ToSet(freeValues') = ToSet(freeValues)
  BY <1>2 DEF b
<1>10. QED
  BY <1>3, <1>4, <1>5, <1>6, <1>7, <1>8, <1>9, Released

LEMMA ResizeInv == ViewsInv /\ Resize => ViewsInv'
<1> SUFFICES ASSUME ViewsInv, Resize PROVE ViewsInv'
  OBVIOUS
<1>1. ViewsTypeOK /\ FreeLists
  BY DEF ViewsInv
<1>2. PICK l \in PyLists, n \in 0..MaxItems : lengths' = [lengths EXCEPT ![l] = n]
  BY DEF Resize
<1>3. /\ view' = view /\ cells' = cells /\ freeValues' = freeValues /\ freeItems' = freeItems
  BY DEF Resize
<1>4. ViewsTypeOK' /\ FreeLists'
  BY <1>1, <1>2, <1>3 DEF ViewsTypeOK, FreeLists
<1>5. QED
  BY <1>3, <1>4, LeftAlone

----------------------------------------------------------------------------
LEMMA OpenMessageInv ==
  ASSUME ViewsInv, NEW v \in ViewIds, OpenMessage(v)
  PROVE  ViewsInv'
<1>1. PICK p \in Parents, m \in Messages \cup {Nothing} :
        /\ ~IsOpen(v)
        /\ IF CellsNeeded(m) = 0 THEN OpenBare(v, p, m)
           ELSE OpenReusing(v, p, m) \/ OpenAllocating(v, p, m)
  BY DEF OpenMessage
<1>2. CASE CellsNeeded(m) = 0
  BY <1>1, <1>2, OpenBareInv
<1>3. CASE CellsNeeded(m) # 0
  <2>1. m \in Messages
    BY <1>3 DEF CellsNeeded
  <2>2. QED
    BY <1>1, <1>3, <2>1, OpenReusingInv, OpenAllocatingInv
<1>4. QED
  BY <1>2, <1>3

LEMMA OpenListInv ==
  ASSUME ViewsInv, NEW v \in ViewIds, OpenList(v)
  PROVE  ViewsInv'
<1>1. PICK p \in Parents, l \in PyLists \cup {Nothing} : ~IsOpen(v) /\ OpenBare(v, p, l)
  BY DEF OpenList
<1>2. QED
  BY <1>1, OpenBareInv

LEMMA ViewsInvariant == ViewsSpec => []ViewsInv
<1>1. ViewsInv /\ ViewsNext => ViewsInv'
  <2> SUFFICES ASSUME ViewsInv, ViewsNext PROVE ViewsInv'
    OBVIOUS
  <2>1. CASE Resize
    BY <2>1, ResizeInv
  <2>2. ASSUME NEW v \in ViewIds, ViewStep(v) PROVE ViewsInv'
    BY <2>2, OpenMessageInv, OpenListInv, ReadFieldInv, ReadItemsReusingInv,
       ReadItemsAllocatingInv, ReadItemsFailsInv, CloseBareInv, CloseMessageInv,
       CloseListInv DEF ViewStep
  <2>3. QED
    BY <2>1, <2>2 DEF ViewsNext
<1>2. ASSUME ViewsInv, UNCHANGED viewVars PROVE ViewsInv'
  <2>1. /\ view' = view /\ cells' = cells /\ lengths' = lengths
        /\ freeValues' = freeValues /\ freeItems' = freeItems
    BY <1>2 DEF viewVars
  <2>2. ViewsTypeOK' /\ FreeLists'
    BY <1>2, <2>1 DEF ViewsInv, ViewsTypeOK, FreeLists
  <2>3. QED
    BY <1>2, <2>1, <2>2, LeftAlone
<1>3. ViewsInv /\ [ViewsNext]_viewVars => ViewsInv'
  BY <1>1, <1>2
<1>4. QED
  BY ViewsInitInv, <1>3, PTL DEF ViewsSpec

\* A buffer is used by one view at a time, and never while it is free: the pool
\* never hands out a buffer that a view reads from.  (take_values, list items
\* and Drop in view.rs)
THEOREM BuffersApart == ViewsSpec => []NeverShared
<1>1. ASSUME ViewsInv PROVE NeverShared
  <2>1. OneUse /\ FreeLists
    BY <1>1 DEF ViewsInv
  <2>2. IsInjective(freeValues \o freeItems)
    BY <2>1, Joined
  <2>3. QED
    BY <2>1, <2>2 DEF NeverShared, OneUse, InUse, Free
<1>2. QED
  BY ViewsInvariant, <1>1, PTL

\* What a view reads it fetched from its own object, whatever the buffer held
\* before.  (MessageView, ListView and their Drop in view.rs)
THEOREM ValuesOwn == ViewsSpec => []OwnValues
<1>1. ASSUME ViewsInv PROVE OwnValues
  <2> SUFFICES ASSUME NEW v \in InUse(view)
               PROVE  IF view[v].object \in Messages
                      THEN \A s \in Slots(view[v].object) :
                             s \in DOMAIN CellsOf(v) /\ CellsOf(v)[s] \in {Empty, <<view[v].object, s>>}
                      ELSE \A i \in DOMAIN CellsOf(v) : CellsOf(v)[i] = <<view[v].object, i>>
    BY DEF OwnValues
  <2>1. v \in ViewIds /\ view[v].buffer # NoBuffer
    BY DEF InUse
  <2>2. Holds(CellsOf(v), view[v].object) /\ view[v].object \in Messages \cup PyLists
    BY <1>1, <2>1 DEF ViewsInv, OneUse, OwnCells, CellsOf
  <2>3. QED
    BY <2>2 DEF Holds
<1>2. QED
  BY ViewsInvariant, <1>1, PTL

----------------------------------------------------------------------------
(* How many buffers there are.  A buffer is allocated when there is no free *)
(* one that would do: then all the buffers of its kind are in use.          *)

ItemBuffers ==
  ToSet(freeItems) \cup {view[v].buffer : v \in {w \in InUse(view) : view[w].object \in PyLists}}
OfLength(n) == {c \in ValueBuffers : Len(cells[c]) = n}

PoolInv ==
  /\ peak \in Nat /\ IsFiniteSet(InUse(view)) /\ Cardinality(InUse(view)) <= peak
  /\ \A n \in Nat : IsFiniteSet(OfLength(n)) /\ Cardinality(OfLength(n)) <= peak
  /\ IsFiniteSet(ItemBuffers) /\ Cardinality(ItemBuffers) <= peak

\* A set of values of a function is no larger than its domain.
LEMMA Imaged ==
  ASSUME NEW f, IsFiniteSet(DOMAIN f), NEW T, \A t \in T : \E x \in DOMAIN f : f[x] = t
  PROVE  IsFiniteSet(T) /\ Cardinality(T) <= Cardinality(DOMAIN f)
<1> DEFINE S == DOMAIN f
           R == {f[x] : x \in S}
           g == [x \in S |-> f[x]]
<1>1. g \in Surjection(S, R)
  BY DEF Surjection
<1>2. IsFiniteSet(R) /\ Cardinality(R) <= Cardinality(S)
  BY <1>1, FS_Surjection
<1>3. T \in SUBSET R
  OBVIOUS
<1> HIDE DEF R, g
<1>4. IsFiniteSet(T) /\ Cardinality(T) <= Cardinality(R) /\ Cardinality(T) \in Nat
      /\ Cardinality(R) \in Nat /\ Cardinality(S) \in Nat
  BY <1>2, <1>3, FS_Subset, FS_CardinalityType
<1>5. QED
  BY <1>2, <1>4

LEMMA CountedOnce ==
  ASSUME NEW S, NEW s \in Seq(S), IsInjective(s)
  PROVE  IsFiniteSet(ToSet(s)) /\ Cardinality(ToSet(s)) = Len(s)
<1> DEFINE n == Len(s)
<1>1. n \in Nat /\ DOMAIN s = 1..n /\ ToSet(s) = {s[i] : i \in 1..n}
  BY DEF ToSet
<1>2. s \in Bijection(1..n, ToSet(s))
  <2>1. s \in [1..n -> ToSet(s)]
    BY <1>1
  <2>2. \A i, j \in 1..n : s[i] = s[j] => i = j
    BY <1>1 DEF IsInjective
  <2>3. \A x \in ToSet(s) : \E i \in 1..n : s[i] = x
    BY <1>1
  <2>4. QED
    BY <2>1, <2>2, <2>3 DEF Bijection, Injection, Surjection
<1>3. IsFiniteSet(1..n) /\ Cardinality(1..n) = n
  BY <1>1, FS_Interval
<1>4. ExistsBijection(1..n, ToSet(s))
  BY <1>2 DEF ExistsBijection
<1>5. QED
  BY <1>3, <1>4, FS_Bijection

LEMMA AreBuffers ==
  /\ \A c : c \in ValueBuffers <=>
       \/ c \in ToSet(freeValues)
       \/ \E v \in ViewIds : view[v].buffer = c /\ c # NoBuffer /\ view[v].object \in Messages
  /\ \A c : c \in ValueBuffers' <=>
       \/ c \in ToSet(freeValues')
       \/ \E v \in ViewIds : view'[v].buffer = c /\ c # NoBuffer /\ view'[v].object \in Messages
  /\ \A c : c \in ItemBuffers <=>
       \/ c \in ToSet(freeItems)
       \/ \E v \in ViewIds : view[v].buffer = c /\ c # NoBuffer /\ view[v].object \in PyLists
  /\ \A c : c \in ItemBuffers' <=>
       \/ c \in ToSet(freeItems')
       \/ \E v \in ViewIds : view'[v].buffer = c /\ c # NoBuffer /\ view'[v].object \in PyLists
  BY DEF ValueBuffers, ItemBuffers, InUse

\* Buffers that are not more than before, of the same lengths.
LEMMA ValuesKept ==
  ASSUME PoolInv, peak' \in Nat, peak <= peak', ValueBuffers' \subseteq ValueBuffers,
         \A c \in ValueBuffers' : Len(cells'[c]) = Len(cells[c]),
         NEW n \in Nat
  PROVE  IsFiniteSet(OfLength(n)') /\ Cardinality(OfLength(n)') <= peak'
<1>1. IsFiniteSet(OfLength(n)) /\ Cardinality(OfLength(n)) <= peak /\ peak \in Nat
  BY DEF PoolInv
<1>2. OfLength(n)' \subseteq OfLength(n)
  BY DEF OfLength
<1>3. /\ IsFiniteSet(OfLength(n)') /\ Cardinality(OfLength(n)') <= Cardinality(OfLength(n))
      /\ Cardinality(OfLength(n)') \in Nat /\ Cardinality(OfLength(n)) \in Nat
  BY <1>1, <1>2, FS_Subset, FS_CardinalityType
<1>4. QED
  BY <1>1, <1>3

LEMMA ItemsKept ==
  ASSUME PoolInv, peak' \in Nat, peak <= peak', ItemBuffers' \subseteq ItemBuffers
  PROVE  IsFiniteSet(ItemBuffers') /\ Cardinality(ItemBuffers') <= peak'
<1>1. IsFiniteSet(ItemBuffers) /\ Cardinality(ItemBuffers) <= peak /\ peak \in Nat
  BY DEF PoolInv
<1>2. /\ IsFiniteSet(ItemBuffers') /\ Cardinality(ItemBuffers') <= Cardinality(ItemBuffers)
      /\ Cardinality(ItemBuffers') \in Nat /\ Cardinality(ItemBuffers) \in Nat
  BY <1>1, FS_Subset, FS_CardinalityType
<1>3. QED
  BY <1>1, <1>2

\* A step that takes no buffer.
LEMMA NotTaken ==
  ASSUME PoolInv, peak' = peak, InUse(view)' \subseteq InUse(view),
         ValueBuffers' \subseteq ValueBuffers, ItemBuffers' \subseteq ItemBuffers,
         \A c \in ValueBuffers' : Len(cells'[c]) = Len(cells[c])
  PROVE  PoolInv'
<1>1. peak \in Nat /\ IsFiniteSet(InUse(view)) /\ Cardinality(InUse(view)) <= peak
  BY DEF PoolInv
<1>2. peak' \in Nat /\ peak <= peak'
  BY <1>1
<1>3. /\ IsFiniteSet(InUse(view)') /\ Cardinality(InUse(view)') <= Cardinality(InUse(view))
      /\ Cardinality(InUse(view)') \in Nat /\ Cardinality(InUse(view)) \in Nat
  BY <1>1, FS_Subset, FS_CardinalityType
<1>4. Cardinality(InUse(view)') <= peak'
  BY <1>1, <1>3
<1>5. QED
  BY <1>2, <1>3, <1>4, ValuesKept, ItemsKept DEF PoolInv

\* A step that takes one: the peak is counted, and covers all that are in use.
LEMMA PeakCounted ==
  ASSUME PoolInv, NEW v \in ViewIds, \A w \in ViewIds \ {v} : view'[w] = view[w], CountsPeak
  PROVE  /\ peak' \in Nat /\ peak <= peak'
         /\ IsFiniteSet(InUse(view)') /\ Cardinality(InUse(view)') <= peak'
         /\ \A T : (\A c \in T : \E w \in ViewIds : view'[w].buffer = c /\ c # NoBuffer) =>
                   IsFiniteSet(T) /\ Cardinality(T) <= peak'
<1>1. peak \in Nat /\ IsFiniteSet(InUse(view))
  BY DEF PoolInv
<1>2. IsFiniteSet(InUse(view) \cup {v})
  BY <1>1, FS_AddElement
<1>3. InUse(view') \subseteq InUse(view) \cup {v}
  BY DEF InUse
<1>4. IsFiniteSet(InUse(view')) /\ Cardinality(InUse(view')) \in Nat
  BY <1>2, <1>3, FS_Subset, FS_CardinalityType
<1> DEFINE count == Cardinality(InUse(view'))
<1>5. peak' = Higher(peak, count)
  BY DEF CountsPeak
<1>6. count \in Nat
  BY <1>4
<1> HIDE DEF count
<1>7. peak' \in Nat /\ peak <= peak' /\ count <= peak'
  BY <1>1, <1>5, <1>6 DEF Higher
<1>8. ASSUME NEW T, \A c \in T : \E w \in ViewIds : view'[w].buffer = c /\ c # NoBuffer
      PROVE  IsFiniteSet(T) /\ Cardinality(T) <= peak'
  <2> DEFINE f == [w \in InUse(view') |-> view'[w].buffer]
  <2>1. DOMAIN f = InUse(view') /\ \A t \in T : \E w \in InUse(view') : f[w] = t
    BY <1>8 DEF InUse
  <2> HIDE DEF f
  <2>2. IsFiniteSet(T) /\ Cardinality(T) <= count
    BY <1>4, <2>1, Imaged DEF count
  <2>3. Cardinality(T) \in Nat
    BY <2>2, FS_CardinalityType
  <2>4. QED
    BY <1>6, <1>7, <2>2, <2>3
<1>9. QED
  BY <1>4, <1>7, <1>8 DEF count

LEMMA InitPool == ViewsInit => PoolInv
<1> SUFFICES ASSUME ViewsInit PROVE PoolInv
  OBVIOUS
<1>1. peak = 0 /\ freeValues = <<>> /\ freeItems = <<>> /\ \A v \in ViewIds : view[v].buffer = NoBuffer
  BY DEF ViewsInit, Closed
<1>2. ToSet(<<>>) = {}
  BY DEF ToSet
<1>3. ValueBuffers = {} /\ ItemBuffers = {} /\ InUse(view) = {}
  BY <1>1, <1>2 DEF ValueBuffers, ItemBuffers, InUse
<1>4. \A n : OfLength(n) = {}
  BY <1>3 DEF OfLength
<1>5. QED
  BY <1>1, <1>3, <1>4, FS_EmptySet DEF PoolInv

\* A buffer moves from the free ones to a view of its kind.
LEMMA OpenReusingPool ==
  ASSUME ViewsInv, PoolInv, NEW v \in ViewIds, ~IsOpen(v), NEW p \in Parents, NEW m \in Messages,
         OpenReusing(v, p, m)
  PROVE  PoolInv'
<1>1. ViewsTypeOK /\ FreeLists /\ OneUse
  BY DEF ViewsInv
<1>2. PICK i \in LastOf(LongEnough(FieldCount[m])) :
        Opened(v, p, m, freeValues[i]) /\ freeValues' = SwapRemove(freeValues, i)
  BY DEF OpenReusing
<1>3. cells' = cells /\ freeItems' = freeItems /\ CountsPeak /\ m \notin PyLists
  BY ObjectsAssumption DEF OpenReusing
<1> DEFINE b == freeValues[i]
<1>4. i \in DOMAIN freeValues
  BY <1>2 DEF LastOf, LongEnough
<1>5. ToSet(freeValues') = ToSet(freeValues) \ {b} /\ b \in ToSet(freeValues) /\ b \in Buffers
  BY <1>1, <1>2, <1>4, TakenOut DEF FreeLists
<1>6. Opened(v, p, m, b) /\ view[v].buffer = NoBuffer
  BY <1>1, <1>2 DEF OneUse, IsOpen
<1> HIDE DEF b
<1>7. /\ view'[v].object = m /\ view'[v].buffer = b
      /\ \A w \in ViewIds \ {v} : view'[w] = view[w]
  BY <1>1, <1>5, <1>6, OpenedTypes
<1>8. ValueBuffers' \subseteq ValueBuffers
  <2> SUFFICES ASSUME NEW c \in ValueBuffers' PROVE c \in ValueBuffers
    OBVIOUS
  <2>1. \/ c \in ToSet(freeValues')
        \/ \E w \in ViewIds : view'[w].buffer = c /\ c # NoBuffer /\ view'[w].object \in Messages
    BY AreBuffers
  <2>2. QED
    BY <1>5, <1>7, <2>1, AreBuffers
<1>9. ItemBuffers' \subseteq ItemBuffers
  <2> SUFFICES ASSUME NEW c \in ItemBuffers' PROVE c \in ItemBuffers
    OBVIOUS
  <2>1. \/ c \in ToSet(freeItems')
        \/ \E w \in ViewIds : view'[w].buffer = c /\ c # NoBuffer /\ view'[w].object \in PyLists
    BY AreBuffers
  <2>2. QED
    BY <1>3, <1>7, <2>1, AreBuffers
<1>10. /\ peak' \in Nat /\ peak <= peak'
       /\ IsFiniteSet(InUse(view)') /\ Cardinality(InUse(view)') <= peak'
  BY <1>3, <1>7, PeakCounted
<1>11. QED
  BY <1>3, <1>8, <1>9, <1>10, ValuesKept, ItemsKept DEF PoolInv

LEMMA OpenAllocatingPool ==
  ASSUME ViewsInv, PoolInv, NEW v \in ViewIds, ~IsOpen(v), NEW p \in Parents, NEW m \in Messages,
         OpenAllocating(v, p, m)
  PROVE  PoolInv'
<1> DEFINE b == NewBuffer
           fresh == [i \in Slots(m) |-> Empty]
           k == FieldCount[m]
<1>1. ViewsTypeOK /\ FreeLists /\ OneUse
  BY DEF ViewsInv
<1>2. /\ cells' = [cells EXCEPT ![b] = fresh] /\ Opened(v, p, m, b) /\ LongEnough(k) = {}
      /\ freeValues' = freeValues /\ freeItems' = freeItems /\ CountsPeak
  BY DEF OpenAllocating
<1>3. /\ b \in Buffers /\ ~Used(b) /\ b \notin ToSet(freeValues) \cup ToSet(freeItems)
  BY NewBufferIs DEF OpenAllocating
<1>4. k \in Nat /\ fresh \in Seq({Empty}) /\ Len(fresh) = k /\ m \notin PyLists
  BY ObjectsAssumption DEF Slots
<1> HIDE DEF b, fresh
<1>5. /\ view'[v].object = m /\ view'[v].buffer = b
      /\ \A w \in ViewIds \ {v} : view'[w] = view[w]
  BY <1>1, <1>2, <1>3, OpenedTypes
<1>6. cells'[b] = fresh /\ \A c \in Buffers \ {b} : cells'[c] = cells[c]
  BY <1>1, <1>2, <1>3 DEF ViewsTypeOK
<1>7. /\ peak' \in Nat /\ peak <= peak'
      /\ IsFiniteSet(InUse(view)') /\ Cardinality(InUse(view)') <= peak'
      /\ \A T : (\A c \in T : \E w \in ViewIds : view'[w].buffer = c /\ c # NoBuffer) =>
                IsFiniteSet(T) /\ Cardinality(T) <= peak'
  BY <1>2, <1>5, PeakCounted
<1>8. ASSUME NEW c \in ValueBuffers'
      PROVE  c = b \/ (c \in ValueBuffers /\ c \in Buffers \ {b})
  <2>1. \/ c \in ToSet(freeValues)
        \/ \E w \in ViewIds : view'[w].buffer = c /\ c # NoBuffer /\ view'[w].object \in Messages
    BY <1>2, <1>8, AreBuffers
  <2>2. CASE c \in ToSet(freeValues)
    <3>1. c \in Buffers
      BY <1>1, <2>2 DEF FreeLists, ToSet
    <3>2. QED
      BY <2>2, <3>1, AreBuffers
  <2>3. CASE \E w \in ViewIds : view'[w].buffer = c /\ c # NoBuffer /\ view'[w].object \in Messages
    <3>1. PICK w \in ViewIds : view'[w].buffer = c /\ c # NoBuffer /\ view'[w].object \in Messages
      BY <2>3
    <3>2. w # v => view[w].buffer = c /\ view[w].object \in Messages /\ c \in Buffers
      BY <1>1, <1>5, <3>1 DEF ViewsTypeOK, ViewRecords
    <3>3. QED
      BY <1>5, <3>1, <3>2, AreBuffers
  <2>4. QED
    BY <2>1, <2>2, <2>3
<1>9. ASSUME NEW n \in Nat
      PROVE  IsFiniteSet(OfLength(n)') /\ Cardinality(OfLength(n)') <= peak'
  <2>1. ASSUME NEW c \in OfLength(n)'
        PROVE  c \in ValueBuffers' /\ Len(cells'[c]) = n
    BY <2>1 DEF OfLength
  <2>2. CASE n = k
    <3>1. ASSUME NEW c \in OfLength(n)'
          PROVE  \E w \in ViewIds : view'[w].buffer = c /\ c # NoBuffer
      <4>1. c \in ToSet(freeValues) => c = b
        <5>1. ASSUME c \in ToSet(freeValues), c # b PROVE FALSE
          <6>1. PICK i \in DOMAIN freeValues : freeValues[i] = c
            BY <5>1 DEF ToSet
          <6>2. Len(cells[c]) = k
            BY <1>6, <1>8, <2>1, <2>2, <3>1, <5>1
          <6>3. i \in LongEnough(k)
            BY <1>4, <6>1, <6>2 DEF LongEnough
          <6>4. QED
            BY <1>2, <6>3
        <5>2. QED
          BY <5>1
      <4>2. c = b => \E w \in ViewIds : view'[w].buffer = c /\ c # NoBuffer
        BY <1>3, <1>5, ViewsAssumption
      <4>3. \/ c \in ToSet(freeValues)
            \/ \E w \in ViewIds : view'[w].buffer = c /\ c # NoBuffer /\ view'[w].object \in Messages
        BY <1>2, <2>1, <3>1, AreBuffers
      <4>4. QED
        BY <4>1, <4>2, <4>3
    <3>2. QED
      BY <1>7, <3>1
  <2>3. CASE n # k
    <3>1. OfLength(n)' \subseteq OfLength(n)
      <4> SUFFICES ASSUME NEW c \in OfLength(n)' PROVE c \in OfLength(n)
        OBVIOUS
      <4>1. c # b
        BY <1>4, <1>6, <2>1, <2>3
      <4>2. QED
        BY <1>6, <1>8, <2>1, <4>1 DEF OfLength
    <3>2. IsFiniteSet(OfLength(n)) /\ Cardinality(OfLength(n)) <= peak /\ peak \in Nat
      BY DEF PoolInv
    <3>3. /\ IsFiniteSet(OfLength(n)') /\ Cardinality(OfLength(n)') <= Cardinality(OfLength(n))
          /\ Cardinality(OfLength(n)') \in Nat /\ Cardinality(OfLength(n)) \in Nat
      BY <3>1, <3>2, FS_Subset, FS_CardinalityType
    <3>4. QED
      BY <1>7, <3>2, <3>3
  <2>4. QED
    BY <2>2, <2>3
<1>10. ItemBuffers' \subseteq ItemBuffers
  <2> SUFFICES ASSUME NEW c \in ItemBuffers' PROVE c \in ItemBuffers
    OBVIOUS
  <2>1. \/ c \in ToSet(freeItems')
        \/ \E w \in ViewIds : view'[w].buffer = c /\ c # NoBuffer /\ view'[w].object \in PyLists
    BY AreBuffers
  <2>2. QED
    BY <1>2, <1>4, <1>5, <2>1, AreBuffers
<1>11. QED
  BY <1>7, <1>9, <1>10, ItemsKept DEF PoolInv

\* A list's items are read: the buffers of messages stay as they are.
LEMMA ItemsReadValues ==
  ASSUME ViewsInv, PoolInv, NEW v \in ViewIds, NEW b \in Buffers, b \notin ToSet(freeValues), ~Used(b),
         freeValues' = freeValues, \A c \in Buffers \ {b} : cells'[c] = cells[c],
         \A w \in ViewIds \ {v} : view'[w] = view[w], view'[v].object \in PyLists
  PROVE  ValueBuffers' \subseteq ValueBuffers /\ \A c \in ValueBuffers' : Len(cells'[c]) = Len(cells[c])
<1>1. ViewsTypeOK /\ FreeLists
  BY DEF ViewsInv
<1>2. ASSUME NEW c \in ValueBuffers'
      PROVE  c \in ValueBuffers /\ c \in Buffers \ {b}
  <2>1. \/ c \in ToSet(freeValues)
        \/ \E w \in ViewIds : view'[w].buffer = c /\ c # NoBuffer /\ view'[w].object \in Messages
    BY <1>2, AreBuffers
  <2>2. CASE c \in ToSet(freeValues)
    <3>1. c \in Buffers
      BY <1>1, <2>2 DEF FreeLists, ToSet
    <3>2. QED
      BY <2>2, <3>1, AreBuffers
  <2>3. CASE \E w \in ViewIds : view'[w].buffer = c /\ c # NoBuffer /\ view'[w].object \in Messages
    <3>1. PICK w \in ViewIds : view'[w].buffer = c /\ c # NoBuffer /\ view'[w].object \in Messages
      BY <2>3
    <3>2. w # v /\ view[w] = view'[w]
      BY <3>1, ObjectsAssumption
    <3>3. c \in Buffers
      BY <1>1, <3>1, <3>2 DEF ViewsTypeOK, ViewRecords
    <3>4. QED
      BY <3>1, <3>2, <3>3, AreBuffers DEF Used
  <2>4. QED
    BY <2>1, <2>2, <2>3
<1>3. QED
  BY <1>2

LEMMA ReadItemsReusingPool ==
  ASSUME ViewsInv, PoolInv, NEW v \in ViewIds, ReadItemsReusing(v)
  PROVE  PoolInv'
<1>1. ViewsTypeOK /\ FreeLists /\ OneUse
  BY DEF ViewsInv
<1> DEFINE b == Last(freeItems)
<1>2. /\ ItemsUnread(v) /\ AppendItems(v, b) /\ freeItems # <<>> /\ freeItems' = Front(freeItems)
      /\ freeValues' = freeValues /\ CountsPeak
  BY DEF ReadItemsReusing
<1>3. ToSet(freeItems') = ToSet(freeItems) \ {b} /\ b \in ToSet(freeItems)
  BY <1>1, <1>2, Popped DEF FreeLists
<1>4. b \in Buffers
  BY <1>1, <1>3 DEF FreeLists, ToSet
<1> HIDE DEF b
<1>5. ~Used(b) /\ b \notin ToSet(freeValues)
  <2>1. \A w \in ViewIds : view[w].buffer # b
    BY <1>1, <1>3, <1>4, ViewsAssumption DEF OneUse
  <2>2. QED
    BY <1>1, <1>3, <2>1 DEF Used, FreeLists
<1>6. /\ \A c \in Buffers \ {b} : cells'[c] = cells[c]
      /\ \A w \in ViewIds \ {v} : view'[w] = view[w]
      /\ view'[v].buffer = b /\ view'[v].object \in PyLists
  BY <1>2, <1>4, <1>5, AppendedItems
<1>7. ValueBuffers' \subseteq ValueBuffers /\ \A c \in ValueBuffers' : Len(cells'[c]) = Len(cells[c])
  BY <1>2, <1>4, <1>5, <1>6, ItemsReadValues
<1>8. ItemBuffers' \subseteq ItemBuffers
  <2> SUFFICES ASSUME NEW c \in ItemBuffers' PROVE c \in ItemBuffers
    OBVIOUS
  <2>1. \/ c \in ToSet(freeItems')
        \/ \E w \in ViewIds : view'[w].buffer = c /\ c # NoBuffer /\ view'[w].object \in PyLists
    BY AreBuffers
  <2>2. QED
    BY <1>3, <1>6, <2>1, AreBuffers
<1>9. /\ peak' \in Nat /\ peak <= peak'
      /\ IsFiniteSet(InUse(view)') /\ Cardinality(InUse(view)') <= peak'
  BY <1>2, <1>6, PeakCounted
<1>10. QED
  BY <1>7, <1>8, <1>9, ValuesKept, ItemsKept DEF PoolInv

LEMMA ReadItemsAllocatingPool ==
  ASSUME ViewsInv, PoolInv, NEW v \in ViewIds, ReadItemsAllocating(v)
  PROVE  PoolInv'
<1>1. ViewsTypeOK /\ FreeLists
  BY DEF ViewsInv
<1> DEFINE b == NewBuffer
<1>2. /\ ItemsUnread(v) /\ AppendItems(v, b) /\ freeItems = <<>>
      /\ freeValues' = freeValues /\ freeItems' = freeItems /\ CountsPeak
  BY DEF ReadItemsAllocating
<1>3. b \in Buffers /\ ~Used(b) /\ b \notin ToSet(freeValues)
  BY NewBufferIs DEF ReadItemsAllocating
<1> HIDE DEF b
<1>4. /\ \A c \in Buffers \ {b} : cells'[c] = cells[c]
      /\ \A w \in ViewIds \ {v} : view'[w] = view[w]
      /\ view'[v].buffer = b /\ view'[v].object \in PyLists
  BY <1>2, <1>3, AppendedItems
<1>5. ValueBuffers' \subseteq ValueBuffers /\ \A c \in ValueBuffers' : Len(cells'[c]) = Len(cells[c])
  BY <1>2, <1>3, <1>4, ItemsReadValues
<1>6. /\ peak' \in Nat /\ peak <= peak'
      /\ IsFiniteSet(InUse(view)') /\ Cardinality(InUse(view)') <= peak'
      /\ \A T : (\A c \in T : \E w \in ViewIds : view'[w].buffer = c /\ c # NoBuffer) =>
                IsFiniteSet(T) /\ Cardinality(T) <= peak'
  BY <1>2, <1>4, PeakCounted
<1>7. \A c \in ItemBuffers' : \E w \in ViewIds : view'[w].buffer = c /\ c # NoBuffer
  <2>1. ToSet(freeItems') = {}
    BY <1>2 DEF ToSet
  <2>2. QED
    BY <2>1, AreBuffers
<1>8. QED
  BY <1>5, <1>6, <1>7, ValuesKept DEF PoolInv

LEMMA CloseMessagePool ==
  ASSUME ViewsInv, PoolInv, NEW v \in ViewIds, CloseMessage(v)
  PROVE  PoolInv'
<1>1. ViewsTypeOK /\ FreeLists /\ OneUse
  BY DEF ViewsInv
<1> DEFINE b == view[v].buffer
<1>2. /\ Closing(v) /\ b # NoBuffer /\ freeItems' = freeItems /\ peak' = peak
      /\ cells' = [cells EXCEPT ![b] = Emptied(b)] /\ freeValues' = Append(freeValues, b)
      /\ view[v].object \in Messages
  BY DEF CloseMessage
<1>3. b \in Buffers /\ b \notin ToSet(freeValues)
  BY <1>1, <1>2 DEF ViewsTypeOK, ViewRecords, OneUse
<1>4. /\ view'[v].buffer = NoBuffer /\ \A w \in ViewIds \ {v} : view'[w] = view[w]
  BY <1>1, <1>2, ClosingTypes
<1>5. ToSet(freeValues') = ToSet(freeValues) \cup {b}
  BY <1>1, <1>2, <1>3, Returned DEF FreeLists
<1>6. b \in ValueBuffers
  BY <1>2, AreBuffers
<1>7. Len(Emptied(b)) = Len(cells[b])
  <2>1. cells[b] \in Seq(Cell)
    BY <1>1, <1>3 DEF ViewsTypeOK
  <2>2. DOMAIN cells[b] = 1..Len(cells[b]) /\ Len(cells[b]) \in Nat
    BY <2>1
  <2>3. Emptied(b) \in Seq({Empty}) /\ DOMAIN Emptied(b) = 1..Len(cells[b])
    BY <2>2 DEF Emptied
  <2>4. QED
    BY <2>2, <2>3
<1> HIDE DEF b
<1>8. \A c : Len(cells'[c]) = Len(cells[c]) \/ c \notin Buffers
  BY <1>1, <1>2, <1>3, <1>7 DEF ViewsTypeOK
<1>9. ValueBuffers' \subseteq ValueBuffers /\ ValueBuffers' \subseteq Buffers
  <2> SUFFICES ASSUME NEW c \in ValueBuffers' PROVE c \in ValueBuffers /\ c \in Buffers
    OBVIOUS
  <2>1. \/ c \in ToSet(freeValues')
        \/ \E w \in ViewIds : view'[w].buffer = c /\ c # NoBuffer /\ view'[w].object \in Messages
    BY AreBuffers
  <2>2. CASE c \in ToSet(freeValues')
    <3>1. \A d \in ToSet(freeValues) : d \in Buffers
      BY <1>1 DEF FreeLists, ToSet
    <3>2. QED
      BY <1>3, <1>5, <1>6, <2>2, <3>1, AreBuffers
  <2>3. CASE \E w \in ViewIds : view'[w].buffer = c /\ c # NoBuffer /\ view'[w].object \in Messages
    <3>1. PICK w \in ViewIds : view[w].buffer = c /\ c # NoBuffer /\ view[w].object \in Messages
      BY <1>4, <2>3
    <3>2. QED
      BY <1>1, <3>1, AreBuffers DEF ViewsTypeOK, ViewRecords
  <2>4. QED
    BY <2>1, <2>2, <2>3
<1>10. ItemBuffers' \subseteq ItemBuffers
  BY <1>2, <1>4, AreBuffers
<1>11. InUse(view)' \subseteq InUse(view)
  BY <1>4 DEF InUse
<1>12. QED
  BY <1>2, <1>8, <1>9, <1>10, <1>11, NotTaken

LEMMA CloseListPool ==
  ASSUME ViewsInv, PoolInv, NEW v \in ViewIds, CloseList(v)
  PROVE  PoolInv'
<1>1. ViewsTypeOK /\ FreeLists /\ OneUse
  BY DEF ViewsInv
<1> DEFINE b == view[v].buffer
<1>2. /\ Closing(v) /\ b # NoBuffer /\ freeValues' = freeValues /\ peak' = peak
      /\ cells' = [cells EXCEPT ![b] = <<>>] /\ view[v].object \in PyLists
      /\ freeItems' = Append(freeItems, b) \/ freeItems' = freeItems
  BY DEF CloseList
<1>3. b \in Buffers /\ b \notin ToSet(freeValues) \cup ToSet(freeItems)
  BY <1>1, <1>2 DEF ViewsTypeOK, ViewRecords, OneUse
<1>4. /\ view'[v].buffer = NoBuffer /\ \A w \in ViewIds \ {v} : view'[w] = view[w]
  BY <1>1, <1>2, ClosingTypes
<1>5. ToSet(freeItems') \subseteq ToSet(freeItems) \cup {b}
  <2>1. freeItems' = Append(freeItems, b) => ToSet(freeItems') = ToSet(freeItems) \cup {b}
    BY <1>1, <1>3, Returned DEF FreeLists
  <2>2. QED
    BY <1>2, <2>1
<1>6. b \in ItemBuffers /\ \A w \in ViewIds \ {v} : view[w].buffer # b
  BY <1>1, <1>2, AreBuffers DEF OneUse
<1> HIDE DEF b
<1>7. ItemBuffers' \subseteq ItemBuffers
  <2> SUFFICES ASSUME NEW c \in ItemBuffers' PROVE c \in ItemBuffers
    OBVIOUS
  <2>1. \/ c \in ToSet(freeItems')
        \/ \E w \in ViewIds : view'[w].buffer = c /\ c # NoBuffer /\ view'[w].object \in PyLists
    BY AreBuffers
  <2>2. QED
    BY <1>4, <1>5, <1>6, <2>1, AreBuffers
<1>8. ASSUME NEW c \in ValueBuffers' PROVE c \in ValueBuffers /\ cells'[c] = cells[c]
  <2>1. \/ c \in ToSet(freeValues)
        \/ \E w \in ViewIds : view'[w].buffer = c /\ c # NoBuffer /\ view'[w].object \in Messages
    BY <1>2, <1>8, AreBuffers
  <2>2. c # b
    BY <1>3, <1>4, <1>6, <2>1
  <2>3. c \in ValueBuffers
    BY <1>4, <2>1, AreBuffers
  <2>4. cells'[c] = cells[c]
    BY <1>1, <1>2, <2>2 DEF ViewsTypeOK
  <2>5. QED
    BY <2>3, <2>4
<1>9. InUse(view)' \subseteq InUse(view)
  BY <1>4 DEF InUse
<1>10. QED
  BY <1>2, <1>7, <1>8, <1>9, NotTaken

\* A step whose buffers stay where they are, free or with their views.
LEMMA NothingTaken ==
  ASSUME ViewsInv, PoolInv, peak' = peak, freeValues' = freeValues,
         ToSet(freeItems') \subseteq ToSet(freeItems),
         \A w \in ViewIds : view'[w].buffer # NoBuffer => view'[w] = view[w],
         \A c \in Buffers : Len(cells'[c]) = Len(cells[c])
  PROVE  PoolInv'
<1>1. ViewsTypeOK /\ FreeLists
  BY DEF ViewsInv
<1>2. ValueBuffers' \subseteq ValueBuffers /\ ItemBuffers' \subseteq ItemBuffers
  <2>1. ASSUME NEW c \in ValueBuffers' PROVE c \in ValueBuffers
    <3>1. \/ c \in ToSet(freeValues)
          \/ \E w \in ViewIds : view'[w].buffer = c /\ c # NoBuffer /\ view'[w].object \in Messages
      BY <2>1, AreBuffers
    <3>2. QED
      BY <3>1, AreBuffers
  <2>2. ASSUME NEW c \in ItemBuffers' PROVE c \in ItemBuffers
    <3>1. \/ c \in ToSet(freeItems')
          \/ \E w \in ViewIds : view'[w].buffer = c /\ c # NoBuffer /\ view'[w].object \in PyLists
      BY <2>2, AreBuffers
    <3>2. QED
      BY <3>1, AreBuffers
  <2>3. QED
    BY <2>1, <2>2
<1>3. ValueBuffers \subseteq Buffers
  <2>1. \A c \in ToSet(freeValues) : c \in Buffers
    BY <1>1 DEF FreeLists, ToSet
  <2>2. \A w \in ViewIds : view[w].buffer # NoBuffer => view[w].buffer \in Buffers
    BY <1>1 DEF ViewsTypeOK, ViewRecords
  <2>3. QED
    BY <2>1, <2>2, AreBuffers
<1>4. InUse(view)' \subseteq InUse(view)
  BY DEF InUse
<1>5. QED
  BY <1>2, <1>3, <1>4, NotTaken

LEMMA OpenBarePool ==
  ASSUME ViewsInv, PoolInv, NEW v \in ViewIds, ~IsOpen(v), NEW p \in Parents,
         NEW o \in Messages \cup PyLists \cup {Nothing}, OpenBare(v, p, o)
  PROVE  PoolInv'
<1>1. ViewsTypeOK
  BY DEF ViewsInv
<1>2. /\ Opened(v, p, o, NoBuffer) /\ cells' = cells /\ peak' = peak
      /\ freeValues' = freeValues /\ freeItems' = freeItems
  BY DEF OpenBare
<1>3. view'[v].buffer = NoBuffer /\ \A w \in ViewIds \ {v} : view'[w] = view[w]
  BY <1>1, <1>2, OpenedTypes
<1>4. QED
  BY <1>2, <1>3, NothingTaken

LEMMA OpenMessagePool ==
  ASSUME ViewsInv, PoolInv, NEW v \in ViewIds, OpenMessage(v)
  PROVE  PoolInv'
<1>1. PICK p \in Parents, m \in Messages \cup {Nothing} :
        /\ ~IsOpen(v)
        /\ IF CellsNeeded(m) = 0 THEN OpenBare(v, p, m)
           ELSE OpenReusing(v, p, m) \/ OpenAllocating(v, p, m)
  BY DEF OpenMessage
<1>2. CASE CellsNeeded(m) = 0
  BY <1>1, <1>2, OpenBarePool
<1>3. CASE CellsNeeded(m) # 0
  <2>1. m \in Messages
    BY <1>3 DEF CellsNeeded
  <2>2. QED
    BY <1>1, <1>3, <2>1, OpenReusingPool, OpenAllocatingPool
<1>4. QED
  BY <1>2, <1>3

LEMMA OpenListPool ==
  ASSUME ViewsInv, PoolInv, NEW v \in ViewIds, OpenList(v)
  PROVE  PoolInv'
<1>1. PICK p \in Parents, l \in PyLists \cup {Nothing} : ~IsOpen(v) /\ OpenBare(v, p, l)
  BY DEF OpenList
<1>2. QED
  BY <1>1, OpenBarePool

LEMMA ReadFieldPool ==
  ASSUME ViewsInv, PoolInv, NEW v \in ViewIds, ReadField(v)
  PROVE  PoolInv'
<1>1. ViewsTypeOK /\ OwnCells
  BY DEF ViewsInv
<1> DEFINE b == view[v].buffer
           m == view[v].object
<1>2. PICK slot \in Slots(m) : cells' = [cells EXCEPT ![b][slot] = <<m, slot>>]
  BY DEF ReadField
<1>3. /\ view' = view /\ peak' = peak /\ freeValues' = freeValues /\ freeItems' = freeItems
      /\ m \in Messages
  BY DEF ReadField
<1>4. <<m, slot>> \in Cell
  BY <1>3, ObjectsAssumption DEF Cell, Slots
<1> DEFINE c == [cells[b] EXCEPT ![slot] = <<m, slot>>]
<1>5. cells' = [cells EXCEPT ![b] = c]
  BY <1>2
<1>6. b \in Buffers => Len(c) = Len(cells[b])
  <2>1. SUFFICES ASSUME b \in Buffers PROVE Len(c) = Len(cells[b])
    OBVIOUS
  <2>2. cells[b] \in Seq(Cell)
    BY <1>1, <2>1 DEF ViewsTypeOK
  <2>3. DOMAIN cells[b] = 1..Len(cells[b]) /\ Len(cells[b]) \in Nat
    BY <2>2
  <2>4. slot \in 1..Len(cells[b])
    <3>1. b # NoBuffer
      BY <2>1, ViewsAssumption
    <3>2. QED
      BY <1>1, <1>3, <2>3, <3>1 DEF OwnCells, Holds
  <2>5. c \in Seq(Cell) /\ DOMAIN c = 1..Len(cells[b])
    BY <1>4, <2>2, <2>3, <2>4
  <2>6. QED
    BY <2>3, <2>5
<1> HIDE DEF b, c
<1>7. \A d \in Buffers : Len(cells'[d]) = Len(cells[d])
  BY <1>1, <1>5, <1>6 DEF ViewsTypeOK
<1>8. QED
  BY <1>3, <1>7, NothingTaken

LEMMA ReadItemsFailsPool ==
  ASSUME ViewsInv, PoolInv, NEW v \in ViewIds, ReadItemsFails(v)
  PROVE  PoolInv'
<1>1. FreeLists
  BY DEF ViewsInv
<1>2. /\ freeItems # <<>> /\ freeItems' = Front(freeItems) /\ peak' = peak
      /\ freeValues' = freeValues /\ view' = view /\ cells' = cells
  BY DEF ReadItemsFails
<1>3. ToSet(freeItems') \subseteq ToSet(freeItems)
  BY <1>1, <1>2, Popped DEF FreeLists
<1>4. QED
  BY <1>2, <1>3, NothingTaken

LEMMA CloseBarePool ==
  ASSUME ViewsInv, PoolInv, NEW v \in ViewIds, CloseBare(v)
  PROVE  PoolInv'
<1>1. ViewsTypeOK
  BY DEF ViewsInv
<1>2. /\ Closing(v) /\ cells' = cells /\ peak' = peak
      /\ freeValues' = freeValues /\ freeItems' = freeItems
  BY DEF CloseBare
<1>3. view'[v].buffer = NoBuffer /\ \A w \in ViewIds \ {v} : view'[w] = view[w]
  BY <1>1, <1>2, ClosingTypes
<1>4. QED
  BY <1>2, <1>3, NothingTaken

LEMMA PoolInvariant == ViewsSpec => []PoolInv
<1>1. ViewsInv /\ PoolInv /\ ViewsNext => PoolInv'
  <2> SUFFICES ASSUME ViewsInv, PoolInv, ViewsNext PROVE PoolInv'
    OBVIOUS
  <2>1. CASE Resize
    <3>1. /\ view' = view /\ cells' = cells /\ peak' = peak
          /\ freeValues' = freeValues /\ freeItems' = freeItems
      BY <2>1 DEF Resize
    <3>2. QED
      BY <3>1, NothingTaken
  <2>2. ASSUME NEW v \in ViewIds, ViewStep(v) PROVE PoolInv'
    BY <2>2, OpenMessagePool, OpenListPool, ReadFieldPool, ReadItemsReusingPool,
       ReadItemsAllocatingPool, ReadItemsFailsPool, CloseBarePool, CloseMessagePool,
       CloseListPool DEF ViewStep
  <2>3. QED
    BY <2>1, <2>2 DEF ViewsNext
<1>2. ASSUME ViewsInv, PoolInv, UNCHANGED viewVars PROVE PoolInv'
  BY <1>2, NothingTaken DEF viewVars
<1>3. ViewsInv /\ PoolInv /\ [ViewsNext]_viewVars => PoolInv'
  BY <1>1, <1>2
<1>4. QED
  BY ViewsInvariant, InitPool, <1>3, PTL DEF ViewsSpec

\* However many messages a validation visits, the buffers of one length are no
\* more than were once in use together, and so are the free ones for items.
\* (take_values, list items and Drop in view.rs)
THEOREM PoolIsBounded == ViewsSpec => []PoolBounded
<1>1. ASSUME ViewsInv, PoolInv PROVE PoolBounded
  <2>1. ViewsTypeOK /\ FreeLists
    BY <1>1 DEF ViewsInv
  <2>2. ASSUME NEW b \in ValueBuffers
        PROVE  Cardinality({c \in ValueBuffers : Len(cells[c]) = Len(cells[b])}) <= peak
    <3>1. b \in Buffers
      <4>1. \A c \in ToSet(freeValues) : c \in Buffers
        BY <2>1 DEF FreeLists, ToSet
      <4>2. \A w \in ViewIds : view[w].buffer # NoBuffer => view[w].buffer \in Buffers
        BY <2>1 DEF ViewsTypeOK, ViewRecords
      <4>3. QED
        BY <2>2, <4>1, <4>2, AreBuffers
    <3>2. cells[b] \in Seq(Cell)
      BY <2>1, <3>1 DEF ViewsTypeOK
    <3>3. Len(cells[b]) \in Nat
      BY <3>2
    <3>4. QED
      BY <1>1, <3>3 DEF PoolInv, OfLength
  <2>3. Len(freeItems) <= peak
    <3>1. IsFiniteSet(ToSet(freeItems)) /\ Cardinality(ToSet(freeItems)) = Len(freeItems)
      BY <2>1, CountedOnce DEF FreeLists
    <3>2. ToSet(freeItems) \subseteq ItemBuffers
      BY DEF ItemBuffers
    <3>3. IsFiniteSet(ItemBuffers) /\ Cardinality(ItemBuffers) <= peak /\ peak \in Nat
      BY <1>1 DEF PoolInv
    <3>4. Cardinality(ToSet(freeItems)) <= Cardinality(ItemBuffers)
          /\ Cardinality(ToSet(freeItems)) \in Nat /\ Cardinality(ItemBuffers) \in Nat
      BY <3>1, <3>2, <3>3, FS_Subset, FS_CardinalityType
    <3>5. QED
      BY <3>1, <3>3, <3>4
  <2>4. QED
    BY <2>2, <2>3 DEF PoolBounded
<1>2. QED
  BY ViewsInvariant, PoolInvariant, <1>1, PTL

----------------------------------------------------------------------------
(* The search for two equal items of a list. *)

\* The keys of the first n items.
KeysTo(n) == {KeyOf(items[i]) : i \in 1..n} \ {NoKey}

Remembered ==
  /\ search = "pairs" => ToSet(window) = KeysTo(position) /\ ~HasPair(position)
  /\ search = "hashes" => seen = KeysTo(position) /\ ~HasPair(position)
  /\ search = "duplicate" => HasPair(Len(items))
  /\ search = "unique" => ~HasPair(Len(items))

DupInv == DupTypeOK /\ Remembered

----------------------------------------------------------------------------
\* Two items are equal if they have a key, and the same one.
LEMMA SameKey ==
  ASSUME NEW x \in Items, NEW y \in Items
  PROVE  SameItem(x, y) <=> KeyOf(x) # NoKey /\ KeyOf(x) = KeyOf(y)
<1>1. KeyOf(x) = NoKey <=> x \in {NotANumber, NoScalar}
  BY ItemsAssumption DEF KeyOf
<1>2. KeyOf(y) = NoKey <=> y \in {NotANumber, NoScalar}
  BY ItemsAssumption DEF KeyOf
<1>3. ASSUME x \notin {NotANumber, NoScalar}, y \notin {NotANumber, NoScalar}
      PROVE KeyOf(x) = KeyOf(y) <=> x = y \/ {x, y} = {MinusZero, PlusZero}
  <2>1. KeyOf(x) = (IF x = MinusZero THEN PlusZero ELSE x)
    BY <1>3 DEF KeyOf
  <2>2. KeyOf(y) = (IF y = MinusZero THEN PlusZero ELSE y)
    BY <1>3 DEF KeyOf
  <2>3. CASE x = MinusZero
    BY <2>1, <2>2, <2>3
  <2>4. CASE y = MinusZero
    BY <2>1, <2>2, <2>4
  <2>5. CASE x # MinusZero /\ y # MinusZero
    BY <2>1, <2>2, <2>5
  <2>6. QED
    BY <2>3, <2>4, <2>5
<1>4. QED
  BY <1>1, <1>2, <1>3 DEF SameItem

\* One item more makes a pair if its key is known.
LEMMA NextPair ==
  ASSUME items \in Seq(Items), NEW n \in Nat, n < Len(items)
  PROVE  HasPair(n + 1) <=>
           \/ HasPair(n)
           \/ KeyOf(items[n + 1]) # NoKey /\ KeyOf(items[n + 1]) \in KeysTo(n)
<1> DEFINE new == items[n + 1]
<1>1. \A i \in 1..(n + 1) : items[i] \in Items
  BY ElementOfSeq, LenProperties
<1>2. ASSUME NEW i \in 1..n
      PROVE SameItem(items[i], new) <=> KeyOf(new) # NoKey /\ KeyOf(items[i]) = KeyOf(new)
  BY <1>1, <1>2, SameKey
<1>3. HasPair(n + 1) => HasPair(n) \/ \E i \in 1..n : SameItem(items[i], new)
  <2> SUFFICES ASSUME NEW i \in 1..(n + 1), NEW j \in 1..(n + 1), i < j,
                      SameItem(items[i], items[j])
               PROVE  HasPair(n) \/ \E k \in 1..n : SameItem(items[k], new)
    BY DEF HasPair
  <2>1. i \in 1..n
    OBVIOUS
  <2>2. CASE j = n + 1
    BY <2>1, <2>2
  <2>3. CASE j # n + 1
    <3>1. j \in 1..n
      BY <2>3
    <3>2. QED
      BY <2>1, <3>1 DEF HasPair
  <2>4. QED
    BY <2>2, <2>3
<1>4. HasPair(n) => HasPair(n + 1)
  <2>1. 1..n \subseteq 1..(n + 1)
    OBVIOUS
  <2>2. QED
    BY <2>1 DEF HasPair
<1>5. ASSUME NEW i \in 1..n, SameItem(items[i], new) PROVE HasPair(n + 1)
  <2>1. i \in 1..(n + 1) /\ n + 1 \in 1..(n + 1) /\ i < n + 1
    OBVIOUS
  <2>2. QED
    BY <1>5, <2>1 DEF HasPair
<1>6. (\E i \in 1..n : SameItem(items[i], new)) <=> KeyOf(new) # NoKey /\ KeyOf(new) \in KeysTo(n)
  BY <1>2 DEF KeysTo
<1>7. QED
  BY <1>3, <1>4, <1>5, <1>6

LEMMA NextKeys ==
  ASSUME NEW n \in Nat
  PROVE  KeysTo(n + 1) = KeysTo(n) \cup ({KeyOf(items[n + 1])} \ {NoKey})
<1>1. 1..(n + 1) = 1..n \cup {n + 1}
  OBVIOUS
<1>2. QED
  BY <1>1 DEF KeysTo

\* What the item taken next is, and does to what is behind.
LEMMA NextItem ==
  ASSUME DupInv, position < Len(items)
  PROVE  /\ Key \in Items \cup {NoKey} /\ position + 1 \in 0..Len(items)
         /\ KeysTo(position + 1) = KeysTo(position) \cup ({Key} \ {NoKey})
         /\ HasPair(position + 1) <=>
              HasPair(position) \/ (Key # NoKey /\ Key \in KeysTo(position))
<1>1. items \in Seq(Items) /\ position \in Nat /\ Len(items) \in Nat
  BY LenProperties DEF DupInv, DupTypeOK
<1>2. items[position + 1] \in Items
  BY <1>1, ElementOfSeq
<1>3. KeyOf(items[position + 1]) \in Items \cup {NoKey}
  BY <1>2, ItemsAssumption DEF KeyOf
<1>4. QED
  BY <1>1, <1>3, NextPair, NextKeys DEF Key

LEMMA Appended ==
  ASSUME NEW s \in Seq(Items), NEW x \in Items
  PROVE  /\ Append(s, x) \in Seq(Items) /\ Len(Append(s, x)) = Len(s) + 1
         /\ ToSet(Append(s, x)) = ToSet(s) \cup {x}
<1>1. /\ Append(s, x) \in Seq(Items) /\ Len(Append(s, x)) = Len(s) + 1
      /\ \A i \in 1..Len(s) : Append(s, x)[i] = s[i]
      /\ Append(s, x)[Len(s) + 1] = x
  BY AppendProperties
<1>2. /\ DOMAIN s = 1..Len(s) /\ Len(s) \in Nat
      /\ DOMAIN Append(s, x) = 1..(Len(s) + 1)
  BY <1>1, LenProperties
<1>3. 1..(Len(s) + 1) = 1..Len(s) \cup {Len(s) + 1}
  BY <1>2
<1>4. QED
  BY <1>1, <1>2, <1>3 DEF ToSet

\* A pair is a pair of the whole list too.
LEMMA PairStays ==
  ASSUME items \in Seq(Items), NEW n \in 0..Len(items), HasPair(n)
  PROVE  HasPair(Len(items))
<1>1. 1..n \subseteq 1..Len(items)
  BY LenProperties
<1>2. QED
  BY <1>1 DEF HasPair

----------------------------------------------------------------------------
LEMMA DupInitInv == DupInit => DupInv
<1> SUFFICES ASSUME DupInit PROVE DupInv
  OBVIOUS
<1>1. /\ items \in Seq(Items) /\ position = 0 /\ window = <<>> /\ seen = {}
      /\ search = "pairs"
  BY ListsAssumption DEF DupInit
<1>2. Len(items) \in Nat /\ 0 \in 0..Len(items) /\ Len(window) = 0 /\ window \in Seq(Items)
  BY <1>1, LenProperties
<1>3. DupTypeOK
  BY <1>1, <1>2, PairwiseAssumption DEF DupTypeOK
<1>4. ToSet(window) = {} /\ KeysTo(0) = {} /\ ~HasPair(0)
  BY <1>1 DEF ToSet, KeysTo, HasPair
<1>5. QED
  BY <1>1, <1>3, <1>4 DEF DupInv, Remembered

LEMMA SkipItemInv == DupInv /\ SkipItem => DupInv'
<1> SUFFICES ASSUME DupInv, SkipItem PROVE DupInv'
  OBVIOUS
<1>1. /\ search \in {"pairs", "hashes"} /\ position < Len(items) /\ Key = NoKey
      /\ position' = position + 1
      /\ items' = items /\ window' = window /\ seen' = seen /\ search' = search
  BY DEF SkipItem, More
<1>2. /\ position + 1 \in 0..Len(items) /\ KeysTo(position + 1) = KeysTo(position)
      /\ HasPair(position + 1) <=> HasPair(position)
  BY <1>1, NextItem
<1>3. DupTypeOK'
  BY <1>1, <1>2 DEF DupInv, DupTypeOK
<1>4. KeysTo(position)' = KeysTo(position + 1) /\ (HasPair(position)' <=> HasPair(position + 1))
  BY <1>1 DEF KeysTo, HasPair
<1>5. Remembered'
  BY <1>1, <1>2, <1>4 DEF DupInv, Remembered
<1>6. QED
  BY <1>3, <1>5 DEF DupInv

LEMMA ComparePairsInv == DupInv /\ ComparePairs => DupInv'
<1> SUFFICES ASSUME DupInv, ComparePairs PROVE DupInv'
  OBVIOUS
<1>1. /\ search = "pairs" /\ position < Len(items) /\ Key # NoKey
      /\ position' = position + 1 /\ items' = items
  BY DEF ComparePairs, More
<1>2. /\ Key \in Items /\ position + 1 \in 0..Len(items)
      /\ KeysTo(position + 1) = KeysTo(position) \cup {Key}
      /\ HasPair(position + 1) <=> HasPair(position) \/ Key \in KeysTo(position)
  BY <1>1, NextItem
<1>3. ToSet(window) = KeysTo(position) /\ ~HasPair(position)
  BY <1>1 DEF DupInv, Remembered
<1>4. KeysTo(position)' = KeysTo(position + 1) /\ (HasPair(position)' <=> HasPair(position + 1))
  BY <1>1 DEF KeysTo, HasPair
<1>5. DupTypeOK
  BY DEF DupInv
<1>6. CASE Key \in ToSet(window) /\ search' = "duplicate" /\ UNCHANGED <<window, seen>>
  <2>1. HasPair(Len(items))'
    <3>1. HasPair(position + 1)
      BY <1>2, <1>3, <1>6
    <3>2. HasPair(Len(items))
      BY <1>2, <1>5, <3>1, PairStays DEF DupTypeOK
    <3>3. QED
      BY <1>1, <3>2 DEF HasPair
  <2>2. DupTypeOK'
    BY <1>1, <1>2, <1>5, <1>6 DEF DupTypeOK
  <2>3. QED
    BY <1>6, <2>1, <2>2 DEF DupInv, Remembered
<1>7. CASE /\ Key \notin ToSet(window) /\ Len(window) < Pairwise
           /\ window' = Append(window, Key) /\ UNCHANGED <<seen, search>>
  <2>1. /\ window' \in Seq(Items) /\ Len(window') = Len(window) + 1
        /\ ToSet(window') = ToSet(window) \cup {Key}
    BY <1>2, <1>5, <1>7, Appended DEF DupTypeOK
  <2>2. Len(window) \in Nat
    BY <1>5, LenProperties DEF DupTypeOK
  <2>3. DupTypeOK'
    BY <1>1, <1>2, <1>5, <1>7, <2>1, <2>2, PairwiseAssumption DEF DupTypeOK
  <2>4. Remembered'
    BY <1>1, <1>2, <1>3, <1>4, <1>7, <2>1 DEF Remembered
  <2>5. QED
    BY <2>3, <2>4 DEF DupInv
<1>8. CASE /\ Key \notin ToSet(window) /\ search' = "hashes" /\ window' = <<>>
           /\ seen' = ToSet(window) \cup {Key}
  <2>1. ToSet(window) \subseteq Items
    BY <1>5, ElementOfSeq, LenProperties DEF DupTypeOK, ToSet
  <2>2. window' \in Seq(Items) /\ Len(window') = 0
    BY <1>8
  <2>3. DupTypeOK'
    BY <1>1, <1>2, <1>5, <1>8, <2>1, <2>2, PairwiseAssumption DEF DupTypeOK
  <2>4. Remembered'
    BY <1>2, <1>3, <1>4, <1>8 DEF Remembered
  <2>5. QED
    BY <2>3, <2>4 DEF DupInv
<1>9. QED
  BY <1>6, <1>7, <1>8 DEF ComparePairs

LEMMA CompareHashesInv == DupInv /\ CompareHashes => DupInv'
<1> SUFFICES ASSUME DupInv, CompareHashes PROVE DupInv'
  OBVIOUS
<1>1. /\ search = "hashes" /\ position < Len(items) /\ Key # NoKey
      /\ position' = position + 1 /\ items' = items /\ window' = window
      /\ search' = IF Key \in seen THEN "duplicate" ELSE "hashes"
      /\ seen' = seen \cup {Key}
  BY DEF CompareHashes, More
<1>2. /\ Key \in Items /\ position + 1 \in 0..Len(items)
      /\ KeysTo(position + 1) = KeysTo(position) \cup {Key}
      /\ HasPair(position + 1) <=> HasPair(position) \/ Key \in KeysTo(position)
  BY <1>1, NextItem
<1>3. seen = KeysTo(position) /\ ~HasPair(position)
  BY <1>1 DEF DupInv, Remembered
<1>4. KeysTo(position)' = KeysTo(position + 1) /\ (HasPair(position)' <=> HasPair(position + 1))
  BY <1>1 DEF KeysTo, HasPair
<1>5. HasPair(Len(items))' <=> HasPair(Len(items))
  BY <1>1 DEF HasPair
<1>6. DupTypeOK'
  BY <1>1, <1>2 DEF DupInv, DupTypeOK
<1>7. CASE Key \in seen
  <2>1. HasPair(position + 1)
    BY <1>2, <1>3, <1>7
  <2>2. HasPair(Len(items))
    BY <1>2, <2>1, PairStays DEF DupInv, DupTypeOK
  <2>3. search' = "duplicate"
    BY <1>1, <1>7
  <2>4. QED
    BY <1>5, <1>6, <2>2, <2>3 DEF DupInv, Remembered
<1>8. CASE Key \notin seen
  <2>1. search' = "hashes"
    BY <1>1, <1>8
  <2>2. QED
    BY <1>1, <1>2, <1>3, <1>4, <1>6, <1>8, <2>1 DEF DupInv, Remembered
<1>9. QED
  BY <1>7, <1>8

LEMMA EndOfItemsInv == DupInv /\ EndOfItems => DupInv'
<1> SUFFICES ASSUME DupInv, EndOfItems PROVE DupInv'
  OBVIOUS
<1>1. /\ search \in {"pairs", "hashes"} /\ ~(position < Len(items)) /\ search' = "unique"
      /\ items' = items /\ position' = position /\ window' = window /\ seen' = seen
  BY DEF EndOfItems, More
<1>2. position = Len(items)
  BY <1>1, LenProperties DEF DupInv, DupTypeOK
<1>3. ~HasPair(Len(items))
  BY <1>1, <1>2 DEF DupInv, Remembered
<1>4. ~HasPair(Len(items))'
  BY <1>1, <1>3 DEF HasPair
<1>5. QED
  BY <1>1, <1>4 DEF DupInv, DupTypeOK, Remembered

LEMMA DupInvariant == DupSpec => []DupInv
<1>1. DupInv /\ UNCHANGED dupVars => DupInv'
  <2> SUFFICES ASSUME DupInv, UNCHANGED dupVars PROVE DupInv'
    OBVIOUS
  <2>1. /\ items' = items /\ position' = position /\ window' = window /\ seen' = seen
        /\ search' = search
    BY DEF dupVars
  <2>2. /\ KeysTo(position)' = KeysTo(position)
        /\ HasPair(position)' <=> HasPair(position)
        /\ HasPair(Len(items))' <=> HasPair(Len(items))
    BY <2>1 DEF KeysTo, HasPair
  <2>3. QED
    BY <2>1, <2>2 DEF DupInv, DupTypeOK, Remembered
<1>2. DupInv /\ [DupNext]_dupVars => DupInv'
  BY <1>1, SkipItemInv, ComparePairsInv, CompareHashesInv, EndOfItemsInv DEF DupNext
<1>3. QED
  BY DupInitInv, <1>2, PTL DEF DupSpec

\* The search tells whether two items are equal, for every list and window.
\* (has_duplicates and unique_key in rules/standard/mod.rs and rules/eval.rs)
THEOREM DuplicatesFound == DupSpec => []FindsDuplicates
<1>1. DupInv => FindsDuplicates
  BY DEF DupInv, Remembered, FindsDuplicates
<1>2. QED
  BY DupInvariant, <1>1, PTL

----------------------------------------------------------------------------
(* CelLifetime. *)

Holders == {o \in Owners : owner[o] \in {"live", "rawless"}}

SharesCounted == shares = Cardinality(Holders)

\* An object has its raw object until it is dropped; the Engine has none.
RawLive ==
  /\ \A o \in Objects : o \in rawObjects <=> owner[o] = "live"
  /\ owner[TheEngine] # "rawless"

\* The raw engine comes with the Engine, and goes with the last holder.
SharesHeld ==
  /\ rawEngine = "none" <=> owner[TheEngine] = "absent"
  /\ owner[TheEngine] = "absent" => Holders = {}
  /\ rawEngine \in {"unshared", "freed"} <=> owner[TheEngine] # "absent" /\ Holders = {}

\* What an evaluation borrows is live.
BorrowedLive ==
  \A t \in CelThreads :
    /\ evaluation[t].program # NoFrame => owner[evaluation[t].program] = "live"
    /\ evaluation[t].frame # NoFrame => owner[evaluation[t].frame] = "live"

CelInv == CelTypeOK /\ SharesCounted /\ RawLive /\ SharesHeld /\ BorrowedLive

----------------------------------------------------------------------------
LEMMA OwnersFinite == IsFiniteSet(Owners)
<1>1. IsFiniteSet(Programs \cup Frames)
  BY OwnersAssumption, FS_Union
<1>2. QED
  BY <1>1, FS_AddElement DEF Owners, Objects

LEMMA HoldersCounted ==
  /\ IsFiniteSet(Holders) /\ Cardinality(Holders) \in Nat
  /\ Cardinality(Holders) = 0 <=> Holders = {}
<1>1. Holders \subseteq Owners
  BY DEF Holders
<1>2. IsFiniteSet(Holders)
  BY <1>1, OwnersFinite, FS_Subset
<1>3. QED
  BY <1>2, FS_CardinalityType, FS_EmptySet

LEMMA CelInitInv == CelInit => CelInv
<1> SUFFICES ASSUME CelInit PROVE CelInv
  OBVIOUS
<1>1. Holders = {}
  BY DEF CelInit, Holders
<1>2. SharesCounted
  BY <1>1, FS_EmptySet DEF CelInit, SharesCounted
<1>3. CelTypeOK
  BY DEF CelInit, CelTypeOK, Idle
<1>4. RawLive
  BY OwnersAssumption DEF CelInit, RawLive, Owners
<1>5. SharesHeld
  BY <1>1 DEF CelInit, SharesHeld, Owners
<1>6. BorrowedLive
  BY DEF CelInit, BorrowedLive, Idle
<1>7. QED
  BY <1>2, <1>3, <1>4, <1>5, <1>6 DEF CelInv

\* A new owner: one holder and one share more.
LEMMA HolderAdded ==
  ASSUME CelInv, NEW x \in Owners, owner[x] = "absent",
         owner' = [owner EXCEPT ![x] = "live"], shares' = shares + 1
  PROVE  Holders' = Holders \cup {x} /\ SharesCounted'
<1>1. owner \in [Owners -> {"absent", "live", "rawless", "gone"}]
  BY DEF CelInv, CelTypeOK
<1>2. Holders' = Holders \cup {x} /\ x \notin Holders
  BY <1>1 DEF Holders
<1>3. Cardinality(Holders \cup {x}) = Cardinality(Holders) + 1
  BY <1>2, HoldersCounted, FS_AddElement
<1>4. QED
  BY <1>2, <1>3 DEF SharesCounted, CelInv

LEMMA NewEngineInv == CelInv /\ NewEngine => CelInv'
<1> SUFFICES ASSUME CelInv, NewEngine PROVE CelInv'
  OBVIOUS
<1>1. /\ rawEngine = "none" /\ rawEngine' = "live" /\ shares' = 1
      /\ owner' = [owner EXCEPT ![TheEngine] = "live"]
      /\ rawObjects' = rawObjects /\ evaluation' = evaluation
  BY DEF NewEngine
<1>2. CelTypeOK /\ RawLive /\ SharesHeld /\ BorrowedLive /\ SharesCounted
  BY DEF CelInv
<1>3. owner[TheEngine] = "absent" /\ Holders = {} /\ TheEngine \in Owners
  BY <1>1, <1>2 DEF SharesHeld, Owners
<1>4. shares' = shares + 1
  BY <1>1, <1>2, <1>3, HoldersCounted DEF SharesCounted
<1>5. Holders' = Holders \cup {TheEngine} /\ SharesCounted'
  BY <1>1, <1>3, <1>4, HolderAdded
<1>6. CelTypeOK'
  BY <1>1, <1>2 DEF CelTypeOK
<1>7. \A o \in Objects : owner'[o] = owner[o]
  BY <1>1, <1>2, OwnersAssumption DEF CelTypeOK, Owners
<1>8. owner'[TheEngine] = "live"
  BY <1>1, <1>2, <1>3 DEF CelTypeOK
<1>9. RawLive'
  BY <1>1, <1>2, <1>7, <1>8 DEF RawLive
<1>10. SharesHeld'
  BY <1>1, <1>5, <1>8 DEF SharesHeld
<1>11. BorrowedLive'
  <2>1. \A o \in Owners : owner[o] = "live" => owner'[o] = "live"
    BY <1>1, <1>2 DEF CelTypeOK
  <2>2. \A t \in CelThreads : evaluation[t].program \in Owners \cup {NoFrame}
                              /\ evaluation[t].frame \in Owners \cup {NoFrame}
    BY <1>2 DEF CelTypeOK, Owners, Objects
  <2>3. QED
    BY <1>1, <1>2, <2>1, <2>2 DEF BorrowedLive
<1>12. QED
  BY <1>5, <1>6, <1>9, <1>10, <1>11 DEF CelInv

LEMMA NewObjectInv == ASSUME NEW x \in Objects PROVE CelInv /\ NewObject(x) => CelInv'
<1> SUFFICES ASSUME CelInv, NewObject(x) PROVE CelInv'
  OBVIOUS
<1>1. /\ owner[TheEngine] = "live" /\ owner[x] = "absent" /\ shares' = shares + 1
      /\ owner' = [owner EXCEPT ![x] = "live"] /\ rawObjects' = rawObjects \cup {x}
      /\ rawEngine' = rawEngine /\ evaluation' = evaluation
  BY DEF NewObject
<1>2. CelTypeOK /\ RawLive /\ SharesHeld /\ BorrowedLive
  BY DEF CelInv
<1>3. x \in Owners /\ TheEngine \in Owners /\ x # TheEngine
  BY OwnersAssumption DEF Owners
<1>4. Holders' = Holders \cup {x} /\ SharesCounted'
  BY <1>1, <1>3, HolderAdded
<1>5. /\ owner'[x] = "live" /\ owner'[TheEngine] = "live"
      /\ \A o \in Owners \ {x} : owner'[o] = owner[o]
  BY <1>1, <1>2, <1>3 DEF CelTypeOK
<1>6. CelTypeOK'
  <2>1. shares \in Nat /\ owner \in [Owners -> {"absent", "live", "rawless", "gone"}]
    BY <1>2 DEF CelTypeOK
  <2>2. shares' \in Nat
    BY <1>1, <2>1
  <2>3. owner' \in [Owners -> {"absent", "live", "rawless", "gone"}]
    BY <1>1, <2>1
  <2>4. rawObjects' \subseteq Objects
    BY <1>1, <1>2 DEF CelTypeOK
  <2>5. rawEngine' = rawEngine /\ evaluation' = evaluation
    BY <1>1
  <2>6. QED
    BY <1>2, <2>2, <2>3, <2>4, <2>5 DEF CelTypeOK
<1>7. RawLive'
  BY <1>1, <1>2, <1>5 DEF RawLive, Owners
<1>8. SharesHeld'
  <2>1. TheEngine \in Holders
    BY <1>1, <1>3 DEF Holders
  <2>2. QED
    BY <1>1, <1>2, <1>4, <1>5, <2>1 DEF SharesHeld
<1>9. BorrowedLive'
  <2>1. \A t \in CelThreads : evaluation[t].program \in Owners \cup {NoFrame}
                              /\ evaluation[t].frame \in Owners \cup {NoFrame}
    BY <1>2 DEF CelTypeOK, Owners, Objects
  <2>2. QED
    BY <1>1, <1>2, <1>5, <2>1 DEF BorrowedLive
<1>10. QED
  BY <1>4, <1>6, <1>7, <1>8, <1>9 DEF CelInv

LEMMA DropObjectInv == ASSUME NEW x \in Objects PROVE CelInv /\ DropObject(x) => CelInv'
<1> SUFFICES ASSUME CelInv, DropObject(x) PROVE CelInv'
  OBVIOUS
<1>1. /\ owner[x] = "live" /\ x \notin Borrowed /\ rawObjects' = rawObjects \ {x}
      /\ owner' = [owner EXCEPT ![x] = "rawless"]
      /\ rawEngine' = rawEngine /\ evaluation' = evaluation /\ shares' = shares
  BY DEF DropObject
<1>2. CelTypeOK /\ RawLive /\ SharesHeld /\ BorrowedLive /\ SharesCounted
  BY DEF CelInv
<1>3. x \in Owners /\ TheEngine \in Owners /\ x # TheEngine
  BY OwnersAssumption DEF Owners
<1>4. owner'[x] = "rawless" /\ \A o \in Owners \ {x} : owner'[o] = owner[o]
  BY <1>1, <1>2, <1>3 DEF CelTypeOK
<1>5. Holders' = Holders
  BY <1>1, <1>3, <1>4 DEF Holders
<1>6. CelTypeOK'
  BY <1>1, <1>2 DEF CelTypeOK
<1>7. RawLive'
  BY <1>1, <1>2, <1>3, <1>4 DEF RawLive, Owners
<1>8. SharesHeld' /\ SharesCounted'
  BY <1>1, <1>2, <1>3, <1>4, <1>5 DEF SharesHeld, SharesCounted
<1>9. BorrowedLive'
  <2>1. \A t \in CelThreads : /\ evaluation[t].program \in Owners \cup {NoFrame}
                              /\ evaluation[t].frame \in Owners \cup {NoFrame}
                              /\ evaluation[t].program # x /\ evaluation[t].frame # x
    BY <1>1, <1>2 DEF CelTypeOK, Owners, Objects, Borrowed
  <2>2. QED
    BY <1>1, <1>2, <1>4, <2>1 DEF BorrowedLive
<1>10. QED
  BY <1>6, <1>7, <1>8, <1>9 DEF CelInv

LEMMA ReleaseShareInv == ASSUME NEW x \in Owners PROVE CelInv /\ ReleaseShare(x) => CelInv'
<1> SUFFICES ASSUME CelInv, ReleaseShare(x) PROVE CelInv'
  OBVIOUS
<1>1. /\ GivesUpShare(x) /\ shares' = shares - 1 /\ owner' = [owner EXCEPT ![x] = "gone"]
      /\ rawEngine' = IF shares = 1 THEN "unshared" ELSE rawEngine
      /\ rawObjects' = rawObjects /\ evaluation' = evaluation
  BY DEF ReleaseShare
<1>2. CelTypeOK /\ RawLive /\ SharesHeld /\ BorrowedLive /\ SharesCounted
  BY DEF CelInv
<1>3. x \in Holders /\ owner[x] \in {"live", "rawless"} /\ (x # TheEngine => owner[x] = "rawless")
  BY <1>1 DEF GivesUpShare, Holders
<1>4. owner'[x] = "gone" /\ \A o \in Owners \ {x} : owner'[o] = owner[o]
  BY <1>1, <1>2 DEF CelTypeOK
<1>5. Holders' = Holders \ {x}
  BY <1>4 DEF Holders
<1>6. Cardinality(Holders \ {x}) = Cardinality(Holders) - 1 /\ IsFiniteSet(Holders \ {x})
  BY <1>3, HoldersCounted, FS_RemoveElement
<1>7. SharesCounted'
  BY <1>1, <1>2, <1>5, <1>6 DEF SharesCounted
<1>8. shares = 1 <=> Holders' = {}
  <2>1. Cardinality(Holders \ {x}) = 0 <=> Holders \ {x} = {}
    BY <1>6, FS_EmptySet
  <2>2. QED
    BY <1>2, <1>5, <1>6, <2>1, HoldersCounted DEF SharesCounted
<1>9. owner[TheEngine] # "absent" /\ owner'[TheEngine] # "absent" /\ rawEngine = "live"
  <2>1. Holders # {} /\ TheEngine \in Owners
    BY <1>3 DEF Owners
  <2>2. QED
    BY <1>2, <1>4, <2>1 DEF SharesHeld, CelTypeOK
<1>10. CelTypeOK'
  <2>1. shares \in Nat /\ shares # 0
    BY <1>2, <1>3, HoldersCounted DEF SharesCounted
  <2>2. shares' \in Nat
    BY <1>1, <2>1
  <2>3. QED
    BY <1>1, <1>2, <2>2 DEF CelTypeOK
<1>11. RawLive'
  <2>1. owner'[TheEngine] # "rawless"
    BY <1>2, <1>4 DEF RawLive, Owners
  <2>2. ASSUME NEW o \in Objects PROVE o \in rawObjects' <=> owner'[o] = "live"
    <3>1. o # TheEngine /\ o \in Owners
      BY OwnersAssumption DEF Owners
    <3>2. QED
      BY <1>1, <1>2, <1>3, <1>4, <3>1 DEF RawLive
  <2>3. QED
    BY <2>1, <2>2 DEF RawLive
<1>12. SharesHeld'
  BY <1>1, <1>8, <1>9 DEF SharesHeld
<1>13. BorrowedLive'
  <2>1. \A t \in CelThreads : /\ evaluation[t].program \in Objects \cup {NoFrame}
                              /\ evaluation[t].frame \in Objects \cup {NoFrame}
    BY <1>2 DEF CelTypeOK, Objects
  <2>2. ASSUME NEW o \in Objects, owner[o] = "live" PROVE owner'[o] = "live"
    <3>1. o # TheEngine /\ o \in Owners
      BY OwnersAssumption DEF Owners
    <3>2. QED
      BY <1>3, <1>4, <2>2, <3>1
  <2>3. QED
    BY <1>1, <1>2, <2>1, <2>2 DEF BorrowedLive
<1>14. QED
  BY <1>7, <1>10, <1>11, <1>12, <1>13 DEF CelInv

LEMMA FreeEngineInv == CelInv /\ FreeEngine => CelInv'
<1> SUFFICES ASSUME CelInv, FreeEngine PROVE CelInv'
  OBVIOUS
<1>1. /\ rawEngine = "unshared" /\ rawEngine' = "freed" /\ shares' = shares
      /\ owner' = owner /\ rawObjects' = rawObjects /\ evaluation' = evaluation
  BY DEF FreeEngine
<1>2. Holders' = Holders
  BY <1>1 DEF Holders
<1>3. QED
  BY <1>1, <1>2 DEF CelInv, CelTypeOK, SharesCounted, RawLive, SharesHeld, BorrowedLive

LEMMA EvalStepInv == ASSUME NEW t \in CelThreads PROVE CelInv /\ EvalStep(t) => CelInv'
<1> SUFFICES ASSUME CelInv, EvalStep(t) PROVE CelInv'
  OBVIOUS
<1>1. /\ rawEngine' = rawEngine /\ shares' = shares /\ owner' = owner
      /\ rawObjects' = rawObjects
  BY DEF EvalStep, BeginEval, CallFunction, FunctionReturns, EndEval
<1>2. Holders' = Holders
  BY <1>1 DEF Holders
<1>3. SharesCounted' /\ RawLive' /\ SharesHeld'
  BY <1>1, <1>2 DEF CelInv, SharesCounted, RawLive, SharesHeld
<1>4. CelTypeOK /\ BorrowedLive
  BY DEF CelInv
<1>5. CASE BeginEval(t)
  <2>1. PICK p \in Programs, f \in Frames \cup {NoFrame} :
          /\ owner[p] = "live" /\ (f # NoFrame => owner[f] = "live")
          /\ evaluation' = [evaluation EXCEPT ![t] = [at |-> "shim", program |-> p, frame |-> f]]
    BY <1>5 DEF BeginEval
  <2>2. CelTypeOK'
    BY <1>1, <1>4, <2>1 DEF CelTypeOK
  <2>3. BorrowedLive'
    BY <1>1, <1>4, <2>1 DEF CelTypeOK, BorrowedLive
  <2>4. QED
    BY <1>3, <2>2, <2>3 DEF CelInv
<1>6. CASE CallFunction(t) \/ FunctionReturns(t)
  <2>1. PICK where \in {"function", "shim", "failed"} :
          evaluation' = [evaluation EXCEPT ![t].at = where]
    BY <1>6 DEF CallFunction, FunctionReturns
  <2>2. CelTypeOK'
    BY <1>1, <1>4, <2>1 DEF CelTypeOK
  <2>3. \A u \in CelThreads : /\ evaluation'[u].program = evaluation[u].program
                              /\ evaluation'[u].frame = evaluation[u].frame
    BY <1>4, <2>1 DEF CelTypeOK
  <2>4. BorrowedLive'
    BY <1>1, <1>4, <2>3 DEF BorrowedLive
  <2>5. QED
    BY <1>3, <2>2, <2>4 DEF CelInv
<1>7. CASE EndEval(t)
  <2>1. evaluation' = [evaluation EXCEPT ![t] = Idle]
    BY <1>7 DEF EndEval
  <2>2. CelTypeOK'
    BY <1>1, <1>4, <2>1 DEF CelTypeOK, Idle
  <2>3. BorrowedLive'
    BY <1>1, <1>4, <2>1 DEF CelTypeOK, BorrowedLive, Idle
  <2>4. QED
    BY <1>3, <2>2, <2>3 DEF CelInv
<1>8. QED
  BY <1>5, <1>6, <1>7 DEF EvalStep

LEMMA CelInvariant == CelSpec => []CelInv
<1>1. CelInv /\ UNCHANGED celVars => CelInv'
  BY DEF CelInv, CelTypeOK, SharesCounted, RawLive, SharesHeld, BorrowedLive, Holders, celVars
<1>2. CelInv /\ [CelNext]_celVars => CelInv'
  BY <1>1, NewEngineInv, FreeEngineInv, NewObjectInv, DropObjectInv, ReleaseShareInv, EvalStepInv
     DEF CelNext
<1>3. QED
  BY CelInitInv, <1>2, PTL DEF CelSpec

\* The C++ engine outlives the raw objects inside it, and is freed with its
\* last owner. (Shared, Program and Frame in engine.rs)
THEOREM LifetimeSafe == CelSpec => []EngineOutlives
<1>1. CelInv => EngineOutlives
  <2> SUFFICES ASSUME CelInv PROVE EngineOutlives
    OBVIOUS
  <2>1. CelTypeOK /\ RawLive /\ SharesHeld /\ BorrowedLive
    BY DEF CelInv
  <2>2. ASSUME NEW o \in rawObjects PROVE rawEngine = "live"
    <3>1. o \in Objects /\ owner[o] = "live" /\ o \in Holders
      BY <2>1 DEF CelTypeOK, RawLive, Holders, Owners
    <3>2. QED
      BY <2>1, <3>1 DEF SharesHeld, CelTypeOK
  <2>3. Borrowed \ {NoFrame} \subseteq rawObjects
    <3> SUFFICES ASSUME NEW t \in CelThreads,
                        NEW o \in {evaluation[t].program, evaluation[t].frame}, o # NoFrame
                 PROVE  o \in rawObjects
      BY DEF Borrowed
    <3>1. o \in Objects
      BY <2>1 DEF CelTypeOK, Objects
    <3>2. owner[o] = "live"
      BY <2>1 DEF BorrowedLive
    <3>3. QED
      BY <2>1, <3>1, <3>2 DEF RawLive
  <2>4. rawEngine \in {"unshared", "freed"} <=>
          /\ owner[TheEngine] = "gone"
          /\ \A o \in Objects : owner[o] \in {"absent", "gone"}
    <3>1. \A o \in Owners : owner[o] \in {"absent", "live", "rawless", "gone"}
      BY <2>1 DEF CelTypeOK
    <3>2. Holders = {} <=> \A o \in Owners : owner[o] \in {"absent", "gone"}
      BY <3>1 DEF Holders
    <3>3. QED
      BY <2>1, <3>2 DEF SharesHeld, Owners
  <2>5. QED
    BY <2>2, <2>3, <2>4 DEF EngineOutlives
<1>2. QED
  BY CelInvariant, <1>1, PTL

----------------------------------------------------------------------------
(* FieldReads. *)

PyValues(s) ==
  IF s.kind = "list" THEN Seq(Contents)
  ELSE IF s.kind = "map" THEN Seq((Keys \X Contents) \cup {Hole}) ELSE Contents
Judgements ==
  [what : {"required", "custom", "native", "unique", "predefined", "item", "entry"},
   value : {Nil} \cup Contents \cup Nat \cup Seq(Element) \cup (Nat \X Contents) \cup (Keys \X Contents)]
Rules == {"custom", "native", "unique", "predefined"}
Steps ==
  {"build", "earlier", "get", "has", "list", "item", "dict", "entry", "done", "error", "panic"}
  \cup Rules

ReadsTypeOK ==
  /\ shape \in Shapes /\ step \in Steps
  /\ python \in [set : BOOLEAN, value : PyValues(shape)]
  /\ python.set \/ TracksPresence(shape)
  /\ cell \in {Unread, Nil, Ref} \cup Contents
  /\ cell = Ref => FromFrame(shape)
  /\ FromFrame(shape) => cell \notin Contents
  /\ frame \in {Unparsed} \cup PyValues(shape)
  /\ copy # Unread => shape.kind = "list" /\ copy \in Seq(Contents)
  /\ at \in Nat /\ size \in Nat /\ changes \in Nat /\ log \in Seq(Judgements)

\* What is fetched is fetched before anything is judged; a step is taken for
\* fields of its kind.
ReadsInOrder ==
  /\ step \in {"build", "earlier", "get", "has", "custom"} => log = <<>>
  /\ step \in {"has", "list", "item", "dict", "entry"} \cup Rules => cell # Unread
  /\ step \in {"unique", "list", "item"} => shape.kind = "list"
  /\ step \in {"dict", "entry"} => shape.kind = "map"
  /\ step \in {"item", "entry"} => at >= 1

\* The value CEL rules are judged on.
Bound == IF FromFrame(shape) THEN frame ELSE IF cell = Nil THEN Zero ELSE cell
BoundOnce ==
  \A i \in DOMAIN log : log[i].what \in {"custom", "predefined"} =>
    cell # Unread /\ (FromFrame(shape) => frame # Unparsed) /\ log[i].value = Bound

HasObject == shape.runtime = "protobuf-py" /\ shape.kind \in {"oneof", "message"}
Presence ==
  HasObject =>
    /\ step \in Rules => cell # Nil
    /\ \A i \in DOMAIN log :
         /\ log[i].what = "native" => cell # Nil
         /\ log[i].what = "required" => cell = Nil

\* The judgements of items come after the first n, each of a later item than
\* the one before; without rules on zero items, each of the next.
Visited == IF copy = Unread \/ at - 1 <= Len(copy) THEN at - 1 ELSE Len(copy)
ItemsFrom(n) ==
  /\ \A i \in DOMAIN log : log[i].what = "item" <=> i > n
  /\ \A i \in DOMAIN log : i > n =>
       /\ copy # Unread /\ log[i].value[1] \in DOMAIN copy
       /\ log[i].value[2] = copy[log[i].value[1]]
       /\ step = "item" => log[i].value[1] < at
       /\ shape.items = "unspecified" => log[i].value[1] = i - n
  /\ \A i, j \in DOMAIN log : n < j /\ j < i => log[j].value[1] < log[i].value[1]
  /\ step = "item" /\ copy = Unread => at = 1
  /\ step = "item" /\ shape.items = "unspecified" => Len(log) = n + Visited
  /\ step \notin {"item", "done", "error", "panic"} => n = Len(log)
UniqueOfCopy ==
  \A i \in DOMAIN log : log[i].what = "unique" =>
    /\ copy # Unread
    /\ \A k \in DOMAIN log[i].value : k \in DOMAIN copy /\ log[i].value[k] = copy[k]

ReadsInv ==
  /\ ReadsTypeOK /\ ReadsInOrder /\ BoundOnce /\ Presence /\ UniqueOfCopy
  /\ \E n \in 0..Len(log) : ItemsFrom(n)

\* A message that nothing changed: what was read of it is what it has.
Same ==
  /\ shape.kind = "map" => \A i \in DOMAIN python.value : python.value[i] # Hole
  /\ cell \in {Unread, Fetched} /\ frame \in {Unparsed, Encoded}
  /\ copy \in {Unread, python.value}

\* The judgements are those of the field, and of the elements before k.
Upfront == OfField(shape, python)
DueNow == Due(shape, python)
Before(k) == {j \in DueNow : j < k}
JudgedUpto(k) ==
  /\ Len(log) = Len(Upfront) + Cardinality(Before(k))
  /\ \A i \in DOMAIN Upfront : log[i] = Upfront[i]
  /\ \A i \in Before(k) : log[Len(Upfront) + Ordinal(i, DueNow)] = OfElement(shape, python, i)

Whole == Len(python.value)
Compares == shape.kind = "list" /\ Counted(shape, python) > 0
AsCustom == Rule("custom", Held(shape, python))
AsNative == Rule("native", Counted(shape, python))
AsUnique == Rule("unique", python.value)
QuietInv ==
  changes = 0 =>
    /\ Same
    /\ step \notin {"build", "done", "error"} => shape.ignore # "always"
    /\ step \in {"list", "item", "dict", "entry"} \cup Rules =>
         ~Ignored(shape, python) /\ ~Missing(shape, python)
    /\ step = "native" => log = <<AsCustom>>
    /\ step = "unique" => Compares /\ size = Whole /\ log = <<AsCustom, AsNative>>
    /\ step = "predefined" =>
         log = IF Compares THEN <<AsCustom, AsNative, AsUnique>> ELSE <<AsCustom, AsNative>>
    /\ step \in {"list", "dict"} => log = Upfront /\ shape.items # "none"
    /\ step \in {"item", "entry"} =>
         size = Whole /\ shape.items # "none" /\ JudgedUpto(at)
    /\ step = "done" => QuietIsSequential
    /\ step # "panic"
----------------------------------------------------------------------------
\* A set of numbers has a least one.
LEMMA LeastNatural ==
  ASSUME NEW S \in SUBSET Nat, S # {}
  PROVE  \E n \in S : \A m \in S : n <= m
<1> DEFINE R == StrictSubsetOrdering(Nat)
           T == {0..n : n \in S}
<1>1. T \subseteq FiniteSubsetsOf(Nat) /\ T # {}
  <2>1. \A n \in Nat : IsFiniteSet(0..n)
    BY FS_Interval
  <2>2. \A n \in S : 0..n \in FiniteSubsetsOf(Nat)
    BY <2>1 DEF FiniteSubsetsOf
  <2>3. QED
    BY <2>2
<1>2. PICK t \in T : \A u \in T : <<u, t>> \notin R
  BY <1>1, FS_StrictSubsetOrderingWellFounded, WFMin
<1>3. PICK n \in S : t = 0..n
  OBVIOUS
<1>4. ASSUME NEW m \in S, m < n PROVE FALSE
  <2>1. 0..m \in T /\ n \in 0..n /\ n \notin 0..m /\ 0..m \subseteq 0..n
    BY <1>4
  <2>2. <<0..m, 0..n>> \in R
    BY <2>1 DEF StrictSubsetOrdering
  <2>3. QED
    BY <1>2, <1>3, <2>1, <2>2
<1>5. QED
  BY <1>4

\* What is logged is logged at the end.
LEMMA Logged ==
  ASSUME log \in Seq(Judgements), NEW r \in Judgements, log' = Append(log, r)
  PROVE  /\ log' \in Seq(Judgements) /\ Len(log) \in Nat /\ Len(log') = Len(log) + 1
         /\ DOMAIN log = 1..Len(log) /\ DOMAIN log' = 1..(Len(log) + 1)
         /\ log'[Len(log) + 1] = r /\ \A i \in DOMAIN log : log'[i] = log[i]
  OBVIOUS

----------------------------------------------------------------------------
(* Types. *)

\* A field before it is read.
LEMMA ReadsInitTypes == ReadsInit => ReadsTypeOK /\ log = <<>> /\ step = "build"
<1> SUFFICES ASSUME ReadsInit PROVE ReadsTypeOK
  BY DEF ReadsInit
<1>1. IsShape(shape)
  BY ShapesAssumption DEF ReadsInit
<1>2. python.value \in PyValues(shape)
  <2>1. python.value \in Values(shape)
    BY DEF ReadsInit
  <2>2. \A S : UNION {[1..n -> S] : n \in 0..MaxLength} \subseteq Seq(S)
    BY MaxLengthAssumption
  <2>3. CASE shape.kind = "list"
    BY <2>1, <2>2, <2>3 DEF Values, PyValues
  <2>4. CASE shape.kind = "map"
    <3>1. python.value \in Seq(Keys \X Contents)
      BY <2>1, <2>2, <2>4 DEF Values
    <3>2. QED
      BY <2>4, <3>1 DEF PyValues
  <2>5. CASE shape.kind \notin {"list", "map"}
    BY <2>1, <2>5 DEF Values, PyValues
  <2>6. QED
    BY <2>3, <2>4, <2>5
<1>3. python \in [set : BOOLEAN, value : PyValues(shape)] /\ (python.set \/ TracksPresence(shape))
  <2>1. python \in [set : IF TracksPresence(shape) THEN BOOLEAN ELSE {TRUE}, value : Values(shape)]
    BY DEF ReadsInit
  <2>2. QED
    BY <1>2, <2>1
<1>4. cell \notin {Nil, Ref} \cup Contents
  BY SentinelsAssumption DEF ReadsInit
<1>5. QED
  BY <1>3, <1>4 DEF ReadsInit, ReadsTypeOK, Steps

\* What can be read of the message.
LEMMA ReadTypes ==
  ASSUME ReadsTypeOK
  PROVE  /\ IsShape(shape)
         /\ shape.kind = "list" => python.value \in Seq(Contents)
         /\ shape.kind = "map" => /\ python.value \in Seq((Keys \X Contents) \cup {Hole})
                                  /\ Entries(python.value) \subseteq DOMAIN python.value
                                  /\ IsFiniteSet(Entries(python.value))
                                  /\ DictSize(python.value) \in Nat
         /\ shape.kind \notin {"list", "map"} => python.value \in Contents
         /\ Encoded \in PyValues(shape) /\ Encoded # Unparsed
         /\ Fetched \in {Nil, Ref} \cup Contents
         /\ Fetched = Ref => FromFrame(shape)
         /\ FromFrame(shape) => Fetched \notin Contents
         /\ PyValues(shape) \subseteq Contents \cup Seq(Element)
<1>1. IsShape(shape)
  BY ShapesAssumption DEF ReadsTypeOK
<1>2. python.value \in PyValues(shape) /\ python.set \in BOOLEAN
  BY DEF ReadsTypeOK
<1>3. Seq(Contents) \subseteq Seq(Element) /\ Seq((Keys \X Contents) \cup {Hole}) \subseteq Seq(Element)
  BY DEF Element
<1>4. PyValues(shape) \subseteq Contents \cup Seq(Element)
  BY <1>3 DEF PyValues
<1>5. ASSUME shape.kind = "map"
      PROVE  /\ python.value \in Seq((Keys \X Contents) \cup {Hole})
             /\ Entries(python.value) \subseteq DOMAIN python.value
             /\ IsFiniteSet(Entries(python.value)) /\ DictSize(python.value) \in Nat
  <2>1. python.value \in Seq((Keys \X Contents) \cup {Hole})
    BY <1>2, <1>5 DEF PyValues
  <2>2. DOMAIN python.value = 1..Len(python.value) /\ Len(python.value) \in Nat
    BY <2>1
  <2>3. IsFiniteSet(DOMAIN python.value)
    BY <2>2, FS_Interval
  <2>4. Entries(python.value) \subseteq DOMAIN python.value
    BY DEF Entries
  <2>5. QED
    BY <2>1, <2>3, <2>4, FS_Subset, FS_CardinalityType DEF DictSize
<1>6. Encoded \in PyValues(shape) /\ Encoded # Unparsed
  <2>1. Unparsed \notin Contents \cup Seq(Element)
    BY SentinelsAssumption
  <2>2. Encoded \in PyValues(shape)
    <3>1. CASE shape.kind \in {"list", "map"}
      BY <1>2, <3>1 DEF Encoded
    <3>2. CASE shape.kind \notin {"list", "map"}
      BY <1>2, <3>2 DEF Encoded, ReadsAs, PyValues, Contents
    <3>3. QED
      BY <3>1, <3>2
  <2>3. QED
    BY <1>4, <2>1, <2>2
<1>7. shape.kind \notin {"list", "map"} => python.value \in Contents
  BY <1>2 DEF PyValues
<1>8. ~FromFrame(shape) => ReadsAs(python) \in Contents
  BY <1>7 DEF ReadsAs, Contents, FromFrame
<1>9. /\ Fetched \in {Nil, Ref} \cup Contents
      /\ Fetched = Ref => FromFrame(shape)
      /\ FromFrame(shape) => Fetched \notin Contents
  BY <1>8, SentinelsAssumption DEF Fetched
<1>10. shape.kind = "list" => python.value \in Seq(Contents)
  BY <1>2 DEF PyValues
<1>11. QED
  BY <1>1, <1>4, <1>5, <1>6, <1>7, <1>9, <1>10

\* The fields a step leaves alone keep their types.
LEMMA StillTyped ==
  ASSUME ReadsTypeOK, UNCHANGED <<shape, python, changes>>, step' \in Steps,
         cell' \in {Unread, Nil, Ref} \cup Contents,
         cell' = Ref => FromFrame(shape),
         FromFrame(shape) => cell' \notin Contents,
         frame' \in {Unparsed} \cup PyValues(shape),
         copy' # Unread => shape.kind = "list" /\ copy' \in Seq(Contents),
         at' \in Nat, size' \in Nat, log' \in Seq(Judgements)
  PROVE  ReadsTypeOK'
<1>1. FromFrame(shape)' = FromFrame(shape) /\ TracksPresence(shape)' = TracksPresence(shape)
  BY DEF FromFrame, TracksPresence
<1>2. PyValues(shape)' = PyValues(shape)
  BY DEF PyValues
<1>3. QED
  BY <1>1, <1>2 DEF ReadsTypeOK

\* A custom or predefined rule: one judgement, of the value that was bound.
LEMMA RunProgramsTypes ==
  ASSUME ReadsTypeOK, ReadsInOrder, NEW from \in {"custom", "predefined"}, NEW to \in Steps,
         RunPrograms(from, from, to)
  PROVE  ReadsTypeOK' /\ frame' = Parsed /\ log' = Append(log, Rule(from, This))
         /\ Rule(from, This) \in Judgements
<1>1. IsShape(shape) /\ Encoded \in PyValues(shape) /\ PyValues(shape) \subseteq Contents \cup Seq(Element)
  BY ReadTypes
<1>2. Parsed \in {Unparsed} \cup PyValues(shape)
  BY <1>1 DEF Parsed, ReadsTypeOK
<1>3. FromFrame(shape) => Parsed \in PyValues(shape)
  BY <1>1 DEF Parsed, ReadsTypeOK
<1>4. ~FromFrame(shape) => NativeValue \in Contents
  <2>1. cell # Unread
    BY DEF ReadsInOrder, RunPrograms, Rules
  <2>2. QED
    BY <2>1 DEF NativeValue, ReadsTypeOK, Contents
<1>5. This \in Contents \cup Seq(Element)
  BY <1>1, <1>3, <1>4 DEF This
<1>6. Rule(from, This) \in Judgements
  BY <1>5 DEF Rule, Judgements
<1>7. frame' = Parsed /\ log' = Append(log, Rule(from, This)) /\ step' = to
  BY DEF RunPrograms, Judge, Rule, Goto
<1>8. log' \in Seq(Judgements)
  BY <1>6, <1>7, Logged DEF ReadsTypeOK
<1>9. QED
  BY <1>2, <1>6, <1>7, <1>8, StillTyped DEF RunPrograms, ReadsTypeOK

\* The native checks: one judgement, of the value or of a length.
LEMMA RunNativeTypes ==
  ASSUME ReadsTypeOK, ReadsInOrder, RunNative
  PROVE  /\ ReadsTypeOK'
         /\ \E value : log' = Append(log, Rule("native", value)) /\ Rule("native", value) \in Judgements
<1>1. IsShape(shape)
  BY ReadTypes
<1>2. CASE shape.kind \notin {"list", "map"}
  <2>1. log' = Append(log, Rule("native", NativeValue)) /\ size' = size /\ step' = "predefined"
    BY <1>2 DEF RunNative, Judge, Rule, Goto
  <2>2. cell # Unread /\ python.value \in Contents
    BY <1>2, ReadTypes DEF ReadsInOrder, RunNative, Rules
  <2>3. NativeValue \in Contents
    BY <2>2 DEF NativeValue, ReadsTypeOK, Contents
  <2>4. Rule("native", NativeValue) \in Judgements
    BY <2>3 DEF Rule, Judgements
  <2>5. log' \in Seq(Judgements)
    BY <2>1, <2>4, Logged DEF ReadsTypeOK
  <2>6. QED
    BY <2>1, <2>4, <2>5, StillTyped DEF RunNative, ReadsTypeOK, Steps, Rules
<1>3. CASE shape.kind \in {"list", "map"}
  <2>1. /\ size' = IF shape.kind = "map" THEN DictSize(python.value) ELSE ListLen
        /\ log' = Append(log, Rule("native", size')) /\ step' \in {"unique", "predefined"}
    BY <1>3 DEF RunNative, Judge, Rule, Goto
  <2>2. shape.kind = "list" => ListLen \in Nat
    BY ReadTypes DEF ListLen, ReadsTypeOK
  <2>3. size' \in Nat
    BY <1>3, <2>1, <2>2, ReadTypes
  <2>4. Rule("native", size') \in Judgements
    BY <2>3 DEF Rule, Judgements
  <2>5. log' \in Seq(Judgements)
    BY <2>1, <2>4, Logged DEF ReadsTypeOK
  <2>6. QED
    BY <2>1, <2>3, <2>4, <2>5, StillTyped DEF RunNative, ReadsTypeOK, Steps, Rules
<1>4. QED
  BY <1>2, <1>3

\* A list's copy, and the beginning of it.
LEMMA CopyTypes ==
  ASSUME ReadsTypeOK, shape.kind = "list"
  PROVE  /\ Copied \in Seq(Contents) /\ Copied # Unread
         /\ \A n \in Nat :
              /\ Upto(n, Copied) \in Seq(Contents)
              /\ DOMAIN Upto(n, Copied) \subseteq DOMAIN Copied
              /\ \A k \in DOMAIN Upto(n, Copied) : Upto(n, Copied)[k] = Copied[k]
              /\ n >= Len(Copied) => Upto(n, Copied) = Copied
<1>1. Copied \in Seq(Contents)
  BY ReadTypes DEF Copied, ReadsTypeOK
<1>2. Seq(Contents) \subseteq Seq(Element)
  BY DEF Element
<1>3. Copied # Unread
  BY <1>1, <1>2, SentinelsAssumption
<1>4. ASSUME NEW n \in Nat
      PROVE  /\ Upto(n, Copied) \in Seq(Contents)
             /\ DOMAIN Upto(n, Copied) \subseteq DOMAIN Copied
             /\ \A k \in DOMAIN Upto(n, Copied) : Upto(n, Copied)[k] = Copied[k]
             /\ n >= Len(Copied) => Upto(n, Copied) = Copied
  BY <1>1 DEF Upto
<1>5. QED
  BY <1>1, <1>3, <1>4

\* `unique' reads the items from a copy that is not made anew.
LEMMA RunUniqueTypes ==
  ASSUME ReadsTypeOK, ReadsInOrder, RunUnique
  PROVE  /\ ReadsTypeOK' /\ copy' = Copied /\ log' = Append(log, Rule("unique", Upto(size, Copied)))
         /\ Rule("unique", Upto(size, Copied)) \in Judgements
<1>1. shape.kind = "list" /\ step' = "predefined"
  BY DEF RunUnique, ReadsInOrder, Goto
<1>2. Copied \in Seq(Contents) /\ Upto(size, Copied) \in Seq(Contents)
  BY <1>1, CopyTypes DEF ReadsTypeOK
<1>3. Seq(Contents) \subseteq Seq(Element)
  BY DEF Element
<1>4. Rule("unique", Upto(size, Copied)) \in Judgements
  BY <1>2, <1>3 DEF Rule, Judgements
<1>5. copy' = Copied /\ log' = Append(log, Rule("unique", Upto(size, Copied)))
  BY DEF RunUnique, Judge, Rule
<1>6. log' \in Seq(Judgements)
  BY <1>4, <1>5, Logged DEF ReadsTypeOK
<1>7. QED
  BY <1>1, <1>2, <1>4, <1>5, <1>6, StillTyped DEF RunUnique, ReadsTypeOK, Steps, Rules

\* An item is judged from the copy, or passed over.
LEMMA VisitItemTypes ==
  ASSUME ReadsTypeOK, ReadsInOrder, VisitItem
  PROVE  /\ ReadsTypeOK' /\ shape.kind = "list" /\ step = "item" /\ at \in Nat /\ at >= 1
         /\ \/ at > size /\ step' = "done" /\ UNCHANGED <<copy, log, at>>
            \/ /\ at <= size /\ copy' = Copied /\ at' = at + 1 /\ step' = step
               /\ \/ (at > Len(Copied) \/ Skipped(Copied[at])) /\ log' = log
                  \/ /\ at <= Len(Copied) /\ ~Skipped(Copied[at])
                     /\ log' = Append(log, Rule("item", <<at, Copied[at]>>))
                     /\ Rule("item", <<at, Copied[at]>>) \in Judgements
<1>1. shape.kind = "list" /\ step = "item" /\ at >= 1
  BY DEF VisitItem, ReadsInOrder
<1>2. Copied \in Seq(Contents) /\ at \in Nat /\ size \in Nat
  BY <1>1, CopyTypes DEF ReadsTypeOK
<1>3. CASE at > size
  <2>1. step' = "done" /\ UNCHANGED <<copy, log, at>>
    BY <1>3 DEF VisitItem, Goto
  <2>2. QED
    BY <1>1, <1>2, <1>3, <2>1, StillTyped DEF VisitItem, ReadsTypeOK, Steps
<1>4. CASE ~(at > size)
  <2>1. /\ at <= size /\ copy' = Copied /\ at' = at + 1 /\ step' = step
        /\ log' = IF at > Len(Copied) \/ Skipped(Copied[at]) THEN log
                  ELSE Append(log, Rule("item", <<at, Copied[at]>>))
    BY <1>2, <1>4 DEF VisitItem, Judge, Rule
  <2>2. at <= Len(Copied) => Rule("item", <<at, Copied[at]>>) \in Judgements
    <3>1. at <= Len(Copied) => Copied[at] \in Contents
      BY <1>1, <1>2
    <3>2. QED
      BY <1>2, <3>1 DEF Rule, Judgements
  <2>3. log' \in Seq(Judgements)
    BY <1>2, <2>1, <2>2, Logged DEF ReadsTypeOK
  <2>4. ReadsTypeOK'
    BY <1>1, <1>2, <2>1, <2>3, StillTyped DEF VisitItem, ReadsTypeOK
  <2>5. QED
    BY <1>1, <1>2, <2>1, <2>2, <2>4
<1>5. QED
  BY <1>3, <1>4

\* The next entry of a dict.
\* The entry that comes next is the first at or after the position.
NextEntry == CHOOSE i \in Left : \A j \in Left : i <= j
LEMMA NextEntryIs ==
  ASSUME ReadsTypeOK, shape.kind = "map", Left # {}
  PROVE  /\ NextEntry \in Left /\ \A j \in Left : NextEntry <= j
         /\ NextEntry \in Nat /\ NextEntry >= at /\ NextEntry \in DOMAIN python.value
         /\ python.value[NextEntry] \in Keys \X Contents
<1>1. python.value \in Seq((Keys \X Contents) \cup {Hole})
  BY ReadTypes
<1>2. Left \subseteq Nat
  BY <1>1 DEF Left, Entries
<1>3. \E i \in Left : \A j \in Left : i <= j
  BY <1>2, LeastNatural
<1>4. NextEntry \in Left /\ \A j \in Left : NextEntry <= j
  BY <1>3 DEF NextEntry
<1>5. QED
  BY <1>1, <1>2, <1>4 DEF Left, Entries

\* An entry is judged from the dict as it is, or passed over.
LEMMA VisitEntryTypes ==
  ASSUME ReadsTypeOK, ReadsInOrder, VisitEntry
  PROVE  /\ ReadsTypeOK' /\ shape.kind = "map" /\ step = "entry" /\ at \in Nat /\ at >= 1
         /\ \/ /\ DictSize(python.value) # size /\ UNCHANGED <<log, at>>
               /\ step' \in {"panic", "error"}
            \/ /\ DictSize(python.value) = size /\ Left = {} /\ step' = "done"
               /\ UNCHANGED <<log, at>>
            \/ /\ DictSize(python.value) = size /\ Left # {} /\ step' = step /\ at' = NextEntry + 1
               /\ \/ Skipped(python.value[NextEntry][2]) /\ log' = log
                  \/ /\ ~Skipped(python.value[NextEntry][2])
                     /\ log' = Append(log, Rule("entry", python.value[NextEntry]))
                     /\ Rule("entry", python.value[NextEntry]) \in Judgements
<1>1. shape.kind = "map" /\ step = "entry" /\ at >= 1 /\ at \in Nat
  BY DEF VisitEntry, ReadsInOrder, ReadsTypeOK
<1>2. UNCHANGED <<shape, python, cell, frame, copy, size, changes>>
  BY DEF VisitEntry
<1>3. CASE DictSize(python.value) # size /\ UNCHANGED <<log, at>> /\ step' \in {"panic", "error"}
  BY <1>1, <1>2, <1>3, StillTyped DEF ReadsTypeOK, Steps
<1>4. CASE DictSize(python.value) = size /\ Left = {} /\ step' = "done" /\ UNCHANGED <<log, at>>
  BY <1>1, <1>2, <1>4, StillTyped DEF ReadsTypeOK, Steps
<1>5. CASE /\ DictSize(python.value) = size /\ Left # {} /\ step' = step /\ at' = NextEntry + 1
           /\ log' = IF Skipped(python.value[NextEntry][2]) THEN log
                     ELSE Append(log, Rule("entry", python.value[NextEntry]))
  <2>1. NextEntry \in Nat /\ python.value[NextEntry] \in Keys \X Contents
    BY <1>1, <1>5, NextEntryIs
  <2>2. Rule("entry", python.value[NextEntry]) \in Judgements
    BY <2>1 DEF Rule, Judgements
  <2>3. log' \in Seq(Judgements)
    BY <1>5, <2>2, Logged DEF ReadsTypeOK
  <2>4. ReadsTypeOK'
    BY <1>1, <1>2, <1>5, <2>1, <2>3, StillTyped DEF ReadsTypeOK
  <2>5. QED
    BY <1>1, <1>5, <2>2, <2>4
<1>6. QED
  BY <1>1, <1>3, <1>4, <1>5 DEF VisitEntry, Goto, Judge, Rule, NextEntry

\* Another thread, or Python code, changes the message.
LEMMA ChangeTypes == ReadsTypeOK /\ Change => ReadsTypeOK'
<1> SUFFICES ASSUME ReadsTypeOK, Change PROVE ReadsTypeOK'
  OBVIOUS
<1>1. PICK value \in Changed(python.value), set \in BOOLEAN :
        (set = TRUE \/ TracksPresence(shape)) /\ python' = [set |-> set, value |-> value]
  BY DEF Change
<1>2. value \in PyValues(shape)
  <2>1. CASE shape.kind = "list"
    <3>1. python.value \in Seq(Contents)
      BY <2>1, ReadTypes
    <3>2. \A x \in Contents : Append(python.value, x) \in Seq(Contents)
      BY <3>1
    <3>3. ASSUME NEW dummy \in {1} \cap DOMAIN python.value
          PROVE  Front(python.value) \in Seq(Contents)
      BY <3>1, <3>3 DEF Front
    <3>4. \A i \in DOMAIN python.value, x \in Contents :
            [python.value EXCEPT ![i] = x] \in Seq(Contents)
      BY <3>1
    <3>5. \/ \E x \in Contents : value = Append(python.value, x)
          \/ \E dummy \in {1} \cap DOMAIN python.value : value = Front(python.value)
          \/ \E i \in DOMAIN python.value, x \in Contents : value = [python.value EXCEPT ![i] = x]
      BY <2>1 DEF Changed
    <3>6. value \in Seq(Contents)
      BY <3>2, <3>3, <3>4, <3>5
    <3>7. QED
      BY <2>1, <3>6 DEF PyValues
  <2>2. CASE shape.kind = "map"
    <3> DEFINE T == (Keys \X Contents) \cup {Hole}
    <3>1. python.value \in Seq(T) /\ \A i \in Entries(python.value) :
            i \in DOMAIN python.value /\ python.value[i] \in Keys \X Contents
      BY <2>2, ReadTypes DEF Entries
    <3>2. \A k \in Keys \ KeysOf(python.value), x \in Contents :
            Append(python.value, <<k, x>>) \in Seq(T)
      BY <3>1
    <3>3. \A i \in Entries(python.value) : [python.value EXCEPT ![i] = Hole] \in Seq(T)
      BY <3>1
    <3>4. ASSUME NEW i \in Entries(python.value), NEW x \in Contents
          PROVE  [python.value EXCEPT ![i][2] = x] \in Seq(T)
      <4>1. [python.value EXCEPT ![i][2] = x] = [python.value EXCEPT ![i] = [python.value[i] EXCEPT ![2] = x]]
        OBVIOUS
      <4>2. [python.value[i] EXCEPT ![2] = x] \in Keys \X Contents
        BY <3>1
      <4>3. QED
        BY <3>1, <4>1, <4>2
    <3> HIDE DEF T
    <3>5. value \in Seq(T)
      <4>1. \/ \E k \in Keys \ KeysOf(python.value), x \in Contents :
                 value = Append(python.value, <<k, x>>)
            \/ \E i \in Entries(python.value) : value = [python.value EXCEPT ![i] = Hole]
            \/ \E i \in Entries(python.value), x \in Contents :
                 value = [python.value EXCEPT ![i][2] = x]
        BY <2>2 DEF Changed
      <4>2. QED
        BY <3>2, <3>3, <3>4, <4>1
    <3>6. QED
      BY <2>2, <3>5 DEF PyValues, T
  <2>3. CASE shape.kind \notin {"list", "map"}
    BY <2>3 DEF Changed, PyValues
  <2>4. QED
    BY <2>1, <2>2, <2>3
<1>3. /\ python' \in [set : BOOLEAN, value : PyValues(shape)] /\ (python'.set \/ TracksPresence(shape))
      /\ changes' \in Nat
  BY <1>1, <1>2 DEF Change, ReadsTypeOK
<1>4. UNCHANGED <<shape, cell, frame, copy, step, at, size, log>>
  BY DEF Change
<1>5. /\ FromFrame(shape)' = FromFrame(shape) /\ TracksPresence(shape)' = TracksPresence(shape)
      /\ PyValues(shape)' = PyValues(shape)
  BY <1>4 DEF FromFrame, TracksPresence, PyValues
<1>6. QED
  BY <1>3, <1>4, <1>5 DEF ReadsTypeOK

----------------------------------------------------------------------------
(* What steps do to the log. *)

\* No step changes which field it is.
LEMMA SameShape ==
  ASSUME shape' = shape
  PROVE  /\ FromFrame(shape)' = FromFrame(shape) /\ TracksPresence(shape)' = TracksPresence(shape)
         /\ HasObject' = HasObject
  BY DEF FromFrame, TracksPresence, HasObject

\* A step that logs nothing, and changes nothing that what is logged came from.
LEMMA LogsNothing ==
  ASSUME ReadsInv, ReadsTypeOK', ReadsInOrder', UNCHANGED <<shape, cell, frame, copy, log>>,
         step' = "item" => step = "item" /\ at' = at,
         \/ step' = step \/ step' \in {"done", "error", "panic"}
         \/ step = "dict" /\ step' = "entry"
  PROVE  ReadsInv'
<1>1. ReadsTypeOK /\ IsShape(shape)
  BY ReadTypes DEF ReadsInv
<1>2. BoundOnce'
  BY SameShape DEF ReadsInv, BoundOnce, Bound
<1>3. Presence'
  BY SameShape DEF ReadsInv, Presence, Rules
<1>4. UniqueOfCopy'
  BY DEF ReadsInv, UniqueOfCopy
<1>5. PICK n \in 0..Len(log) : ItemsFrom(n)
  BY DEF ReadsInv
<1>6. CASE step = "item" /\ step' = "item"
  BY <1>2, <1>3, <1>4, <1>5, <1>6 DEF ReadsInv, ItemsFrom, Visited
<1>7. CASE step' # "item"
  <2>1. step' \notin {"item", "done", "error", "panic"} => n = Len(log)
    BY <1>5, <1>7 DEF ItemsFrom
  <2>2. ItemsFrom(n)'
    BY <1>5, <1>7, <2>1 DEF ItemsFrom
  <2>3. QED
    BY <1>2, <1>3, <1>4, <1>5, <2>2 DEF ReadsInv
<1>8. QED
  BY <1>6, <1>7

\* A step before anything is logged.
LEMMA NothingYet ==
  ASSUME ReadsTypeOK', ReadsInOrder', log' = <<>>, step' # "item",
         HasObject' /\ step' \in Rules => cell' # Nil
  PROVE  ReadsInv'
<1>1. DOMAIN log' = {} /\ Len(log') = 0
  OBVIOUS
<1>2. BoundOnce' /\ Presence' /\ UniqueOfCopy'
  BY <1>1 DEF BoundOnce, Presence, UniqueOfCopy
<1>3. ItemsFrom(0)'
  BY <1>1 DEF ItemsFrom
<1>4. QED
  BY <1>1, <1>2, <1>3 DEF ReadsInv

\* A step that logs a judgement of the field itself.
LEMMA LogsRule ==
  ASSUME ReadsInv, ReadsTypeOK', ReadsInOrder', UNCHANGED <<shape, cell>>,
         NEW r \in Judgements, log' = Append(log, r), r.what \notin {"item"},
         step \notin {"item", "done", "error", "panic"}, step' # "item",
         frame' = frame \/ (FromFrame(shape) /\ frame = Unparsed), copy' = copy \/ copy = Unread,
         r.what \in {"custom", "predefined"} =>
           cell # Unread /\ (FromFrame(shape) => frame' # Unparsed) /\ r.value = Bound',
         HasObject /\ r.what = "native" => cell # Nil,
         HasObject /\ r.what = "required" => cell = Nil,
         HasObject /\ step' \in Rules => cell # Nil,
         r.what = "unique" =>
           /\ copy' # Unread
           /\ \A k \in DOMAIN r.value : k \in DOMAIN copy' /\ r.value[k] = copy'[k]
  PROVE  ReadsInv'
<1>1. /\ log' \in Seq(Judgements) /\ Len(log) \in Nat /\ Len(log') = Len(log) + 1
      /\ DOMAIN log = 1..Len(log) /\ DOMAIN log' = 1..(Len(log) + 1)
      /\ log'[Len(log) + 1] = r /\ \A i \in DOMAIN log : log'[i] = log[i]
  BY Logged DEF ReadsInv, ReadsTypeOK
<1>2. \A i \in DOMAIN log' : i \in DOMAIN log \/ i = Len(log) + 1
  BY <1>1
<1>3. BoundOnce'
  <2> SUFFICES ASSUME NEW i \in DOMAIN log', log'[i].what \in {"custom", "predefined"}
               PROVE  cell # Unread /\ (FromFrame(shape) => frame' # Unparsed) /\ log'[i].value = Bound'
    BY SameShape DEF BoundOnce
  <2>1. CASE i \in DOMAIN log
    <3>1. cell # Unread /\ (FromFrame(shape) => frame # Unparsed) /\ log[i].value = Bound
      BY <1>1, <2>1 DEF ReadsInv, BoundOnce
    <3>2. Bound' = Bound
      BY <3>1, SameShape DEF Bound
    <3>3. QED
      BY <1>1, <2>1, <3>1, <3>2
  <2>2. CASE i = Len(log) + 1
    BY <1>1, <2>2
  <2>3. QED
    BY <1>2, <2>1, <2>2
<1>4. Presence'
  <2>1. HasObject => \A i \in DOMAIN log : /\ log[i].what = "native" => cell # Nil
                                           /\ log[i].what = "required" => cell = Nil
    BY DEF ReadsInv, Presence
  <2>2. ASSUME HasObject, NEW i \in DOMAIN log'
        PROVE  /\ log'[i].what = "native" => cell # Nil
               /\ log'[i].what = "required" => cell = Nil
    BY <1>1, <1>2, <2>1, <2>2
  <2>3. (HasObject)' <=> HasObject
    BY DEF HasObject
  <2>4. cell' = cell
    OBVIOUS
  <2>5. (HasObject)' =>
          /\ step' \in Rules => cell' # Nil
          /\ \A i \in DOMAIN log' : /\ log'[i].what = "native" => cell' # Nil
                                    /\ log'[i].what = "required" => cell' = Nil
    BY <2>2, <2>3, <2>4
  <2>6. QED
    BY <2>5 DEF Presence, Rules
<1>5. UniqueOfCopy'
  BY <1>1, <1>2 DEF ReadsInv, UniqueOfCopy
<1>6. ItemsFrom(Len(log))
  BY DEF ReadsInv, ItemsFrom
<1>7. \A i \in DOMAIN log' : log'[i].what # "item"
  BY <1>1, <1>2, <1>6 DEF ItemsFrom
<1>8. PICK n \in Nat : n = Len(log') /\ n \in 0..Len(log')
  BY <1>1
<1>9. ItemsFrom(n)'
  BY <1>1, <1>7, <1>8 DEF ItemsFrom
<1>10. QED
  BY <1>3, <1>4, <1>5, <1>8, <1>9 DEF ReadsInv

----------------------------------------------------------------------------
(* The invariant, action by action. *)

\* Nothing is read yet.
LEMMA InitInv == ReadsInit => ReadsInv
<1> SUFFICES ASSUME ReadsInit PROVE ReadsInv
  OBVIOUS
<1>1. ReadsTypeOK /\ log = <<>> /\ step = "build"
  BY ReadsInitTypes DEF ReadsInit
<1>2. DOMAIN log = {} /\ Len(log) = 0
  BY <1>1
<1>3. ReadsInOrder /\ BoundOnce /\ Presence /\ UniqueOfCopy
  BY <1>1, <1>2 DEF ReadsInOrder, BoundOnce, Presence, UniqueOfCopy, Rules
<1>4. ItemsFrom(0)
  BY <1>1, <1>2 DEF ItemsFrom
<1>5. QED
  BY <1>1, <1>2, <1>3, <1>4 DEF ReadsInv

\* What is fetched can be told from what is not.
LEMMA FetchedNotUnread ==
  ASSUME ReadsTypeOK
  PROVE  Fetched # Unread /\ Got # Unread /\ Got \in {Nil, Ref} \cup Contents
         /\ (Got = Ref => FromFrame(shape)) /\ (FromFrame(shape) => Got \notin Contents)
<1>1. Unread \notin {Nil, Ref} \cup Contents
  BY SentinelsAssumption
<1>2. QED
  BY <1>1, ReadTypes DEF Got, ReadsTypeOK

\* One step lemma for each action: BuildField of FieldReads.
LEMMA BuildFieldInv ==
  ASSUME ReadsInv, BuildField
  PROVE  ReadsInv'
<1>1. log' = <<>> /\ step' \in {"earlier", "done"}
  BY DEF BuildField, Goto, ReadsInv, ReadsInOrder
<1>2. ReadsTypeOK'
  BY <1>1, StillTyped DEF ReadsInv, BuildField, ReadsTypeOK, Steps
<1>3. ReadsInOrder'
  BY <1>1 DEF ReadsInOrder, Rules
<1>4. QED
  BY <1>1, <1>2, <1>3, NothingYet DEF Rules

\* Another rule reads the message before.
LEMMA EarlierInv ==
  ASSUME ReadsInv, Earlier
  PROVE  ReadsInv'
<1>1. log' = <<>> /\ step' = "get"
  BY DEF Earlier, Goto, ReadsInv, ReadsInOrder
<1>2. cell' \in {cell, Fetched} /\ frame' \in {frame, Encoded}
  BY DEF Earlier
<1>3. ReadsTypeOK'
  BY <1>1, <1>2, StillTyped, ReadTypes DEF ReadsInv, Earlier, ReadsTypeOK, Steps
<1>4. ReadsInOrder'
  BY <1>1 DEF ReadsInOrder, Rules
<1>5. QED
  BY <1>1, <1>3, <1>4, NothingYet DEF Rules

\* The value is fetched.
LEMMA GetFieldInv ==
  ASSUME ReadsInv, GetField
  PROVE  ReadsInv'
<1>1. log' = <<>> /\ step' = "has" /\ cell' = Got
  BY DEF GetField, Goto, ReadsInv, ReadsInOrder
<1>2. ReadsTypeOK'
  BY <1>1, StillTyped, FetchedNotUnread DEF ReadsInv, GetField, ReadsTypeOK, Steps
<1>3. ReadsInOrder'
  BY <1>1, FetchedNotUnread DEF ReadsInv, ReadsInOrder, Rules
<1>4. QED
  BY <1>1, <1>2, <1>3, NothingYet DEF Rules

\* The field is taken as set or not, by what was fetched of it.
LEMMA HasFieldInv ==
  ASSUME ReadsInv, HasField
  PROVE  ReadsInv'
<1>1. UNCHANGED <<shape, python, cell, frame, copy, at, size, changes>> /\ step = "has" /\ log = <<>>
      /\ cell # Unread
  BY DEF HasField, ReadsInv, ReadsInOrder
<1>2. HasObject => (IsSet <=> cell # Nil)
  BY DEF HasObject, IsSet
<1>3. CASE step' = "done" /\ ~IsSet /\ log' = Append(log, Rule("required", Nil))
  <2>1. Rule("required", Nil) \in Judgements
    BY DEF Rule, Judgements
  <2>2. log' \in Seq(Judgements)
    BY <1>3, <2>1, Logged DEF ReadsInv, ReadsTypeOK
  <2>3. ReadsTypeOK'
    BY <1>1, <1>3, <2>2, StillTyped DEF ReadsInv, ReadsTypeOK, Steps
  <2>4. ReadsInOrder'
    BY <1>3 DEF ReadsInOrder, Rules
  <2> DEFINE r == Rule("required", Nil)
  <2>5. r.what = "required"
    BY DEF Rule
  <2> HIDE DEF r
  <2>6. QED
    BY <1>1, <1>2, <1>3, <2>1, <2>3, <2>4, <2>5, LogsRule DEF Rules, r
<1>4. CASE /\ log' = <<>>
           /\ \/ step' = "done"
              \/ step' = "custom" /\ (HasObject => cell # Nil)
  <2>1. ReadsTypeOK'
    BY <1>1, <1>4, StillTyped DEF ReadsInv, ReadsTypeOK, Steps, Rules
  <2>2. ReadsInOrder'
    BY <1>1, <1>4 DEF ReadsInOrder, Rules
  <2>3. HasObject' <=> HasObject
    BY <1>1 DEF HasObject
  <2>4. QED
    BY <1>1, <1>4, <2>1, <2>2, <2>3, NothingYet DEF Rules
<1>5. HasObject => IgnoreEmpty(shape)
  BY DEF HasObject, IgnoreEmpty, TracksPresence
<1>6. QED
  BY <1>1, <1>2, <1>3, <1>4, <1>5 DEF HasField, Goto, Judge, Rule

\* The second program is judged on what the first was: the binding is kept.
LEMMA RunProgramsInv ==
  ASSUME ReadsInv, NEW from \in {"custom", "predefined"},
         NEW to \in {"native", "done", "dict", "list"},
         to = "list" => shape.kind = "list", to = "dict" => shape.kind = "map",
         RunPrograms(from, from, to)
  PROVE  ReadsInv'
<1> DEFINE r == Rule(from, This)
<1>1. ReadsTypeOK /\ ReadsInOrder /\ to \in Steps
  BY DEF ReadsInv, Steps, Rules
<1>2. ReadsTypeOK' /\ frame' = Parsed /\ log' = Append(log, r) /\ r \in Judgements
  BY <1>1, RunProgramsTypes
<1>3. r.what = from /\ r.value = This
  BY DEF Rule
<1> HIDE DEF r
<1>4. UNCHANGED <<shape, cell, copy, at>> /\ step = from /\ step' = to
  BY DEF RunPrograms, Goto
<1>5. cell # Unread /\ ReadsInOrder'
  BY <1>1, <1>4 DEF ReadsInOrder, Rules
<1>6. r.value = Bound' /\ (FromFrame(shape) => frame' # Unparsed)
  <2>1. CASE FromFrame(shape)
    <3>1. This = Parsed /\ Parsed # Unparsed
      BY <1>1, <2>1, ReadTypes DEF This, Parsed
    <3>2. QED
      BY <1>2, <1>3, <1>4, <2>1, <3>1, SameShape DEF Bound
  <2>2. CASE ~FromFrame(shape)
    <3>1. cell # Ref
      BY <1>1, <2>2 DEF ReadsTypeOK
    <3>2. QED
      BY <1>3, <1>4, <2>2, <3>1, SameShape DEF Bound, This, NativeValue
  <2>3. QED
    BY <2>1, <2>2
<1>7. frame' = frame \/ (FromFrame(shape) /\ frame = Unparsed)
  BY <1>2 DEF Parsed
<1>8. HasObject /\ step' \in Rules => cell # Nil
  BY <1>4 DEF ReadsInv, Presence, Rules
<1>9. r.what \notin {"item", "native", "required", "unique"} /\ step \notin {"item", "done", "error", "panic"}
      /\ step' # "item"
  BY <1>3, <1>4
<1>10. QED
  BY <1>2, <1>4, <1>5, <1>6, <1>7, <1>8, <1>9, LogsRule

\* The native checks judge a field that is there.
LEMMA RunNativeInv ==
  ASSUME ReadsInv, RunNative
  PROVE  ReadsInv'
<1>1. ReadsTypeOK /\ ReadsInOrder
  BY DEF ReadsInv
<1>2. ReadsTypeOK' /\ \E value : log' = Append(log, Rule("native", value))
                              /\ Rule("native", value) \in Judgements
  BY <1>1, RunNativeTypes
<1>3. PICK r \in Judgements : log' = Append(log, r) /\ r.what = "native"
  BY <1>2 DEF Rule
<1>4. UNCHANGED <<shape, cell, frame, copy, at>> /\ step = "native" /\ step' \in {"unique", "predefined"}
      /\ (step' = "unique" => shape.kind = "list")
  BY DEF RunNative, Goto
<1>5. ReadsInOrder'
  BY <1>1, <1>4 DEF ReadsInOrder, Rules
<1>6. HasObject => cell # Nil
  BY <1>4 DEF ReadsInv, Presence, Rules
<1>7. QED
  BY <1>2, <1>3, <1>4, <1>5, <1>6, LogsRule

\* What `unique' compares is the start of the copy.
LEMMA RunUniqueInv ==
  ASSUME ReadsInv, RunUnique
  PROVE  ReadsInv'
<1> DEFINE r == Rule("unique", Upto(size, Copied))
<1>1. ReadsTypeOK /\ ReadsInOrder
  BY DEF ReadsInv
<1>2. ReadsTypeOK' /\ copy' = Copied /\ log' = Append(log, r) /\ r \in Judgements
  BY <1>1, RunUniqueTypes
<1>3. r.what = "unique" /\ r.value = Upto(size, Copied)
  BY DEF Rule
<1> HIDE DEF r
<1>4. UNCHANGED <<shape, cell, frame, at>> /\ step = "unique" /\ step' = "predefined"
      /\ shape.kind = "list" /\ size \in Nat
  BY <1>1 DEF RunUnique, Goto, ReadsInOrder, ReadsTypeOK
<1>5. ReadsInOrder'
  BY <1>1, <1>4 DEF ReadsInOrder, Rules
<1>6. HasObject => cell # Nil
  BY <1>4 DEF ReadsInv, Presence, Rules
<1>7. Copied # Unread /\ \A k \in DOMAIN r.value : k \in DOMAIN Copied /\ r.value[k] = Copied[k]
  BY <1>1, <1>3, <1>4, CopyTypes
<1>8. copy' = copy \/ copy = Unread
  BY <1>2 DEF Copied
<1>9. QED
  BY <1>2, <1>3, <1>4, <1>5, <1>6, <1>7, <1>8, LogsRule

\* The items come after everything that is judged of the field.
LEMMA BeginListInv ==
  ASSUME ReadsInv, BeginList
  PROVE  ReadsInv'
<1>1. ReadsTypeOK /\ ReadsInOrder
  BY DEF ReadsInv
<1>2. UNCHANGED <<shape, cell, frame, copy, log>> /\ step = "list" /\ step' = "item" /\ at' = 1
      /\ shape.kind = "list" /\ size' = ListLen
  BY <1>1 DEF BeginList, Goto, ReadsInOrder
<1>3. ListLen \in Nat
  BY <1>1, <1>2, ReadTypes DEF ListLen, ReadsTypeOK
<1>4. ReadsTypeOK'
  BY <1>1, <1>2, <1>3, StillTyped DEF BeginList, ReadsTypeOK, Steps
<1>5. ReadsInOrder'
  BY <1>1, <1>2 DEF ReadsInOrder, Rules
<1>6. BoundOnce'
  BY <1>2, SameShape DEF ReadsInv, BoundOnce, Bound
<1>7. Presence'
  BY <1>2, SameShape DEF ReadsInv, Presence, Rules
<1>8. UniqueOfCopy'
  BY <1>2 DEF ReadsInv, UniqueOfCopy
<1>9. PICK n \in 0..Len(log) : ItemsFrom(n)
  BY DEF ReadsInv
<1>10. n = Len(log) /\ Len(log) \in Nat /\ DOMAIN log = 1..Len(log)
  BY <1>1, <1>2, <1>9 DEF ItemsFrom, ReadsTypeOK
<1>11. copy # Unread => Len(copy) \in Nat
  BY <1>1 DEF ReadsTypeOK
<1>12. Visited' = 0
  BY <1>2, <1>11 DEF Visited
<1>13. ItemsFrom(n)'
  BY <1>2, <1>9, <1>10, <1>12 DEF ItemsFrom
<1>14. QED
  BY <1>2, <1>4, <1>5, <1>6, <1>7, <1>8, <1>9, <1>13 DEF ReadsInv

\* Each item is judged after the ones before it; one that is left out is at the end.
LEMMA VisitItemInv ==
  ASSUME ReadsInv, VisitItem
  PROVE  ReadsInv'
<1>1. ReadsTypeOK /\ ReadsInOrder
  BY DEF ReadsInv
<1>2. /\ UNCHANGED <<shape, cell, frame>> /\ ReadsTypeOK' /\ shape.kind = "list" /\ step = "item"
      /\ at \in Nat /\ at >= 1
  BY <1>1, VisitItemTypes DEF VisitItem
<1>3. CASE at > size /\ step' = "done" /\ UNCHANGED <<copy, log, at>>
  <2>1. ReadsInOrder'
    BY <1>1, <1>2, <1>3 DEF ReadsInOrder, Rules
  <2>2. QED
    BY <1>2, <1>3, <2>1, LogsNothing
<1>4. CASE copy' = Copied /\ at' = at + 1 /\ step' = step
           /\ \/ (at > Len(Copied) \/ Skipped(Copied[at])) /\ log' = log
              \/ /\ at <= Len(Copied) /\ ~Skipped(Copied[at])
                 /\ log' = Append(log, Rule("item", <<at, Copied[at]>>))
                 /\ Rule("item", <<at, Copied[at]>>) \in Judgements
  <2>1. ReadsInOrder'
    BY <1>1, <1>2, <1>4 DEF ReadsInOrder, Rules
  <2>2. Copied \in Seq(Contents) /\ Copied # Unread /\ (copy = Copied \/ copy = Unread)
    BY <1>1, <1>2, CopyTypes DEF Copied
  <2>3. PICK n \in 0..Len(log) : ItemsFrom(n)
    BY DEF ReadsInv
  <2>4. log \in Seq(Judgements) /\ Len(log) \in Nat /\ DOMAIN log = 1..Len(log) /\ n \in Nat
        /\ n <= Len(log)
    BY <1>1 DEF ReadsTypeOK
  <2>5. Len(Copied) \in Nat /\ DOMAIN Copied = 1..Len(Copied)
    BY <2>2
  <2>6. copy = Unread => at = 1 /\ n = Len(log)
    <3>1. ASSUME copy = Unread, n < Len(log) PROVE FALSE
      <4>1. Len(log) \in DOMAIN log /\ Len(log) > n
        BY <2>4, <3>1
      <4>2. QED
        BY <2>3, <3>1, <4>1 DEF ItemsFrom
    <3>2. copy = Unread => at = 1
      BY <1>2, <2>3 DEF ItemsFrom
    <3>3. n < Len(log) \/ n = Len(log)
      <4>1. \A a, b \in Nat : a <= b => a < b \/ a = b
        OBVIOUS
      <4>2. QED
        BY <2>4, <4>1
    <3>4. QED
      BY <3>1, <3>2, <3>3
  <2>7. shape.items = "unspecified" =>
          Len(log) = n + (IF at - 1 <= Len(Copied) THEN at - 1 ELSE Len(Copied))
    BY <1>2, <2>2, <2>3, <2>5, <2>6 DEF ItemsFrom, Visited
  <2>8. shape.items = "unspecified" => \A v : ~Skipped(v)
    BY DEF Skipped
  <2>9. Visited' = IF at <= Len(Copied) THEN at ELSE Len(Copied)
    BY <1>2, <1>4, <2>2 DEF Visited
  <2>10. UniqueOfCopy
    BY DEF ReadsInv
  <2>11. CASE log' = log /\ (at > Len(Copied) \/ Skipped(Copied[at]))
    <3>1. BoundOnce'
      BY <1>2, <2>11, SameShape DEF ReadsInv, BoundOnce, Bound
    <3>2. Presence'
      BY <1>2, <1>4, <2>11, SameShape DEF ReadsInv, Presence, Rules
    <3>3. UniqueOfCopy'
      BY <1>4, <2>2, <2>10, <2>11 DEF UniqueOfCopy
    <3>4. /\ \A i \in DOMAIN log : log[i].what = "item" <=> i > n
          /\ \A i \in DOMAIN log : i > n =>
               /\ log[i].value[1] \in DOMAIN Copied
               /\ log[i].value[2] = Copied[log[i].value[1]]
               /\ log[i].value[1] < at
               /\ shape.items = "unspecified" => log[i].value[1] = i - n
          /\ \A i, j \in DOMAIN log : n < j /\ j < i => log[j].value[1] < log[i].value[1]
      BY <1>2, <2>2, <2>3 DEF ItemsFrom
    <3>5. \A i \in DOMAIN log : i > n => log[i].value[1] < at + 1
      <4> SUFFICES ASSUME NEW i \in DOMAIN log, i > n PROVE log[i].value[1] < at + 1
        OBVIOUS
      <4>1. log[i].value[1] \in Nat /\ log[i].value[1] < at
        BY <2>5, <3>4
      <4>2. QED
        BY <1>2, <4>1
    <3>6. shape.items = "unspecified" => Len(log) = n + Visited'
      <4>1. shape.items = "unspecified" => at > Len(Copied)
        BY <2>8, <2>11
      <4>2. at > Len(Copied) => Visited' = Len(Copied)
        <5>1. \A a, b \in Nat : a > b => ~(a <= b)
          OBVIOUS
        <5>2. at > Len(Copied) => ~(at <= Len(Copied))
          BY <1>2, <2>5, <5>1
        <5>3. QED
          BY <2>9, <5>2
      <4>3. at > Len(Copied) => (IF at - 1 <= Len(Copied) THEN at - 1 ELSE Len(Copied)) = Len(Copied)
        BY <1>2, <2>5
      <4>4. shape.items = "unspecified" => Len(log) = n + Len(Copied)
        BY <2>7, <4>1, <4>3
      <4>5. QED
        BY <4>1, <4>2, <4>4
    <3>7. ItemsFrom(n)'
      BY <1>2, <1>4, <2>2, <2>11, <3>4, <3>5, <3>6 DEF ItemsFrom
    <3>8. QED
      BY <1>2, <2>1, <2>3, <2>11, <3>1, <3>2, <3>3, <3>7 DEF ReadsInv
  <2>12. CASE /\ at <= Len(Copied) /\ ~Skipped(Copied[at])
              /\ log' = Append(log, Rule("item", <<at, Copied[at]>>))
              /\ Rule("item", <<at, Copied[at]>>) \in Judgements
    <3> DEFINE r == Rule("item", <<at, Copied[at]>>)
    <3>1. r.what = "item" /\ r.value[1] = at /\ r.value[2] = Copied[at] /\ r \in Judgements
      BY <2>12 DEF Rule
    <3> HIDE DEF r
    <3>2. /\ Len(log') = Len(log) + 1 /\ DOMAIN log' = 1..(Len(log) + 1)
          /\ log'[Len(log) + 1] = r /\ \A i \in DOMAIN log : log'[i] = log[i]
      BY <1>1, <2>12, <3>1, Logged DEF r, ReadsTypeOK
    <3>3. \A i \in DOMAIN log' : i \in DOMAIN log \/ i = Len(log) + 1
      BY <2>4, <3>2
    <3>4. BoundOnce'
      BY <1>2, <3>1, <3>2, <3>3, SameShape DEF ReadsInv, BoundOnce, Bound
    <3>5. Presence'
      BY <1>2, <1>4, <3>1, <3>2, <3>3, SameShape DEF ReadsInv, Presence, Rules
    <3>6. UniqueOfCopy'
      BY <1>4, <2>2, <2>10, <3>1, <3>2, <3>3 DEF UniqueOfCopy
    <3>7. /\ \A i \in DOMAIN log : log[i].what = "item" <=> i > n
          /\ \A i \in DOMAIN log : i > n =>
               /\ log[i].value[1] \in DOMAIN Copied
               /\ log[i].value[2] = Copied[log[i].value[1]]
               /\ log[i].value[1] < at
               /\ shape.items = "unspecified" => log[i].value[1] = i - n
          /\ \A i, j \in DOMAIN log : n < j /\ j < i => log[j].value[1] < log[i].value[1]
      BY <1>2, <2>2, <2>3, <2>6 DEF ItemsFrom
    <3>8. \A i \in DOMAIN log' : log'[i].what = "item" <=> i > n
      BY <2>4, <3>1, <3>2, <3>3, <3>7
    <3>9. ASSUME NEW i \in DOMAIN log', i > n
          PROVE  /\ log'[i].value[1] \in DOMAIN Copied
                 /\ log'[i].value[2] = Copied[log'[i].value[1]]
                 /\ log'[i].value[1] < at + 1
                 /\ shape.items = "unspecified" => log'[i].value[1] = i - n
      <4>1. CASE i \in DOMAIN log
        <5>1. log[i].value[1] \in Nat /\ log[i].value[1] < at
          BY <2>5, <3>7, <3>9, <4>1
        <5>2. log[i].value[1] < at + 1
          BY <1>2, <5>1
        <5>3. QED
          BY <3>2, <3>7, <3>9, <4>1, <5>2
      <4>2. CASE i = Len(log) + 1
        <5>1. shape.items = "unspecified" => at = i - n
          <6>1. (IF at - 1 <= Len(Copied) THEN at - 1 ELSE Len(Copied)) = at - 1
            BY <1>2, <2>5, <2>12
          <6>2. shape.items = "unspecified" => Len(log) = n + (at - 1)
            BY <2>7, <6>1
          <6>3. QED
            BY <1>2, <2>4, <4>2, <6>2
        <5>2. QED
          BY <1>2, <2>5, <2>12, <3>1, <3>2, <4>2, <5>1
      <4>3. QED
        BY <3>3, <4>1, <4>2
    <3>10. ASSUME NEW i \in DOMAIN log', NEW j \in DOMAIN log', n < j, j < i
           PROVE  log'[j].value[1] < log'[i].value[1]
      <4>1. j \in DOMAIN log
        BY <2>4, <3>2, <3>10
      <4>2. CASE i \in DOMAIN log
        BY <3>2, <3>7, <3>10, <4>1, <4>2
      <4>3. CASE i = Len(log) + 1
        BY <3>1, <3>2, <3>7, <3>10, <4>1, <4>3
      <4>4. QED
        BY <3>3, <4>2, <4>3
    <3>11. shape.items = "unspecified" => Len(log') = n + Visited'
      <4>1. (IF at - 1 <= Len(Copied) THEN at - 1 ELSE Len(Copied)) = at - 1
        BY <1>2, <2>5, <2>12
      <4>2. shape.items = "unspecified" => Len(log) = n + (at - 1)
        BY <2>7, <4>1
      <4>3. Visited' = at
        BY <2>9, <2>12
      <4>4. QED
        BY <1>2, <2>4, <3>2, <4>2, <4>3
    <3>12. ItemsFrom(n)'
      BY <1>2, <1>4, <2>2, <3>8, <3>9, <3>10, <3>11 DEF ItemsFrom
    <3>13. n \in 0..Len(log')
      BY <2>4, <3>2
    <3>14. QED
      BY <1>2, <2>1, <3>4, <3>5, <3>6, <3>12, <3>13 DEF ReadsInv
  <2>13. QED
    BY <1>4, <2>11, <2>12
<1>5. QED
  BY <1>1, <1>3, <1>4, VisitItemTypes

\* The entries come after everything that is judged of the field.
LEMMA BeginMapInv ==
  ASSUME ReadsInv, BeginMap
  PROVE  ReadsInv'
<1>1. ReadsTypeOK /\ ReadsInOrder
  BY DEF ReadsInv
<1>2. UNCHANGED <<shape, cell, frame, copy, log>> /\ step = "dict" /\ step' = "entry" /\ at' = 1
      /\ shape.kind = "map" /\ size' = DictSize(python.value)
  BY <1>1 DEF BeginMap, Goto, ReadsInOrder
<1>3. ReadsTypeOK'
  BY <1>1, <1>2, StillTyped, ReadTypes DEF BeginMap, ReadsTypeOK, Steps
<1>4. ReadsInOrder'
  BY <1>1, <1>2 DEF ReadsInOrder, Rules
<1>5. QED
  BY <1>2, <1>3, <1>4, LogsNothing

\* Entries are judged, not items.
LEMMA VisitEntryInv ==
  ASSUME ReadsInv, VisitEntry
  PROVE  ReadsInv'
<1>1. ReadsTypeOK /\ ReadsInOrder
  BY DEF ReadsInv
<1>2. /\ UNCHANGED <<shape, cell, frame, copy>> /\ ReadsTypeOK' /\ shape.kind = "map" /\ step = "entry"
      /\ at \in Nat /\ at >= 1
  BY <1>1, VisitEntryTypes DEF VisitEntry
<1>3. CASE step' \in {"done", "error", "panic"} /\ UNCHANGED <<log, at>>
  <2>1. ReadsInOrder'
    BY <1>1, <1>2, <1>3 DEF ReadsInOrder, Rules
  <2>2. QED
    BY <1>2, <1>3, <2>1, LogsNothing
<1>4. CASE Left # {} /\ step' = step /\ at' = NextEntry + 1
  <2>1. at' \in Nat /\ at' >= 1
    BY <1>1, <1>2, <1>4, NextEntryIs
  <2>2. ReadsInOrder'
    BY <1>1, <1>2, <1>4, <2>1 DEF ReadsInOrder, Rules
  <2>3. CASE log' = log
    BY <1>2, <1>4, <2>2, <2>3, LogsNothing
  <2>4. CASE /\ log' = Append(log, Rule("entry", python.value[NextEntry]))
             /\ Rule("entry", python.value[NextEntry]) \in Judgements
    <3> DEFINE r == Rule("entry", python.value[NextEntry])
    <3>1. r.what = "entry" /\ r \in Judgements /\ log' = Append(log, r)
      BY <2>4 DEF Rule
    <3> HIDE DEF r
    <3>2. QED
      BY <1>2, <1>4, <2>2, <3>1, LogsRule DEF Rules
  <2>5. QED
    BY <1>1, <1>2, <1>4, <2>3, <2>4, VisitEntryTypes
<1>5. QED
  BY <1>1, <1>3, <1>4, VisitEntryTypes

\* A read that raises judges nothing.
LEMMA ReadFailsInv ==
  ASSUME ReadsInv, ReadFails
  PROVE  ReadsInv'
<1>1. UNCHANGED <<shape, cell, frame, copy, at, log>> /\ step' = "error"
  BY DEF ReadFails, Goto
<1>2. ReadsTypeOK'
  BY <1>1, StillTyped DEF ReadsInv, ReadFails, ReadsTypeOK, Steps
<1>3. ReadsInOrder'
  BY <1>1 DEF ReadsInOrder, Rules
<1>4. QED
  BY <1>1, <1>2, <1>3, LogsNothing

\* A change reaches neither the binding nor the copy.
LEMMA ChangeInv ==
  ASSUME ReadsInv, Change
  PROVE  ReadsInv'
<1>1. UNCHANGED <<shape, cell, frame, copy, step, at, log>>
  BY DEF Change
<1>2. ReadsTypeOK'
  BY ChangeTypes DEF ReadsInv
<1>3. ReadsInOrder'
  BY <1>1 DEF ReadsInv, ReadsInOrder, Rules
<1>4. QED
  BY <1>1, <1>2, <1>3, LogsNothing

\* Every step keeps ReadsInv.
LEMMA ReadsStep == ReadsInv /\ [ReadsNext]_readVars => ReadsInv'
<1> SUFFICES ASSUME ReadsInv, [ReadsNext]_readVars PROVE ReadsInv'
  OBVIOUS
<1>1. CASE RunCustom
  BY <1>1, RunProgramsInv DEF RunCustom
<1>2. CASE RunPredefined
  <2>1. shape.items # "none" => shape.kind \in {"list", "map"}
    BY ReadTypes DEF IsShape, ReadsInv
  <2> DEFINE to == IF shape.items = "none" THEN "done" ELSE IF shape.kind = "map" THEN "dict" ELSE "list"
  <2>2. /\ to \in {"native", "done", "dict", "list"} /\ (to = "list" => shape.kind = "list")
        /\ (to = "dict" => shape.kind = "map") /\ RunPrograms("predefined", "predefined", to)
    BY <1>2, <2>1 DEF RunPredefined
  <2> HIDE DEF to
  <2>3. QED
    BY <2>2, RunProgramsInv
<1>3. CASE UNCHANGED readVars
  <2>1. ReadsTypeOK' /\ ReadsInOrder'
    BY <1>3 DEF readVars, ReadsInv, ReadsTypeOK, ReadsInOrder, PyValues, FromFrame, TracksPresence, Rules
  <2>2. QED
    BY <1>3, <2>1, LogsNothing DEF readVars
<1>4. QED
  BY <1>1, <1>2, <1>3, BuildFieldInv, EarlierInv, GetFieldInv, HasFieldInv, RunNativeInv, RunUniqueInv,
     BeginListInv, VisitItemInv, BeginMapInv, VisitEntryInv, ReadFailsInv, ChangeInv
     DEF ReadsNext, ReadStep

\* ReadsInv holds throughout.
LEMMA ReadsAlways == ReadsSpec => []ReadsInv
<1>1. QED
  BY InitInv, ReadsStep, PTL DEF ReadsSpec

\* The custom and the predefined rules of a field see one value, though native checks
\* read the message anew in between, and other threads change it.  (ValueValidator::
\* validate and CelFrame::parsed in rules/eval.rs)
THEOREM RulesSeeOneValueAlways == ReadsSpec => []RulesSeeOneValue
<1>1. ReadsInv => RulesSeeOneValue
  BY DEF ReadsInv, BoundOnce, RulesSeeOneValue, Judged
<1>2. QED
  BY <1>1, ReadsAlways, PTL

\* A protobuf-py field is taken as set exactly if the value it is judged on was,
\* though the field may be set or cleared in between.  (MessageView::get and
\* has in view.rs, as FieldValidator::validate of rules/eval.rs calls them)
THEOREM SetIfReadAlways == ReadsSpec => []SetIfRead
<1>1. ReadsInv => SetIfRead
  BY DEF ReadsInv, Presence, HasObject, SetIfRead, Judged
<1>2. QED
  BY <1>1, ReadsAlways, PTL

\* The items judged are the first items of one copy, each once and in order, and the
\* ones that `unique' compared, though the list may grow and shrink while it is read.
\* (validate_list in rules/eval.rs, ListView in view.rs)
THEOREM ItemsOnceAlways == ReadsSpec => []ItemsOnce
<1>1. ASSUME ReadsInv PROVE ItemsOnce
  <2>1. PICK n \in 0..Len(log) : ItemsFrom(n)
    BY <1>1 DEF ReadsInv
  <2>2. Len(log) \in Nat /\ DOMAIN log = 1..Len(log) /\ n \in Nat
    BY <1>1 DEF ReadsInv, ReadsTypeOK
  <2>3. \A i \in DOMAIN log : i \in Judged("item") <=> i > n
    BY <2>1 DEF ItemsFrom, Judged
  <2>4. \A w : Judged(w) \subseteq DOMAIN log
    BY DEF Judged
  <2>5. ASSUME NEW i \in Judged("item")
        PROVE  /\ copy # Unread /\ log[i].value[1] \in DOMAIN copy
               /\ log[i].value[2] = copy[log[i].value[1]]
               /\ \A j \in Judged("item") : j < i => log[j].value[1] < log[i].value[1]
               /\ \A j \in Judged("unique") : log[i].value[1] \in DOMAIN log[j].value
                                              => log[j].value[log[i].value[1]] = log[i].value[2]
    <3>1. i \in DOMAIN log /\ i > n
      BY <2>3, <2>4
    <3>2. /\ copy # Unread /\ log[i].value[1] \in DOMAIN copy
          /\ log[i].value[2] = copy[log[i].value[1]]
      BY <2>1, <3>1 DEF ItemsFrom
    <3>3. \A j \in Judged("item") : j < i => log[j].value[1] < log[i].value[1]
      BY <2>1, <2>3, <2>4, <3>1 DEF ItemsFrom
    <3>4. \A j \in Judged("unique") : log[i].value[1] \in DOMAIN log[j].value
                                      => log[j].value[log[i].value[1]] = log[i].value[2]
      BY <1>1, <3>2 DEF ReadsInv, UniqueOfCopy, Judged
    <3>5. QED
      BY <3>2, <3>3, <3>4
  <2>6. ASSUME shape.items = "unspecified", NEW i \in Judged("item")
        PROVE  log[i].value[1] = Ordinal(i, Judged("item"))
    <3>1. i \in DOMAIN log /\ i > n
      BY <2>3, <2>4
    <3>2. log[i].value[1] = i - n
      BY <2>1, <2>6, <3>1 DEF ItemsFrom
    <3>3. {j \in Judged("item") : j <= i} = (n + 1)..i
      BY <2>2, <2>3, <2>4, <3>1
    <3>4. Cardinality((n + 1)..i) = i - n
      BY <2>2, <3>1, FS_Interval
    <3>5. QED
      BY <3>2, <3>3, <3>4 DEF Ordinal
  <2>7. QED
    BY <2>5, <2>6 DEF ItemsOnce
<1>2. QED
  BY <1>1, ReadsAlways, PTL

----------------------------------------------------------------------------
(* A message that nothing changes. *)

\* What is asked for depends on the field and its value alone.
LEMMA Unmoved ==
  ASSUME UNCHANGED <<shape, python>>
  PROVE  /\ Upfront' = Upfront /\ DueNow' = DueNow /\ Whole' = Whole /\ (Compares' <=> Compares)
         /\ AsCustom' = AsCustom /\ AsNative' = AsNative /\ AsUnique' = AsUnique
         /\ Fetched' = Fetched /\ Encoded' = Encoded
  BY DEF Upfront, DueNow, Whole, Compares, AsCustom, AsNative, AsUnique, Fetched, Encoded, FromFrame

\* Reading a value that does not change leaves what was read the same.
LEMMA StillSame ==
  ASSUME Same, UNCHANGED <<shape, python>>, cell' \in {cell, Fetched}, frame' \in {frame, Encoded},
         copy' \in {copy, python.value}
  PROVE  Same'
  BY Unmoved DEF Same

\* Nothing is judged yet.
LEMMA InitQuiet == ReadsInit => QuietInv
<1> SUFFICES ASSUME ReadsInit PROVE QuietInv
  OBVIOUS
<1>1. shape.kind = "map" => \A i \in DOMAIN python.value : python.value[i] # Hole
  <2> SUFFICES ASSUME shape.kind = "map", NEW i \in DOMAIN python.value PROVE python.value[i] # Hole
    OBVIOUS
  <2>1. python.value \in Seq(Keys \X Contents)
    BY MaxLengthAssumption DEF ReadsInit, Values
  <2>2. QED
    BY <2>1, SentinelsAssumption
<1>2. QED
  BY <1>1 DEF ReadsInit, QuietInv, Same, Rules

\* What the field is, as the code reads it and as validate.proto says.
LEMMA QuietReads ==
  ASSUME ReadsInv, QuietInv, changes = 0, step # "build", step # "done", step # "error", cell # Unread
  PROVE  /\ cell = Fetched
         /\ IsSet <=> ~UnsetOrZero(shape, python)
         /\ Ignored(shape, python) <=> ~IsSet /\ ~shape.required /\ IgnoreEmpty(shape)
         /\ Missing(shape, python) <=> ~IsSet /\ shape.required
<1>1. IsShape(shape) /\ Fetched \in {Nil, Ref} \cup Contents /\ (Fetched = Ref => FromFrame(shape))
      /\ (python.set \/ TracksPresence(shape))
  BY ReadTypes DEF ReadsInv, ReadsTypeOK
<1>2. cell = Fetched /\ shape.ignore # "always"
  BY DEF QuietInv, Same
<1>3. CASE HasObject
  <2>1. Nil \notin Contents /\ Ref # Nil
    BY SentinelsAssumption
  <2>2. cell = Nil <=> ~python.set
    <3>1. ~FromFrame(shape) => ReadsAs(python) \in Contents
      BY ReadTypes DEF ReadsInv, ReadsAs, Contents, FromFrame
    <3>2. QED
      BY <1>2, <1>3, <2>1, <3>1 DEF Fetched, HasObject
  <2>3. IsSet <=> python.set
    BY <1>3, <2>2 DEF IsSet, HasObject
  <2>4. QED
    BY <1>2, <1>3, <2>3 DEF UnsetOrZero, TracksPresence, HasObject, Ignored, Missing, IgnoreEmpty, Ignore
<1>4. CASE ~HasObject /\ TracksPresence(shape)
  <2>1. IsSet <=> python.set
    BY <1>1, <1>4 DEF IsSet, HasObject, TracksPresence, IsShape
  <2>2. QED
    BY <1>2, <1>4, <2>1 DEF UnsetOrZero, Ignored, Missing, IgnoreEmpty, Ignore
<1>5. CASE shape.kind = "implicit"
  <2>1. ~TracksPresence(shape) /\ ~HasObject /\ cell = python.value
    BY <1>1, <1>2, <1>5 DEF TracksPresence, HasObject, Fetched, FromFrame, ReadsAs
  <2>2. IsSet <=> python.value # Zero
    BY <1>5, <2>1 DEF IsSet, TracksPresence
  <2>3. QED
    BY <1>2, <1>5, <2>1, <2>2 DEF UnsetOrZero, Ignored, Missing, IgnoreEmpty, Ignore
<1>6. CASE shape.kind \in {"list", "map"}
  <2>1. ~TracksPresence(shape) /\ ~HasObject
    BY <1>6 DEF TracksPresence, HasObject
  <2>2. Length(shape, python.value) \in Nat
    BY <1>6, ReadTypes DEF ReadsInv, Length
  <2>3. Length(shape, python.value) > 0 <=> Length(shape, python.value) # 0
    BY <2>2
  <2>4. IsSet <=> Length(shape, python.value) > 0
    BY <1>6 DEF IsSet, TracksPresence
  <2>5. UnsetOrZero(shape, python) <=> Length(shape, python.value) = 0
    BY <1>6, <2>1 DEF UnsetOrZero
  <2>6. QED
    BY <1>2, <2>1, <2>3, <2>4, <2>5 DEF Ignored, Missing, IgnoreEmpty, Ignore
<1>7. QED
  BY <1>1, <1>3, <1>4, <1>5, <1>6 DEF IsShape, TracksPresence

\* A validation that ends without elements has judged what the field asks for.
LEMMA EndsHere ==
  ASSUME UNCHANGED <<shape, python>>, log' = Upfront, DueNow = {}
  PROVE  QuietIsSequential'
<1>1. Cardinality({}) = 0 /\ Len(Upfront) \in Nat
  BY FS_EmptySet DEF Upfront, OfField
<1>2. QED
  BY <1>1 DEF QuietIsSequential, Upfront, DueNow

\* A field that is always ignored has nothing to be judged.
LEMMA BuildFieldQuiet ==
  ASSUME ReadsInv, QuietInv, changes = 0, BuildField
  PROVE  QuietInv'
<1>1. UNCHANGED <<shape, python, cell, frame, copy>> /\ log' = <<>>
      /\ step' = IF Validates(shape) THEN "earlier" ELSE "done"
  BY DEF BuildField, Goto, ReadsInv, ReadsInOrder
<1>2. Same'
  BY <1>1, StillSame DEF QuietInv
<1>3. Validates(shape) <=> shape.ignore # "always"
  BY DEF Validates, Ignore
<1>4. CASE shape.ignore = "always"
  <2>1. Upfront = <<>> /\ DueNow = {}
    BY <1>4 DEF Upfront, DueNow, OfField, Due, Ignored
  <2>2. QuietIsSequential'
    BY <1>1, <2>1, EndsHere
  <2>3. QED
    BY <1>1, <1>2, <1>3, <1>4, <2>2 DEF QuietInv, Rules
<1>5. CASE shape.ignore # "always"
  BY <1>1, <1>2, <1>3, <1>5 DEF QuietInv, Rules
<1>6. QED
  BY <1>4, <1>5

\* Another rule reads the message before.
LEMMA EarlierQuiet ==
  ASSUME ReadsInv, QuietInv, changes = 0, Earlier
  PROVE  QuietInv'
<1>1. UNCHANGED <<shape, python, copy, changes>> /\ step = "earlier" /\ step' = "get"
      /\ cell' \in {cell, Fetched} /\ frame' \in {frame, Encoded}
  BY DEF Earlier, Goto
<1>2. Same'
  BY <1>1, StillSame DEF QuietInv
<1>3. QED
  BY <1>1, <1>2 DEF QuietInv, Rules

\* The value is fetched.
LEMMA GetFieldQuiet ==
  ASSUME ReadsInv, QuietInv, changes = 0, GetField
  PROVE  QuietInv'
<1>1. UNCHANGED <<shape, python, frame, copy, changes>> /\ step = "get" /\ step' = "has"
      /\ cell' \in {cell, Fetched}
  BY DEF GetField, Goto, Got
<1>2. Same'
  BY <1>1, StillSame DEF QuietInv
<1>3. QED
  BY <1>1, <1>2 DEF QuietInv, Rules

\* The end of a field that is missing or ignored; the others have their rules judged.
LEMMA HasFieldQuiet ==
  ASSUME ReadsInv, QuietInv, changes = 0, HasField
  PROVE  QuietInv'
<1>1. UNCHANGED <<shape, python, cell, frame, copy, changes>> /\ step = "has" /\ log = <<>>
      /\ cell # Unread
  BY DEF HasField, ReadsInv, ReadsInOrder
<1>2. Same' /\ shape.ignore # "always"
  BY <1>1, StillSame DEF QuietInv
<1>3. /\ Ignored(shape, python) <=> ~IsSet /\ ~shape.required /\ IgnoreEmpty(shape)
      /\ Missing(shape, python) <=> ~IsSet /\ shape.required
  BY <1>1, QuietReads
<1>4. CASE Missing(shape, python)
  <2>1. step' = "done" /\ log' = <<Rule("required", Nil)>>
    BY <1>1, <1>3, <1>4 DEF HasField, Goto, Judge, Rule
  <2>2. Upfront = <<Rule("required", Nil)>> /\ DueNow = {}
    BY <1>3, <1>4 DEF Upfront, DueNow, OfField, Due
  <2>3. QuietIsSequential'
    BY <1>1, <2>1, <2>2, EndsHere
  <2>4. QED
    BY <1>1, <1>2, <2>1, <2>3 DEF QuietInv, Rules
<1>5. CASE Ignored(shape, python)
  <2>1. step' = "done" /\ log' = <<>>
    BY <1>1, <1>3, <1>5 DEF HasField, Goto
  <2>2. Upfront = <<>> /\ DueNow = {}
    BY <1>5 DEF Upfront, DueNow, OfField, Due
  <2>3. QuietIsSequential'
    BY <1>1, <2>1, <2>2, EndsHere
  <2>4. QED
    BY <1>1, <1>2, <2>1, <2>3 DEF QuietInv, Rules
<1>6. CASE ~Missing(shape, python) /\ ~Ignored(shape, python)
  <2>1. step' = "custom" /\ log' = <<>>
    BY <1>1, <1>3, <1>6 DEF HasField, Goto
  <2>2. QED
    BY <1>1, <1>2, <1>6, <2>1 DEF QuietInv, Rules
<1>7. QED
  BY <1>4, <1>5, <1>6

\* What the rules of a field that nothing changes are judged on.
LEMMA QuietValues ==
  ASSUME ReadsInv, QuietInv, changes = 0, step \in Rules
  PROVE  /\ Parsed \in {frame, Encoded} /\ This = Held(shape, python)
         /\ shape.kind \notin {"list", "map"} => NativeValue = Counted(shape, python)
         /\ shape.kind = "list" => ListLen = Counted(shape, python) /\ Copied = python.value
         /\ shape.kind = "map" => DictSize(python.value) = Counted(shape, python)
<1>1. IsShape(shape) /\ Encoded # Unparsed /\ cell # Unread
  BY ReadTypes DEF ReadsInv, ReadsInOrder
<1>2. cell = Fetched /\ frame \in {Unparsed, Encoded} /\ copy \in {Unread, python.value}
  BY <1>1 DEF QuietInv, Same
<1>3. FromFrame(shape) => Parsed = Encoded
  BY <1>2 DEF Parsed
<1>4. Held(shape, python) = Encoded
  BY DEF Held, Encoded
<1>5. TracksPresence(shape) => python.set
  <2>1. ~Ignored(shape, python) /\ ~Missing(shape, python) /\ shape.ignore # "always"
    BY DEF QuietInv, Rules
  <2>2. QED
    BY <2>1 DEF Ignored, Missing, UnsetOrZero
<1>6. python.set
  BY <1>5 DEF ReadsInv, ReadsTypeOK
<1>7. shape.kind \notin {"list", "map"} => NativeValue = python.value
  <2>1. CASE shape.kind \in {"list", "map"}
    BY <2>1
  <2>2. CASE shape.kind = "message"
    <3>1. Fetched = Ref /\ Ref # Nil
      BY <1>6, <2>2, SentinelsAssumption DEF Fetched, FromFrame
    <3>2. QED
      BY <1>2, <3>1 DEF NativeValue
  <2>3. CASE shape.kind \notin {"list", "map", "message"}
    <3>1. python.value \in Contents /\ ~FromFrame(shape)
      BY <2>3, ReadTypes DEF ReadsInv, FromFrame
    <3>2. Fetched = python.value
      BY <1>6, <3>1 DEF Fetched, ReadsAs
    <3>3. python.value # Nil /\ python.value # Ref
      BY <3>1, SentinelsAssumption
    <3>4. QED
      BY <1>2, <3>2, <3>3 DEF NativeValue
  <2>4. QED
    BY <2>1, <2>2, <2>3
<1>8. shape.kind \notin {"list", "map"} =>
        Held(shape, python) = python.value /\ Counted(shape, python) = python.value
  BY <1>6 DEF Held, Counted, ReadsAs
<1>9. This = Held(shape, python)
  BY <1>3, <1>4, <1>7, <1>8 DEF This, FromFrame
<1>10. shape.kind = "list" => ListLen = Counted(shape, python) /\ Copied = python.value
  BY <1>2 DEF ListLen, Copied, Counted, Length
<1>11. shape.kind = "map" => DictSize(python.value) = Counted(shape, python)
  BY DEF Counted, Length
<1>12. QED
  BY <1>7, <1>8, <1>9, <1>10, <1>11 DEF Parsed

\* Sequences are equal if their elements are.
LEMMA Equal ==
  ASSUME NEW S, NEW s \in Seq(S), NEW t \in Seq(S), Len(s) = Len(t), \A i \in 1..Len(s) : s[i] = t[i]
  PROVE  s = t
  OBVIOUS

\* The logs of one, two and three judgements, with one more.
LEMMA Appended2 ==
  ASSUME NEW a, NEW b
  PROVE  Append(<<a>>, b) = <<a, b>>
<1> DEFINE S == {a, b}
<1> DEFINE t == Append(<<a>>, b)
<1>1. <<a>> \in Seq(S) /\ <<a, b>> \in Seq(S) /\ b \in S
  OBVIOUS
<1>2. t \in Seq(S) /\ Len(t) = 2 /\ t[1] = a /\ t[2] = b
  BY <1>1
<1> HIDE DEF S, t
<1>3. Len(<<a, b>>) = 2 /\ \A i \in 1..2 : t[i] = <<a, b>>[i]
  BY <1>2
<1>4. t = <<a, b>>
  BY <1>1, <1>2, <1>3, Equal
<1>5. QED
  BY <1>4 DEF t

LEMMA Appended3 ==
  ASSUME NEW a, NEW b, NEW c
  PROVE  Append(<<a, b>>, c) = <<a, b, c>>
<1> DEFINE S == {a, b, c}
<1> DEFINE t == Append(<<a, b>>, c)
<1>1. <<a, b>> \in Seq(S) /\ <<a, b, c>> \in Seq(S) /\ c \in S
  OBVIOUS
<1>2. t \in Seq(S) /\ Len(t) = 3 /\ t[1] = a /\ t[2] = b /\ t[3] = c
  BY <1>1
<1> HIDE DEF S, t
<1>3. Len(<<a, b, c>>) = 3 /\ \A i \in 1..3 : t[i] = <<a, b, c>>[i]
  BY <1>2
<1>4. t = <<a, b, c>>
  BY <1>1, <1>2, <1>3, Equal
<1>5. QED
  BY <1>4 DEF t

LEMMA Appended4 ==
  ASSUME NEW a, NEW b, NEW c, NEW d
  PROVE  Append(<<a, b, c>>, d) = <<a, b, c, d>>
<1> DEFINE S == {a, b, c, d}
<1> DEFINE t == Append(<<a, b, c>>, d)
<1>1. <<a, b, c>> \in Seq(S) /\ <<a, b, c, d>> \in Seq(S) /\ d \in S
  OBVIOUS
<1>2. t \in Seq(S) /\ Len(t) = 4 /\ t[1] = a /\ t[2] = b /\ t[3] = c /\ t[4] = d
  BY <1>1
<1> HIDE DEF S, t
<1>3. Len(<<a, b, c, d>>) = 4 /\ \A i \in 1..4 : t[i] = <<a, b, c, d>>[i]
  BY <1>2
<1>4. t = <<a, b, c, d>>
  BY <1>1, <1>2, <1>3, Equal
<1>5. QED
  BY <1>4 DEF t

\* The first judgement of a field.
LEMMA RunCustomQuiet ==
  ASSUME ReadsInv, QuietInv, changes = 0, RunCustom
  PROVE  QuietInv'
<1>1. UNCHANGED <<shape, python, cell, copy, changes>> /\ step = "custom" /\ step' = "native"
      /\ frame' = Parsed /\ log = <<>> /\ log' = Append(log, Rule("custom", This))
  BY DEF RunCustom, RunPrograms, Judge, Rule, Goto, ReadsInv, ReadsInOrder
<1>2. Parsed \in {frame, Encoded} /\ This = Held(shape, python)
  BY <1>1, QuietValues DEF Rules
<1>3. Same'
  BY <1>1, <1>2, StillSame DEF QuietInv
<1>4. log' = <<AsCustom>>
  BY <1>1, <1>2 DEF AsCustom
<1>5. QED
  BY <1>1, <1>3, <1>4, Unmoved DEF QuietInv, Rules

\* The second, by length for a list or map.
LEMMA RunNativeQuiet ==
  ASSUME ReadsInv, QuietInv, changes = 0, RunNative
  PROVE  QuietInv'
<1>1. UNCHANGED <<shape, python, cell, copy, frame, changes>> /\ step = "native" /\ log = <<AsCustom>>
  BY DEF RunNative, QuietInv
<1>2. Same'
  BY <1>1, StillSame DEF QuietInv
<1>3. log' = Append(log, Rule("native", Counted(shape, python)))
  BY <1>1, QuietValues DEF RunNative, Judge, Rule, Rules
<1>4. log' = <<AsCustom, AsNative>>
  BY <1>1, <1>3, Appended2 DEF AsNative
<1>5. step' = IF Compares THEN "unique" ELSE "predefined"
  BY <1>1, QuietValues DEF RunNative, Compares, Goto, Rules
<1>6. Compares => size' = Whole
  BY <1>1, QuietValues DEF RunNative, Compares, Rules, Whole, Counted, Length
<1>7. QED
  BY <1>1, <1>2, <1>4, <1>5, <1>6, Unmoved DEF QuietInv, Rules

\* The third, for a list that is not empty.
LEMMA RunUniqueQuiet ==
  ASSUME ReadsInv, QuietInv, changes = 0, RunUnique
  PROVE  QuietInv'
<1>1. UNCHANGED <<shape, python, cell, frame, size, changes>> /\ step = "unique" /\ log = <<AsCustom, AsNative>>
      /\ Compares /\ size = Whole /\ copy' = Copied /\ step' = "predefined"
  BY DEF RunUnique, QuietInv, Goto
<1>2. Copied = python.value /\ shape.kind = "list" /\ ReadsTypeOK
  BY <1>1, QuietValues DEF Compares, Rules, ReadsInv
<1>3. Same'
  BY <1>1, <1>2, StillSame DEF QuietInv
<1>4. Whole \in Nat /\ Whole >= Len(Copied)
  BY <1>2, ReadTypes DEF Whole
<1>5. Upto(size, Copied) = python.value
  BY <1>1, <1>2, <1>4, CopyTypes
<1>6. log' = Append(log, AsUnique)
  BY <1>1, <1>5 DEF RunUnique, Judge, Rule, AsUnique
<1>7. log' = <<AsCustom, AsNative, AsUnique>>
  BY <1>1, <1>6, Appended3
<1>8. QED
  BY <1>1, <1>3, <1>7, Unmoved DEF QuietInv, Rules

\* The last judgement of the field itself.
LEMMA RunPredefinedQuiet ==
  ASSUME ReadsInv, QuietInv, changes = 0, RunPredefined
  PROVE  QuietInv'
<1>1. /\ UNCHANGED <<shape, python, cell, copy, changes>> /\ step = "predefined"
      /\ step' = IF shape.items = "none" THEN "done" ELSE IF shape.kind = "map" THEN "dict" ELSE "list"
      /\ frame' = Parsed /\ log' = Append(log, Rule("predefined", This))
      /\ 
         log = IF Compares THEN <<AsCustom, AsNative, AsUnique>> ELSE <<AsCustom, AsNative>>
  BY DEF RunPredefined, RunPrograms, Judge, Rule, Goto, QuietInv
<1>2. Parsed \in {frame, Encoded} /\ This = Held(shape, python)
  BY <1>1, QuietValues DEF Rules
<1>3. Same' /\ ~Ignored(shape, python) /\ ~Missing(shape, python) /\ shape.ignore # "always"
  BY <1>1, <1>2, StillSame DEF QuietInv, Rules
<1> DEFINE Fourth == Rule("predefined", Held(shape, python))
<1>4. Upfront = IF Compares THEN <<AsCustom, AsNative, AsUnique, Fourth>> ELSE <<AsCustom, AsNative, Fourth>>
  BY <1>3 DEF Upfront, OfField, Compares, AsCustom, AsNative, AsUnique, Held
<1>5. log' = Append(log, Fourth)
  BY <1>1, <1>2
<1> HIDE DEF Fourth
<1>6. log' = Upfront
  <2>1. Append(<<AsCustom, AsNative, AsUnique>>, Fourth) = <<AsCustom, AsNative, AsUnique, Fourth>>
    BY Appended4
  <2>2. Append(<<AsCustom, AsNative>>, Fourth) = <<AsCustom, AsNative, Fourth>>
    BY Appended3
  <2>3. QED
    BY <1>1, <1>4, <1>5, <2>1, <2>2
<1>7. CASE shape.items = "none"
  <2>1. DueNow = {}
    BY <1>7 DEF DueNow, Due
  <2>2. QuietIsSequential'
    BY <1>1, <1>6, <2>1, EndsHere
  <2>3. QED
    BY <1>1, <1>3, <1>7, <2>2 DEF QuietInv, Rules
<1>8. CASE shape.items # "none"
  BY <1>1, <1>3, <1>6, <1>8, Unmoved DEF QuietInv, Rules
<1>9. QED
  BY <1>7, <1>8

\* The elements that are due, up to one of them.
LEMMA DueTypes ==
  ASSUME ReadsTypeOK, shape.kind \in {"list", "map"}
  PROVE  /\ Whole \in Nat /\ DOMAIN python.value = 1..Whole /\ DueNow \subseteq 1..Whole
         /\ IsFiniteSet(DueNow)
         /\ DOMAIN Upfront = 1..Len(Upfront) /\ Len(Upfront) \in Nat
<1>1. python.value \in Seq(Contents) \/ python.value \in Seq((Keys \X Contents) \cup {Hole})
  BY ReadTypes
<1>2. Whole \in Nat /\ DOMAIN python.value = 1..Whole
  BY <1>1 DEF Whole
<1>3. DueNow \subseteq 1..Whole
  BY <1>2 DEF DueNow, Due
<1>4. IsFiniteSet(1..Whole)
  BY <1>2, FS_Interval
<1>5. DOMAIN Upfront = 1..Len(Upfront) /\ Len(Upfront) \in Nat
  <2>1. \A a, b, c, d : <<>> \in Seq({a}) /\ <<a>> \in Seq({a}) /\ <<a, b, c>> \in Seq({a, b, c})
                         /\ <<a, b, c, d>> \in Seq({a, b, c, d})
    OBVIOUS
  <2>2. \E S : Upfront \in Seq(S)
    BY <2>1 DEF Upfront, OfField
  <2>3. QED
    BY <2>2
<1>6. QED
  BY <1>2, <1>3, <1>4, <1>5, FS_Subset

\* The due elements are finitely many, and so are those before a position.
LEMMA BeforeTypes ==
  ASSUME ReadsTypeOK, shape.kind \in {"list", "map"}, NEW k \in Nat
  PROVE  /\ IsFiniteSet(Before(k)) /\ Cardinality(Before(k)) \in Nat
         /\ \A i \in Before(k) : Ordinal(i, DueNow) \in 1..Cardinality(Before(k))
         /\ k \notin DueNow => Before(k + 1) = Before(k)
         /\ k \in DueNow => /\ Cardinality(Before(k + 1)) = Cardinality(Before(k)) + 1
                            /\ Before(k + 1) = Before(k) \cup {k}
                            /\ Ordinal(k, DueNow) = Cardinality(Before(k)) + 1
         /\ k > Whole => Before(k) = DueNow
<1>1. DueNow \subseteq Nat /\ IsFiniteSet(DueNow) /\ DueNow \subseteq 1..Whole /\ Whole \in Nat
  BY DueTypes
<1>0. \A j \in DueNow : j \in Nat /\ (j < k + 1 <=> j < k \/ j = k) /\ (j < k + 1 <=> j <= k)
                        /\ ~(k < k) /\ k < k + 1
  BY <1>1
<1>2. Before(k) \subseteq DueNow
  BY DEF Before
<1>3. IsFiniteSet(Before(k)) /\ Cardinality(Before(k)) \in Nat
  BY <1>1, <1>2, FS_Subset, FS_CardinalityType
<1>4. ASSUME NEW i \in Before(k)
      PROVE  Ordinal(i, DueNow) \in 1..Cardinality(Before(k))
  <2> DEFINE upto == {j \in DueNow : j <= i}
  <2>1. i \in Nat /\ i < k /\ i \in upto
    BY <1>1 DEF Before
  <2>2. upto \subseteq Before(k)
    <3>1. \A j \in Nat : j <= i => j < k
      BY <2>1
    <3>2. QED
      BY <1>0, <3>1 DEF Before
  <2>3. IsFiniteSet(upto) /\ Cardinality(upto) \in Nat /\ Cardinality(upto) <= Cardinality(Before(k))
    BY <1>3, <2>2, FS_Subset, FS_CardinalityType
  <2>4. Cardinality(upto) # 0
    BY <2>1, <2>3, FS_EmptySet
  <2>5. Ordinal(i, DueNow) = Cardinality(upto)
    BY DEF Ordinal
  <2> HIDE DEF upto
  <2>6. QED
    BY <1>3, <2>3, <2>4, <2>5
<1>5. k \notin DueNow => Before(k + 1) = Before(k)
  BY <1>0 DEF Before
<1>6. ASSUME k \in DueNow
      PROVE  /\ Cardinality(Before(k + 1)) = Cardinality(Before(k)) + 1
             /\ Before(k + 1) = Before(k) \cup {k}
             /\ Ordinal(k, DueNow) = Cardinality(Before(k)) + 1
  <2>1. Before(k + 1) = Before(k) \cup {k} /\ k \notin Before(k)
    BY <1>0, <1>6 DEF Before
  <2>2. {j \in DueNow : j <= k} = Before(k + 1)
    BY <1>0 DEF Before
  <2>3. Cardinality(Before(k) \cup {k}) = Cardinality(Before(k)) + 1
    BY <1>3, <2>1, FS_AddElement
  <2>4. QED
    BY <2>1, <2>2, <2>3 DEF Ordinal
<1>7. k > Whole => Before(k) = DueNow
  <2>1. k > Whole => \A j \in 1..Whole : j < k
    BY <1>1
  <2>2. QED
    BY <1>1, <2>1 DEF Before
<1>8. QED
  BY <1>3, <1>4, <1>5, <1>6, <1>7

\* The next element, judged if it is due.
LEMMA JudgedNext ==
  ASSUME ReadsTypeOK, shape.kind \in {"list", "map"}, UNCHANGED <<shape, python>>,
         NEW k \in Nat, JudgedUpto(k),
         \/ k \notin DueNow /\ log' = log
         \/ /\ k \in DueNow /\ OfElement(shape, python, k) \in Judgements
            /\ log' = Append(log, OfElement(shape, python, k))
  PROVE  \A m \in Nat : m = k + 1 => JudgedUpto(m)'
<1> DEFINE U == Len(Upfront)
           C == Cardinality(Before(k))
<1>1. /\ Upfront' = Upfront /\ DueNow' = DueNow /\ (\A m : Before(m)' = Before(m))
      /\ \A i : Ordinal(i, DueNow)' = Ordinal(i, DueNow)
  BY Unmoved DEF Before, Ordinal
<1>2. /\ U \in Nat /\ DOMAIN Upfront = 1..U /\ C \in Nat /\ Len(log) = U + C
      /\ \A i \in Before(k) : Ordinal(i, DueNow) \in 1..C
  BY DueTypes, BeforeTypes DEF JudgedUpto
<1>3. /\ \A i \in DOMAIN Upfront : log[i] = Upfront[i]
      /\ \A i \in Before(k) : log[U + Ordinal(i, DueNow)] = OfElement(shape, python, i)
  BY DEF JudgedUpto
<1>4. OfElement(shape', python', k) = OfElement(shape, python, k)
      /\ \A i : OfElement(shape', python', i) = OfElement(shape, python, i)
  OBVIOUS
<1>5. CASE k \notin DueNow /\ log' = log
  <2>1. Before(k + 1) = Before(k)
    BY <1>5, BeforeTypes
  <2>2. QED
    BY <1>1, <1>2, <1>3, <1>4, <1>5, <2>1 DEF JudgedUpto
<1>6. CASE /\ k \in DueNow /\ OfElement(shape, python, k) \in Judgements
           /\ log' = Append(log, OfElement(shape, python, k))
  <2>1. /\ Cardinality(Before(k + 1)) = C + 1 /\ Before(k + 1) = Before(k) \cup {k}
        /\ Ordinal(k, DueNow) = C + 1
    BY <1>6, BeforeTypes
  <2>2. /\ Len(log') = Len(log) + 1 /\ log'[Len(log) + 1] = OfElement(shape, python, k)
        /\ DOMAIN log = 1..Len(log) /\ \A i \in DOMAIN log : log'[i] = log[i]
    BY <1>6, Logged DEF ReadsTypeOK
  <2> HIDE DEF U, C
  <2>3. Len(log') = U + (C + 1)
    BY <1>2, <2>2
  <2>4. \A i \in DOMAIN Upfront : log'[i] = Upfront[i]
    <3>1. \A i \in 1..U : i \in 1..(U + C)
      BY <1>2
    <3>2. QED
      BY <1>2, <1>3, <2>2, <3>1
  <2>5. ASSUME NEW i \in Before(k + 1)
        PROVE  log'[U + Ordinal(i, DueNow)] = OfElement(shape, python, i)
    <3>1. CASE i \in Before(k)
      <4>1. U + Ordinal(i, DueNow) \in 1..(U + C)
        BY <1>2, <3>1
      <4>2. QED
        BY <1>2, <1>3, <2>2, <3>1, <4>1
    <3>2. CASE i = k
      <4>1. U + (C + 1) = (U + C) + 1
        BY <1>2
      <4>2. QED
        BY <1>2, <2>1, <2>2, <3>2, <4>1
    <3>3. QED
      BY <2>1, <3>1, <3>2
  <2>6. QED
    BY <1>1, <1>4, <2>1, <2>3, <2>4, <2>5 DEF JudgedUpto, U
<1>7. QED
  BY <1>5, <1>6

\* A validation that has judged all elements that are due ends as it should.
LEMMA EndsAfter ==
  ASSUME ReadsTypeOK, shape.kind \in {"list", "map"}, UNCHANGED <<shape, python, log>>,
         NEW k \in Nat, JudgedUpto(k), k > Whole
  PROVE  QuietIsSequential'
<1>1. Before(k) = DueNow
  BY BeforeTypes
<1>2. QED
  BY <1>1 DEF JudgedUpto, QuietIsSequential, Upfront, DueNow

\* Before the first element nothing of the elements is judged.
LEMMA BeginQuiet ==
  ASSUME ReadsInv, QuietInv, changes = 0, BeginList \/ BeginMap
  PROVE  QuietInv'
<1>1. /\ UNCHANGED <<shape, python, cell, frame, copy, log, changes>> /\ at' = 1
      /\ \/ step = "list" /\ step' = "item" /\ shape.kind = "list" /\ size' = ListLen
         \/ step = "dict" /\ step' = "entry" /\ shape.kind = "map" /\ size' = DictSize(python.value)
  BY DEF BeginList, BeginMap, Goto, ReadsInv, ReadsInOrder
<1>2. Same /\ Same' /\ log = Upfront /\ shape.items # "none" /\ shape.ignore # "always"
      /\ ~Ignored(shape, python) /\ ~Missing(shape, python) /\ ReadsTypeOK
  BY <1>1, StillSame DEF QuietInv, ReadsInv
<1>3. /\ Whole \in Nat /\ DOMAIN python.value = 1..Whole /\ DueNow \subseteq 1..Whole
      /\ Len(Upfront) \in Nat
  BY <1>1, <1>2, DueTypes
<1>4. size' = Whole
  <2>1. CASE shape.kind = "list"
    BY <1>1, <1>2, <2>1 DEF ListLen, Same, Whole
  <2>2. CASE shape.kind = "map"
    <3>1. Entries(python.value) = 1..Whole
      BY <1>2, <1>3, <2>2 DEF Same, Entries
    <3>2. Cardinality(1..Whole) = Whole
      BY <1>3, FS_Interval
    <3>3. QED
      BY <1>1, <2>2, <3>1, <3>2 DEF DictSize
  <2>3. QED
    BY <1>1, <2>1, <2>2
<1>5. JudgedUpto(1)
  <2>1. Before(1) = {}
    <3>1. \A j \in 1..Whole : ~(j < 1)
      OBVIOUS
    <3>2. QED
      BY <1>3, <3>1 DEF Before
  <2>2. Cardinality({}) = 0
    BY FS_EmptySet
  <2>3. Len(Upfront) = Len(Upfront) + Cardinality(Before(1))
    <3>1. \A a \in Nat : a = a + 0
      OBVIOUS
    <3>2. QED
      BY <1>3, <2>1, <2>2, <3>1
  <2>4. QED
    BY <1>2, <2>1, <2>3 DEF JudgedUpto
<1>6. JudgedUpto(at)'
  BY <1>1, <1>5, Unmoved DEF JudgedUpto, Before, Ordinal
<1>7. QED
  BY <1>1, <1>2, <1>4, <1>6, Unmoved DEF QuietInv, Rules

\* One item on: it is judged if it is due.
LEMMA VisitItemQuiet ==
  ASSUME ReadsInv, QuietInv, changes = 0, VisitItem
  PROVE  QuietInv'
<1>1. /\ UNCHANGED <<shape, python, cell, frame, size, changes>> /\ shape.kind = "list" /\ step = "item"
      /\ ReadsTypeOK /\ at \in Nat /\ at >= 1 /\ ReadsInOrder
  BY VisitItemTypes DEF VisitItem, ReadsInv
<1>2. /\ Same /\ size = Whole /\ shape.items # "none" /\ JudgedUpto(at) /\ shape.ignore # "always"
      /\ ~Ignored(shape, python) /\ ~Missing(shape, python)
  BY <1>1 DEF QuietInv
<1>3. Copied = python.value /\ Whole \in Nat /\ DOMAIN python.value = 1..Whole
  BY <1>1, <1>2, DueTypes DEF Same, Copied
<1>4. CASE at > size /\ step' = "done" /\ UNCHANGED <<copy, log, at>>
  <2>1. Same'
    BY <1>1, <1>2, <1>4, StillSame
  <2>2. QuietIsSequential'
    BY <1>1, <1>2, <1>4, EndsAfter
  <2>3. QED
    BY <1>1, <1>2, <1>4, <2>1, <2>2 DEF QuietInv, Rules
<1>5. CASE /\ at <= size /\ copy' = Copied /\ at' = at + 1 /\ step' = step
           /\ \/ (at > Len(Copied) \/ Skipped(Copied[at])) /\ log' = log
              \/ /\ at <= Len(Copied) /\ ~Skipped(Copied[at])
                 /\ log' = Append(log, Rule("item", <<at, Copied[at]>>))
                 /\ Rule("item", <<at, Copied[at]>>) \in Judgements
  <2>1. Same'
    BY <1>1, <1>2, <1>3, <1>5, StillSame
  <2>2. at \in DOMAIN python.value /\ ~(at > Len(Copied))
    BY <1>1, <1>2, <1>3, <1>5 DEF Whole
  <2>3. at \in DueNow <=> ~Skipped(Copied[at])
    BY <1>1, <1>2, <1>3, <2>2 DEF DueNow, Due, Skipped, EqualsZero, IsZero
  <2>4. OfElement(shape, python, at) = Rule("item", <<at, Copied[at]>>)
    BY <1>1, <1>3 DEF OfElement
  <2>5. \A m \in Nat : m = at + 1 => JudgedUpto(m)'
    BY <1>1, <1>2, <1>5, <2>2, <2>3, <2>4, JudgedNext
  <2>6. PICK m \in Nat : m = at + 1
    BY <1>1
  <2>7. JudgedUpto(at)'
    BY <1>5, <2>5, <2>6 DEF JudgedUpto, Before
  <2>8. QED
    BY <1>1, <1>2, <1>5, <2>1, <2>7, Unmoved DEF QuietInv, Rules
<1>6. QED
  BY <1>1, <1>4, <1>5, VisitItemTypes

\* One entry on: it is judged if it is due.
LEMMA VisitEntryQuiet ==
  ASSUME ReadsInv, QuietInv, changes = 0, VisitEntry
  PROVE  QuietInv'
<1>1. /\ UNCHANGED <<shape, python, cell, frame, copy, size, changes>> /\ shape.kind = "map"
      /\ step = "entry" /\ ReadsTypeOK /\ at \in Nat /\ at >= 1 /\ ReadsInOrder
  BY VisitEntryTypes DEF VisitEntry, ReadsInv
<1>2. /\ Same' /\ Same /\ size = Whole /\ shape.items # "none" /\ JudgedUpto(at)
      /\ shape.ignore # "always" /\ ~Ignored(shape, python) /\ ~Missing(shape, python)
  BY <1>1, StillSame DEF QuietInv
<1>3. Whole \in Nat /\ DOMAIN python.value = 1..Whole
  BY <1>1, DueTypes
<1>4. Entries(python.value) = 1..Whole
  BY <1>1, <1>2, <1>3 DEF Same, Entries
<1>5. DictSize(python.value) = size
  <2>1. Cardinality(1..Whole) = Whole
    <3>1. PICK w \in Nat : w = Whole
      BY <1>3
    <3>2. Cardinality(1..w) = w
      BY <3>1, FS_Interval
    <3>3. QED
      BY <3>1, <3>2
  <2>2. QED
    BY <1>2, <1>4, <2>1 DEF DictSize
<1>6. Left = at..Whole
  BY <1>1, <1>3, <1>4 DEF Left
<1>7. CASE Left = {} /\ step' = "done" /\ UNCHANGED <<log, at>>
  <2>1. at > Whole
    BY <1>1, <1>3, <1>6, <1>7
  <2>2. QuietIsSequential'
    BY <1>1, <1>2, <1>7, <2>1, EndsAfter
  <2>3. QED
    BY <1>1, <1>2, <1>7, <2>2 DEF QuietInv, Rules
<1>8. CASE /\ Left # {} /\ step' = step /\ at' = NextEntry + 1
           /\ \/ Skipped(python.value[NextEntry][2]) /\ log' = log
              \/ /\ ~Skipped(python.value[NextEntry][2])
                 /\ log' = Append(log, Rule("entry", python.value[NextEntry]))
                 /\ Rule("entry", python.value[NextEntry]) \in Judgements
  <2>1. NextEntry = at /\ at \in DOMAIN python.value
    <3>1. at \in Left
      BY <1>1, <1>3, <1>6, <1>8
    <3>2. NextEntry \in Nat /\ NextEntry >= at /\ NextEntry <= at
      BY <1>1, <1>8, <3>1, NextEntryIs
    <3>3. QED
      BY <1>1, <1>3, <1>6, <3>1, <3>2
  <2>2. at \in DueNow <=> ~Skipped(python.value[at][2])
    BY <1>1, <1>2, <2>1 DEF DueNow, Due, Skipped, EqualsZero, IsZero
  <2>3. OfElement(shape, python, at) = Rule("entry", python.value[at])
    BY <1>1 DEF OfElement
  <2>4. \A m \in Nat : m = at + 1 => JudgedUpto(m)'
    BY <1>1, <1>2, <1>8, <2>1, <2>2, <2>3, JudgedNext
  <2>5. PICK m \in Nat : m = at + 1
    BY <1>1
  <2>6. JudgedUpto(at)'
    BY <1>8, <2>1, <2>4, <2>5 DEF JudgedUpto, Before
  <2>7. QED
    BY <1>1, <1>2, <1>8, <2>6, Unmoved DEF QuietInv, Rules
<1>9. QED
  BY <1>1, <1>5, <1>7, <1>8, VisitEntryTypes

\* Every step keeps QuietInv.
LEMMA QuietStep == ReadsInv /\ QuietInv /\ [ReadsNext]_readVars => QuietInv'
<1> SUFFICES ASSUME ReadsInv, QuietInv, [ReadsNext]_readVars PROVE QuietInv'
  OBVIOUS
<1>1. CASE Change
  <2>1. changes' # 0
    BY <1>1 DEF Change, ReadsInv, ReadsTypeOK
  <2>2. QED
    BY <2>1 DEF QuietInv
<1>2. CASE changes # 0 /\ ~Change
  <2>1. changes' # 0
    BY <1>2 DEF ReadsNext, ReadStep, readVars, BuildField, Earlier, GetField, HasField, RunCustom, RunPredefined,
       RunPrograms, RunNative, RunUnique, BeginList, VisitItem, BeginMap, VisitEntry, ReadFails
  <2>2. QED
    BY <2>1 DEF QuietInv
<1>3. CASE changes = 0 /\ ReadFails
  <2>1. UNCHANGED <<shape, python, cell, frame, copy, changes>> /\ step' = "error"
    BY <1>3 DEF ReadFails, Goto
  <2>2. Same'
    BY <1>3, <2>1, StillSame DEF QuietInv
  <2>3. QED
    BY <2>1, <2>2 DEF QuietInv, Rules
<1>4. CASE changes = 0 /\ UNCHANGED readVars
  <2>1. UNCHANGED <<shape, python, cell, frame, copy, step, at, size, log, changes>>
    BY <1>4 DEF readVars
  <2>2. Same'
    BY <1>4, <2>1, StillSame DEF QuietInv
  <2>3. QuietIsSequential' <=> QuietIsSequential
    BY <2>1 DEF QuietIsSequential
  <2>4. JudgedUpto(at)' <=> JudgedUpto(at)
    BY <2>1, Unmoved DEF JudgedUpto, Before, Ordinal
  <2>5. QED
    BY <1>4, <2>1, <2>2, <2>3, <2>4, Unmoved DEF QuietInv, Rules
<1>5. QED
  BY <1>1, <1>2, <1>3, <1>4, BuildFieldQuiet, EarlierQuiet, GetFieldQuiet, HasFieldQuiet, RunCustomQuiet,
     RunNativeQuiet, RunUniqueQuiet, RunPredefinedQuiet, BeginQuiet, VisitItemQuiet, VisitEntryQuiet
     DEF ReadsNext, ReadStep

\* A message that nothing changes is judged as validate.proto says: the rules that
\* apply to the field, in order, then the items or entries that are due, one by one.
\* (FieldValidator::validate, validate_list and validate_map
\* in rules/eval.rs)
THEOREM QuietIsSequentialAlways == ReadsSpec => []QuietIsSequential
<1>1. QuietInv => QuietIsSequential
  BY DEF QuietInv, QuietIsSequential
<1>2. ReadsInv /\ QuietInv /\ [ReadsNext]_readVars => QuietInv'
  BY QuietStep
<1>3. QED
  BY <1>1, <1>2, InitQuiet, ReadsAlways, PTL DEF ReadsSpec

----------------------------------------------------------------------------
(* Entries of a map that changes once. *)

\* The table of a dict has no key twice; what was judged are the keys before the
\* position, if the size is still the one it began with, as it is if nothing has
\* changed.
Separate == \A i, j \in Entries(python.value) : python.value[i][1] = python.value[j][1] => i = j
KeysBefore(n) == {python.value[i][1] : i \in {j \in Entries(python.value) : j < n}}
KeysJudged == {log[i].value[1] : i \in Judged("entry")}
JudgedOnce == \A i, j \in Judged("entry") : log[i].value[1] = log[j].value[1] => i = j
MapInv ==
  shape.kind = "map" =>
    /\ Separate
    /\ step \notin {"entry", "done", "error", "panic"} => Judged("entry") = {}
    /\ shape.items = "unspecified" /\ changes <= 1 =>
         /\ step = "entry" /\ changes = 0 => size = DictSize(python.value)
         /\ step = "entry" /\ size = DictSize(python.value) =>
              KeysJudged = KeysBefore(at) /\ JudgedOnce
         /\ step = "done" /\ Judged("predefined") # {} =>
              KeysJudged = KeysOf(python.value) /\ JudgedOnce

\* A map has each key once before it is read.
LEMMA InitSeparate ==
  ASSUME ReadsInit, shape.kind = "map"
  PROVE  Separate
<1> DEFINE t == python.value
<1>1. PICK n \in 0..MaxLength : t \in [1..n -> Keys \X Contents] /\ Cardinality(KeysOf(t)) = Len(t)
  BY DEF ReadsInit, Values
<1>2. n \in Nat /\ DOMAIN t = 1..n /\ Len(t) = n /\ IsFiniteSet(1..n) /\ Cardinality(1..n) = n
  <2>1. n \in Nat
    BY <1>1, MaxLengthAssumption
  <2>2. DOMAIN t = 1..n /\ Len(t) = n
    BY <1>1, <2>1
  <2>3. IsFiniteSet(1..n) /\ Cardinality(1..n) = n
    <3>1. Cardinality(1..n) = IF 1 > n THEN 0 ELSE n - 1 + 1
      BY <2>1, FS_Interval
    <3>2. QED
      BY <2>1, <3>1, FS_Interval
  <2>4. QED
    BY <2>1, <2>2, <2>3
<1>3. Entries(t) = 1..n
  BY <1>1, <1>2, SentinelsAssumption DEF Entries
<1>4. DEFINE f == [i \in 1..n |-> t[i][1]]
<1>5. f \in Surjection(1..n, KeysOf(t))
  BY <1>3 DEF Surjection, KeysOf
<1>6. Cardinality(KeysOf(t)) = Cardinality(1..n)
  BY <1>1, <1>2
<1>7. IsInjective(f) \/ f \in Injection(1..n, KeysOf(t))
  BY <1>2, <1>5, <1>6, FS_SurjSameCardinalityImpliesInj
<1>8. QED
  BY <1>3, <1>7 DEF Separate, Injection, IsInjective

\* What is logged of anything but an entry leaves the entries judged as they are.
LEMMA StillJudged ==
  ASSUME log \in Seq(Judgements), NEW r \in Judgements, r.what # "entry", log' = Append(log, r)
  PROVE  Judged("entry")' = Judged("entry") /\ KeysJudged' = KeysJudged /\ (JudgedOnce' <=> JudgedOnce)
<1>1. /\ DOMAIN log = 1..Len(log) /\ DOMAIN log' = 1..(Len(log) + 1) /\ Len(log) \in Nat
      /\ log'[Len(log) + 1] = r /\ \A i \in DOMAIN log : log'[i] = log[i]
  BY Logged
<1>2. Judged("entry")' = Judged("entry")
  BY <1>1 DEF Judged
<1>3. \A i \in Judged("entry") : log'[i] = log[i]
  BY <1>1 DEF Judged
<1>4. KeysJudged' = {log'[i].value[1] : i \in Judged("entry")}
  BY <1>2 DEF KeysJudged
<1>5. KeysJudged' = KeysJudged
  BY <1>3, <1>4 DEF KeysJudged
<1>6. JudgedOnce' <=> JudgedOnce
  <2>1. JudgedOnce' <=> \A i, j \in Judged("entry") : log'[i].value[1] = log'[j].value[1] => i = j
    BY <1>2 DEF JudgedOnce
  <2>2. QED
    BY <1>3, <2>1 DEF JudgedOnce
<1>7. QED
  BY <1>2, <1>5, <1>6

\* A step before the entries judges none of them.
LEMMA BeforeEntries ==
  ASSUME ReadsInv, MapInv, shape.kind = "map", step \notin {"entry", "done", "error", "panic"},
         UNCHANGED <<shape, python, changes>>, step' # "entry",
         \/ log' = log
         \/ \E r \in Judgements : r.what # "entry" /\ log' = Append(log, r),
         step' = "done" => shape.items = "none" \/ Judged("predefined")' = {}
  PROVE  MapInv'
<1>1. log \in Seq(Judgements)
  BY DEF ReadsInv, ReadsTypeOK
<1>2. Judged("entry")' = {}
  <2>1. CASE log' = log
    BY <2>1 DEF MapInv, Judged
  <2>2. CASE \E r \in Judgements : r.what # "entry" /\ log' = Append(log, r)
    BY <1>1, <2>2, StillJudged DEF MapInv
  <2>3. QED
    BY <2>1, <2>2
<1>3. Separate'
  BY DEF MapInv, Separate, Entries
<1>4. QED
  BY <1>2, <1>3 DEF MapInv

\* The iteration begins.
LEMMA BeginMapOnce ==
  ASSUME ReadsInv, MapInv, BeginMap
  PROVE  MapInv'
<1>1. shape.kind = "map" /\ step = "dict" /\ UNCHANGED <<shape, python, log, changes>>
      /\ step' = "entry" /\ at' = 1 /\ size' = DictSize(python.value)
  BY DEF BeginMap, ReadsInv, ReadsInOrder, Goto
<1>2. Judged("entry")' = {} /\ Separate'
  BY <1>1 DEF MapInv, Judged, Separate, Entries
<1>3. KeysJudged' = {} /\ JudgedOnce'
  BY <1>2 DEF KeysJudged, JudgedOnce
<1>4. KeysBefore(at)' = {}
  <2>1. Entries(python.value) \subseteq Nat /\ \A i \in Entries(python.value) : i >= 1
    BY <1>1, ReadTypes DEF ReadsInv
  <2>2. QED
    BY <1>1, <2>1 DEF KeysBefore
<1>5. QED
  BY <1>1, <1>2, <1>3, <1>4 DEF MapInv

\* The next entry has a key that was not judged.
LEMMA VisitEntryOnce ==
  ASSUME ReadsInv, MapInv, VisitEntry
  PROVE  MapInv'
<1>1. /\ shape.kind = "map" /\ step = "entry" /\ at \in Nat /\ at >= 1
      /\ UNCHANGED <<shape, python, size, changes>>
      /\ log \in Seq(Judgements) /\ ReadsTypeOK
  BY VisitEntryTypes DEF ReadsInv, ReadsTypeOK, VisitEntry
<1>2. Separate'
  BY <1>1 DEF MapInv, Separate, Entries
<1>3. CASE UNCHANGED <<log, at>> /\ step' \in {"panic", "error"}
  BY <1>1, <1>2, <1>3 DEF MapInv
<1>4. CASE DictSize(python.value) = size /\ Left = {} /\ step' = "done" /\ UNCHANGED <<log, at>>
  <2>1. Entries(python.value) \subseteq Nat
    BY <1>1, ReadTypes
  <2>2. \A i \in Entries(python.value) : i < at
    BY <1>1, <1>4, <2>1 DEF Left
  <2>3. KeysBefore(at) = KeysOf(python.value)
    BY <2>2 DEF KeysBefore, KeysOf
  <2>4. KeysJudged' = KeysJudged /\ (JudgedOnce' <=> JudgedOnce)
    BY <1>4 DEF KeysJudged, JudgedOnce, Judged
  <2>5. KeysOf(python.value)' = KeysOf(python.value)
    BY <1>1
  <2>6. QED
    BY <1>1, <1>2, <1>4, <2>3, <2>4, <2>5 DEF MapInv
<1>5. CASE /\ DictSize(python.value) = size /\ Left # {} /\ step' = step /\ at' = NextEntry + 1
           /\ \/ Skipped(python.value[NextEntry][2]) /\ log' = log
              \/ /\ ~Skipped(python.value[NextEntry][2])
                 /\ log' = Append(log, Rule("entry", python.value[NextEntry]))
                 /\ Rule("entry", python.value[NextEntry]) \in Judgements
  <2> SUFFICES ASSUME shape.items = "unspecified", changes <= 1
               PROVE  KeysJudged' = KeysBefore(at)' /\ JudgedOnce'
    BY <1>1, <1>2, <1>5 DEF MapInv
  <2> DEFINE e == NextEntry
             k == python.value[e][1]
  <2>1. KeysJudged = KeysBefore(at) /\ JudgedOnce /\ Separate
    BY <1>1, <1>5 DEF MapInv
  <2>2. e \in Entries(python.value) /\ e \in Nat /\ e >= at /\ \A j \in Left : e <= j
    BY <1>1, <1>5, NextEntryIs DEF Left
  <2>3. Entries(python.value) \subseteq Nat
    BY <1>1, ReadTypes
  <2>4. log' = Append(log, Rule("entry", python.value[e])) /\ Rule("entry", python.value[e]) \in Judgements
    BY <1>5 DEF Skipped
  <2> DEFINE r == Rule("entry", python.value[e])
             n == Len(log)
  <2>5. /\ DOMAIN log = 1..n /\ DOMAIN log' = 1..(n + 1) /\ n \in Nat
        /\ log'[n + 1] = r /\ \A i \in DOMAIN log : log'[i] = log[i]
    BY <1>1, <2>4, Logged
  <2>6. r.what = "entry" /\ r.value[1] = k
    BY DEF Rule
  <2>7. Judged("entry")' = Judged("entry") \cup {n + 1} /\ \A i \in Judged("entry") : i \in DOMAIN log
    BY <2>5, <2>6 DEF Judged
  <2>8. KeysJudged' = KeysJudged \cup {k}
    BY <2>5, <2>6, <2>7 DEF KeysJudged
  <2>9. KeysBefore(at)' = KeysBefore(at) \cup {k}
    <3>1. {j \in Entries(python.value) : j < e + 1} = {j \in Entries(python.value) : j < at} \cup {e}
      <4>1. \A j \in Entries(python.value) : j < e + 1 => j < at \/ j = e
        BY <1>1, <2>2, <2>3 DEF Left
      <4>2. QED
        BY <1>1, <2>2, <2>3, <4>1
    <3>2. KeysBefore(at)' = {python.value[i][1] : i \in {j \in Entries(python.value) : j < e + 1}}
      BY <1>1, <1>5 DEF KeysBefore
    <3>3. QED
      BY <3>1, <3>2 DEF KeysBefore
  <2>10. k \notin KeysJudged
    <3>1. \A j \in Entries(python.value) : j < at => python.value[j][1] # k
      BY <1>1, <2>1, <2>2, <2>3 DEF Separate
    <3>2. QED
      BY <2>1, <3>1 DEF KeysBefore
  <2>11. JudgedOnce'
    <3>1. \A i \in Judged("entry") : log'[i].value[1] = log[i].value[1] /\ log[i].value[1] # k
      BY <2>5, <2>7, <2>10 DEF KeysJudged
    <3>2. log'[n + 1].value[1] = k
      BY <2>5, <2>6
    <3>3. QED
      BY <2>1, <2>7, <3>1, <3>2 DEF JudgedOnce
  <2>12. QED
    BY <2>1, <2>8, <2>9, <2>11
<1>6. QED
  BY <1>1, <1>3, <1>4, <1>5, VisitEntryTypes DEF ReadsInv

\* A change of the dict keeps its keys apart; it changes the size, or no key.
LEMMA ChangedDict ==
  ASSUME ReadsTypeOK, shape.kind = "map", Separate, NEW value \in Changed(python.value)
  PROVE  /\ \A i, j \in Entries(value) : value[i][1] = value[j][1] => i = j
         /\ \/ DictSize(value) # DictSize(python.value)
            \/ /\ Entries(value) = Entries(python.value)
               /\ \A i \in Entries(value) : value[i][1] = python.value[i][1]
<1> DEFINE t == python.value
<1>1. /\ t \in Seq((Keys \X Contents) \cup {Hole}) /\ Entries(t) \subseteq DOMAIN t
      /\ IsFiniteSet(Entries(t)) /\ DictSize(t) \in Nat /\ DOMAIN t = 1..Len(t) /\ Len(t) \in Nat
      /\ \A i \in Entries(t) : t[i] \in Keys \X Contents
      /\ Cardinality(Entries(t)) \in Nat
  BY ReadTypes, FS_CardinalityType DEF Entries
<1>2. Hole \notin Keys \X Contents
  BY SentinelsAssumption
<1>3. CASE \E k \in Keys \ KeysOf(t), x \in Contents : value = Append(t, <<k, x>>)
  <2>1. PICK k \in Keys \ KeysOf(t), x \in Contents : value = Append(t, <<k, x>>)
    BY <1>3
  <2>2. /\ DOMAIN value = 1..(Len(t) + 1) /\ value[Len(t) + 1] = <<k, x>>
        /\ \A i \in DOMAIN t : value[i] = t[i]
    BY <1>1, <2>1
  <2>3. Entries(value) = Entries(t) \cup {Len(t) + 1} /\ Len(t) + 1 \notin Entries(t)
    <3>1. DOMAIN value = DOMAIN t \cup {Len(t) + 1} /\ Len(t) + 1 \notin DOMAIN t
      BY <1>1, <2>2
    <3>2. <<k, x>> \in Keys \X Contents
      BY <2>1
    <3>3. value[Len(t) + 1] # Hole
      BY <1>2, <2>2, <3>2
    <3>4. \A i \in DOMAIN t : value[i] # Hole <=> t[i] # Hole
      BY <2>2
    <3>5. QED
      BY <1>1, <3>1, <3>3, <3>4 DEF Entries
  <2>4. DictSize(value) = DictSize(t) + 1
    <3>1. Cardinality(Entries(t) \cup {Len(t) + 1}) = Cardinality(Entries(t)) + 1
      BY <1>1, <2>3, FS_AddElement, Zenon
    <3>2. QED
      BY <2>3, <3>1 DEF DictSize
  <2>5. \A i \in Entries(t) : t[i][1] # k
    BY DEF KeysOf
  <2>6. \A i, j \in Entries(value) : value[i][1] = value[j][1] => i = j
    BY <1>1, <2>2, <2>3, <2>5 DEF Separate
  <2>7. QED
    BY <1>1, <2>4, <2>6
<1>4. CASE \E i \in Entries(t) : value = [t EXCEPT ![i] = Hole]
  <2>1. PICK i \in Entries(t) : value = [t EXCEPT ![i] = Hole]
    BY <1>4
  <2>2. DOMAIN value = DOMAIN t /\ value[i] = Hole /\ \A j \in DOMAIN t \ {i} : value[j] = t[j]
    BY <1>1, <2>1
  <2>3. Entries(value) = Entries(t) \ {i}
    BY <1>1, <2>2 DEF Entries
  <2>4. DictSize(value) = DictSize(t) - 1
    <3>1. Cardinality(Entries(t) \ {i}) = Cardinality(Entries(t)) - 1
      BY <1>1, FS_RemoveElement, Zenon
    <3>2. QED
      BY <2>3, <3>1 DEF DictSize
  <2>5. DictSize(value) # DictSize(t)
    BY <1>1, <2>4
  <2>6. \A j \in Entries(value) : j \in Entries(t) /\ value[j] = t[j]
    BY <1>1, <2>2, <2>3
  <2>7. \A j, l \in Entries(value) : value[j][1] = value[l][1] => j = l
    BY <2>6 DEF Separate
  <2>8. QED
    BY <2>5, <2>7
<1>5. CASE \E i \in Entries(t), x \in Contents : value = [t EXCEPT ![i][2] = x]
  <2>1. PICK i \in Entries(t), x \in Contents : value = [t EXCEPT ![i][2] = x]
    BY <1>5
  <2>2. DOMAIN value = DOMAIN t /\ value[i] = [t[i] EXCEPT ![2] = x] /\ \A j \in DOMAIN t \ {i} : value[j] = t[j]
    BY <1>1, <2>1
  <2>3. value[i] \in Keys \X Contents /\ value[i][1] = t[i][1]
    BY <1>1, <2>2
  <2>4. Entries(value) = Entries(t)
    BY <1>1, <1>2, <2>2, <2>3 DEF Entries
  <2>5. \A j \in Entries(value) : value[j][1] = t[j][1]
    BY <1>1, <2>2, <2>3, <2>4
  <2>6. QED
    BY <2>4, <2>5 DEF Separate
<1>6. QED
  BY <1>3, <1>4, <1>5 DEF Changed

\* A first change to the size ends the iteration; any other leaves the keys.
LEMMA ChangeOnce ==
  ASSUME ReadsInv, MapInv, Change
  PROVE  MapInv'
<1>1. /\ UNCHANGED <<shape, step, at, size, log>> /\ changes' = changes + 1 /\ changes \in Nat
      /\ step \notin {"done", "error", "panic"} /\ ReadsTypeOK
  BY DEF Change, ReadsInv, ReadsTypeOK
<1>2. PICK value \in Changed(python.value) : python'.value = value
  BY DEF Change
<1> SUFFICES ASSUME shape.kind = "map" PROVE MapInv'
  BY <1>1 DEF MapInv
<1>3. Separate
  BY DEF MapInv
<1>4. Separate'
  BY <1>1, <1>2, <1>3, ChangedDict DEF Separate
<1>5. Judged("entry")' = Judged("entry") /\ KeysJudged' = KeysJudged /\ (JudgedOnce' <=> JudgedOnce)
  BY <1>1 DEF Judged, KeysJudged, JudgedOnce
<1>6. ASSUME changes' <= 1, step = "entry", shape.items = "unspecified", size' = DictSize(python.value)'
      PROVE  KeysJudged' = KeysBefore(at)' /\ JudgedOnce'
  <2>1. changes = 0 /\ changes <= 1
    BY <1>1, <1>6
  <2>2. size = DictSize(python.value) /\ KeysJudged = KeysBefore(at) /\ JudgedOnce
    BY <1>6, <2>1 DEF MapInv
  <2>3. DictSize(value) = DictSize(python.value)
    BY <1>1, <1>2, <1>6, <2>2
  <2>4. /\ Entries(value) = Entries(python.value)
        /\ \A i \in Entries(value) : value[i][1] = python.value[i][1]
    BY <1>1, <1>3, <2>3, ChangedDict
  <2>5. KeysBefore(at)' = KeysBefore(at)
    BY <1>1, <1>2, <2>4 DEF KeysBefore
  <2>6. QED
    BY <1>5, <2>2, <2>5
<1>7. QED
  BY <1>1, <1>4, <1>5, <1>6 DEF MapInv

\* Each of the steps before the entries.
LEMMA EarlyStepsOnce ==
  ASSUME ReadsInv, MapInv,
         \/ BuildField \/ Earlier \/ GetField \/ HasField \/ RunCustom \/ RunNative \/ RunUnique
         \/ RunPredefined \/ BeginList \/ VisitItem \/ ReadFails
  PROVE  MapInv'
<1>1. UNCHANGED <<shape, python, changes>>
  BY DEF BuildField, Earlier, GetField, HasField, RunCustom, RunPredefined, RunPrograms, RunNative, RunUnique,
     BeginList, VisitItem, ReadFails
<1> SUFFICES ASSUME shape.kind = "map" PROVE MapInv'
  BY <1>1 DEF MapInv
<1>2. ReadsTypeOK /\ ReadsInOrder
  BY DEF ReadsInv
<1>3. CASE BuildField \/ Earlier \/ GetField \/ ReadFails
  <2>1. log' = log /\ step \notin {"entry", "done", "error", "panic"} /\ step' # "entry"
    BY <1>3 DEF BuildField, Earlier, GetField, ReadFails, Goto
  <2>2. step' = "done" => Judged("predefined")' = {}
    BY <1>2, <1>3 DEF BuildField, Earlier, GetField, ReadFails, Goto, ReadsInOrder, Judged
  <2>3. QED
    BY <1>1, <2>1, <2>2, BeforeEntries
<1>4. CASE HasField
  <2>1. step = "has" /\ log = <<>> /\ step' # "entry" /\ (log' = log \/ log' = Append(log, Rule("required", Nil)))
    BY <1>2, <1>4 DEF HasField, Goto, ReadsInOrder, Judge, Rule
  <2>2. Rule("required", Nil) \in Judgements /\ Rule("required", Nil).what = "required"
    BY DEF Rule, Judgements
  <2>3. Judged("predefined")' = {}
    <3>1. CASE log' = log
      BY <2>1, <3>1 DEF Judged
    <3>2. CASE log' = Append(log, Rule("required", Nil))
      <4>1. DOMAIN log' = {1} /\ log'[1] = Rule("required", Nil)
        BY <2>1, <3>2
      <4>2. QED
        BY <2>2, <4>1 DEF Judged
    <3>3. QED
      BY <2>1, <3>1, <3>2
  <2>4. QED
    BY <1>1, <2>1, <2>2, <2>3, BeforeEntries
<1>5. CASE RunCustom
  <2>1. log' = Append(log, Rule("custom", This)) /\ Rule("custom", This) \in Judgements
    BY <1>2, <1>5, RunProgramsTypes DEF RunCustom, Steps, Rules
  <2>2. Rule("custom", This).what = "custom" /\ step = "custom" /\ step' = "native"
    BY <1>5 DEF Rule, RunCustom, RunPrograms, Goto
  <2>3. QED
    BY <1>1, <2>1, <2>2, BeforeEntries
<1>6. CASE RunNative
  <2>1. PICK x : log' = Append(log, Rule("native", x)) /\ Rule("native", x) \in Judgements
    BY <1>2, <1>6, RunNativeTypes
  <2>2. Rule("native", x).what = "native" /\ step = "native" /\ step' \in {"unique", "predefined"}
    BY <1>6 DEF Rule, RunNative, Goto
  <2>3. QED
    BY <1>1, <2>1, <2>2, BeforeEntries
<1>7. CASE RunPredefined
  <2>1. log' = Append(log, Rule("predefined", This)) /\ Rule("predefined", This) \in Judgements
    BY <1>2, <1>7, RunProgramsTypes DEF RunPredefined, Steps, Rules
  <2>2. /\ Rule("predefined", This).what = "predefined" /\ step = "predefined" /\ step' # "entry"
        /\ step' = "done" => shape.items = "none"
    BY <1>7 DEF Rule, RunPredefined, RunPrograms, Goto
  <2>3. QED
    BY <1>1, <2>1, <2>2, BeforeEntries
<1>8. CASE RunUnique \/ BeginList \/ VisitItem
  BY <1>2, <1>8 DEF RunUnique, BeginList, VisitItem, ReadsInOrder
<1>9. QED
  BY <1>3, <1>4, <1>5, <1>6, <1>7, <1>8

\* Every step keeps MapInv.
LEMMA MapStep == ReadsInv /\ MapInv /\ [ReadsNext]_readVars => MapInv'
<1> SUFFICES ASSUME ReadsInv, MapInv, [ReadsNext]_readVars PROVE MapInv'
  OBVIOUS
<1>1. CASE UNCHANGED readVars
  BY <1>1 DEF readVars, MapInv, Separate, Entries, KeysBefore, KeysJudged, JudgedOnce, Judged
<1>2. QED
  BY <1>1, BeginMapOnce, VisitEntryOnce, ChangeOnce, EarlyStepsOnce DEF ReadsNext, ReadStep

\* A map that changes once while it is judged, or before, is judged to the end only if
\* every entry it has then was judged, once, and none that it has not: an insertion or a
\* deletion in the middle of the iteration ends it.
\* (MapView::for_each in view.rs, validate_map in rules/eval.rs)
THEOREM OneChangeNoticedAlways == ReadsSpec => []OneChangeNoticed
<1>1. ReadsInit => MapInv
  BY InitSeparate, ReadsInitTypes DEF MapInv, Judged
<1>2. ReadsInv /\ MapInv => OneChangeNoticed
  BY DEF MapInv, OneChangeNoticed, KeysJudged, JudgedOnce
<1>3. QED
  BY <1>1, <1>2, MapStep, ReadsAlways, PTL DEF ReadsSpec

=============================================================================
