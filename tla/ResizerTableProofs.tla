------------------------- MODULE ResizerTableProofs -------------------------
(***************************************************************************)
(* The partition table of Resizer stays sound: no two entries ever share a *)
(* byte, a slot or a GUID, whatever disk, layout and request, as long as   *)
(* each partition is named by one identifier of the request only; and then *)
(* every partition keeps its identity and its number.                      *)
(***************************************************************************)
EXTENDS ResizerTypeProofs

\* s with e put in at place n.
Inserted(s, t, n, e) ==
    /\ n \in 1 .. Len(s) + 1
    /\ Len(t) = Len(s) + 1
    /\ \A k \in 1 .. Len(t) : t[k] = IF k < n THEN s[k] ELSE IF k = n THEN e ELSE s[k - 1]

LEMMA InsertedIs ==
    ASSUME NEW s \in Seq(Item), NEW t \in Seq(Item), NEW n, NEW e, Inserted(s, t, n, e)
    PROVE  \A k \in DOMAIN t : t[k] = e \/ \E m \in DOMAIN s : t[k] = s[m]
<1> SUFFICES ASSUME NEW k \in 1 .. Len(t) PROVE t[k] = e \/ \E m \in DOMAIN s : t[k] = s[m]
    OBVIOUS
<1>1. CASE k < n
    BY <1>1 DEF Inserted
<1>2. CASE k = n
    BY <1>2 DEF Inserted
<1>3. CASE k > n
    <2>1. k - 1 \in DOMAIN s /\ t[k] = s[k - 1]
        BY <1>3 DEF Inserted
    <2> QED BY <2>1
<1> QED BY <1>1, <1>2, <1>3 DEF Inserted

LEMMA InsertedDistinct ==
    ASSUME NEW s \in Seq(Item), NEW t \in Seq(Item), NEW n, NEW e, Inserted(s, t, n, e),
           \A k, m \in DOMAIN s : k # m => s[k].original.number # s[m].original.number,
           \A k \in DOMAIN s : s[k].original.number # e.original.number
    PROVE  \A k, m \in DOMAIN t : k # m => t[k].original.number # t[m].original.number
<1> DEFINE old(k) == IF k < n THEN k ELSE k - 1
<1>1. n \in Nat
    BY DEF Inserted
<1>2. \A k \in DOMAIN t \ {n} : old(k) \in DOMAIN s /\ t[k] = s[old(k)]
    <2> SUFFICES ASSUME NEW k \in 1 .. Len(t), k # n
                 PROVE  old(k) \in DOMAIN s /\ t[k] = s[old(k)]
        OBVIOUS
    <2> QED BY <1>1 DEF Inserted
<1>3. \A k, m \in DOMAIN t \ {n} : k # m => old(k) # old(m)
    BY <1>1
<1>4. t[n] = e
    BY DEF Inserted
<1> HIDE DEF old
<1> QED BY <1>2, <1>3, <1>4

\* Putting an item behind, between or in front of others.
LEMMA InsertedBetween ==
    ASSUME NEW a \in Seq(Item), NEW b \in Seq(Item), NEW e \in Item
    PROVE  /\ Inserted(a \o b, Append(a, e) \o b, Len(a) + 1, e)
           /\ Inserted(a \o b, a \o (<<e>> \o b), Len(a) + 1, e)
           /\ Inserted(a \o b, a \o Append(b, e), Len(a) + Len(b) + 1, e)
           /\ a \o b \in Seq(Item) /\ Append(a, e) \o b \in Seq(Item)
           /\ a \o (<<e>> \o b) \in Seq(Item) /\ a \o Append(b, e) \in Seq(Item)
BY DEF Inserted
-----------------------------------------------------------------------------
\* The plan's items are the requested ones, in their order.
LEMMA PlanFollows ==
    ASSUME LocalsTypeOK, InStep
    PROVE  \A k \in DOMAIN Plan :
              k \in DOMAIN (done \o todo) /\ Plan[k].original = (done \o todo)[k].original
<1>1. done \in Seq(Item) /\ todo \in Seq(Item) /\ resizes \in Seq(Item)
    BY DEF LocalsTypeOK
<1> SUFFICES ASSUME NEW k \in DOMAIN Plan
             PROVE  k \in DOMAIN (done \o todo) /\ Plan[k].original = (done \o todo)[k].original
    OBVIOUS
<1>2. CASE k \in DOMAIN done /\ Plan[k] = done[k]
    BY <1>1, <1>2, PlanItems
<1>3. ASSUME NEW m \in DOMAIN resizes, k = Len(done) + m, Plan[k] = resizes[m]
      PROVE  k \in DOMAIN (done \o todo) /\ Plan[k].original = (done \o todo)[k].original
    <2>1. m \in DOMAIN todo /\ resizes[m].original = todo[m].original
        BY <1>1 DEF InStep
    <2>2. k \in DOMAIN (done \o todo) /\ (done \o todo)[k] = todo[m]
        BY <1>1, <1>3, <2>1, PlanItems
    <2> QED BY <1>3, <2>1, <2>2
<1> QED BY <1>2, <1>3, PlanParts

\* What a step of planning does to the items: nothing, or one more from the next
\* grow of the request, or one more from its shrink partition.
ItemsKept ==
    /\ \A k \in DOMAIN Items' : k \in DOMAIN Items /\ Items'[k].original = Items[k].original
    /\ pc' = "classify" => i' >= i
    /\ pc' = "allocate" /\ ~retried' => pc \in {"classify", "allocate"} /\ ~retried
    /\ pc' = "classify" => ~retried'
NewItem(p) == \E n \in Nat, e \in Item : e.original = Data(p) /\ Inserted(Items, Items', n, e)
GrowAdded ==
    /\ pc = "classify" /\ pc' = "classify"
    /\ i \in DOMAIN req.grows /\ i' = i + 1
    /\ retried' = retried
    /\ \E p \in FirstMatch(table, req.grows[i]) : NewItem(p)
ShrinkAdded ==
    /\ pc = "allocate" /\ pc' = "allocate"
    /\ ~retried /\ retried'
    /\ req.shrink # NoShrink
    /\ \E p \in FirstMatch(table, req.shrink) : NewItem(p)

LEMMA BackToClassify == Next /\ pc' = "classify" => pc \in {"off", "classify"}
BY DEF Next, Discover, NotDiscovered, SkipSatisfied, ReuseRelocated, QueuePending, Classifying,
       NothingPending, FirstAttempt, BeginLayout, LayOutShrink, LayOutGrow, LayingOut, Settle, GiveSpace,
       LayoutComplete, RetryWithShrink, Retry, InsufficientSpace, GiveUp, NoRoom

LEMMA NextGrow ==
    ASSUME TypeOK, NEW p, Classifying(p)
    PROVE  i \in DOMAIN req.grows /\ req.grows[i].size \in Int
<1>1. req.grows \in Seq(Change) /\ i \in 1 .. Len(req.grows)
    BY RequestAssumption DEF Classifying, Request, TypeOK, LocalsTypeOK
<1>2. req.grows[i] \in Change
    BY <1>1
<1> QED BY <1>1, <1>2 DEF Change

LEMMA ItemsNext ==
    ASSUME TypeOK, InStep, NothingHeld, ItemsRequested, Next, TypeOK', InStep'
    PROVE  ItemsKept \/ GrowAdded \/ ShrinkAdded
<1>1. /\ done \in Seq(Item) /\ todo \in Seq(Item) /\ resizes \in Seq(Item) /\ i \in Nat \ {0}
      /\ LocalsTypeOK
    BY DEF TypeOK, LocalsTypeOK
<1>2. pc = "classify" => ~retried
    BY DEF ItemsRequested
<1>3. CASE Discover
    <2>1. Items = <<>> /\ Items' = <<>> /\ ~retried' /\ i' = i /\ pc' = "classify"
        BY <1>3 DEF Discover, locals, NothingHeld, InitLocals, Items
    <2> QED BY <1>1, <2>1 DEF ItemsKept
<1>4. CASE SkipSatisfied
    BY <1>1, <1>2, <1>4 DEF SkipSatisfied, Classifying, ItemsKept, Items
<1>5. CASE FirstAttempt \/ LayOutShrink \/ LayOutGrow
    <2>1. /\ UNCHANGED <<done, todo>> /\ pc \in {"classify", "allocate"} /\ pc' = "allocate"
          /\ retried' = retried
        BY <1>5 DEF FirstAttempt, BeginLayout, LayOutShrink, LayOutGrow, GiveSpace, Settle, LayingOut
    <2> QED BY <2>1 DEF ItemsKept, Items
<1>6. CASE NotDiscovered \/ NothingPending \/ LayoutComplete \/ InsufficientSpace
    <2>1. /\ UNCHANGED locals /\ pc \in {"off", "classify", "allocate"} /\ pc' \in {"planned", "failed"}
        BY <1>6 DEF NotDiscovered, NothingPending, LayoutComplete, InsufficientSpace, GiveUp, NoRoom, LayingOut
    <2>2. Items' = Plan /\ Items = done \o todo
        BY <2>1 DEF Items, Plan, locals
    <2> QED BY <1>1, <2>1, <2>2, PlanFollows DEF ItemsKept
<1>7. CASE ReuseRelocated
    <2>1. PICK p \in table, alt \in table :
            /\ Classifying(p)
            /\ done' = Append(done, Existing(p, alt)) /\ todo' = todo
        BY <1>7 DEF ReuseRelocated, LastNamed
    <2>2. Existing(p, alt) \in Item /\ Existing(p, alt).original = Data(p)
        BY ItemTypes DEF TypeOK, Existing
    <2>3. Items = done \o todo /\ Items' = done' \o todo
        BY <2>1 DEF Items, Classifying
    <2>4. Inserted(Items, Items', Len(done) + 1, Existing(p, alt)) /\ Len(done) + 1 \in Nat
        <3>1. Inserted(done \o todo, Append(done, Existing(p, alt)) \o todo, Len(done) + 1, Existing(p, alt))
            BY <1>1, <2>2, InsertedBetween
        <3>2. Len(done) + 1 \in Nat
            BY <1>1
        <3> QED BY <2>1, <2>3, <3>1, <3>2
    <2>5. NewItem(p)
        BY <2>2, <2>4 DEF NewItem
    <2> QED BY <2>1, <2>5, NextGrow DEF GrowAdded, Classifying
<1>8. CASE QueuePending
    <2>1. PICK p \in table :
            /\ Classifying(p)
            /\ todo' = Append(todo, Pending(p, req.grows[i].size)) /\ done' = done
        BY <1>8 DEF QueuePending
    <2> DEFINE e == Pending(p, req.grows[i].size)
    <2>2. e \in Item /\ e.original = Data(p)
        BY <2>1, NextGrow, ItemTypes DEF TypeOK, Pending
    <2> HIDE DEF e
    <2>3. Items = done \o todo /\ Items' = done \o todo' /\ todo' = Append(todo, e)
        BY <2>1 DEF Items, Classifying, e
    <2>4. Inserted(Items, Items', Len(done) + Len(todo) + 1, e) /\ Len(done) + Len(todo) + 1 \in Nat
        <3>1. Inserted(done \o todo, done \o Append(todo, e), Len(done) + Len(todo) + 1, e)
            BY <1>1, <2>2, InsertedBetween
        <3>2. Len(done) + Len(todo) + 1 \in Nat
            BY <1>1
        <3> QED BY <2>3, <3>1, <3>2
    <2>5. NewItem(p)
        BY <2>2, <2>4 DEF NewItem
    <2> QED BY <2>1, <2>5, NextGrow DEF GrowAdded, Classifying
<1>9. CASE RetryWithShrink
    <2>1. PICK p \in FirstMatch(table, req.shrink) :
            /\ pc = "allocate" /\ pc' = "allocate" /\ ~retried /\ retried' /\ req.shrink # NoShrink
            /\ todo' = <<ShrinkItem(p)>> \o todo /\ done' = done
        BY <1>9 DEF RetryWithShrink, Retry, BeginLayout, NoRoom, LayingOut
    <2>2. ShrinkItem(p) \in Item /\ ShrinkItem(p).original = Data(p)
        BY ShrinkItemType DEF TypeOK, LocalsTypeOK, ShrinkItem, FirstMatch
    <2>3. Items = done \o todo /\ Items' = done \o (<<ShrinkItem(p)>> \o todo)
        BY <2>1 DEF Items
    <2>4. Inserted(Items, Items', Len(done) + 1, ShrinkItem(p)) /\ Len(done) + 1 \in Nat
        BY <1>1, <2>2, <2>3, InsertedBetween
    <2>5. NewItem(p)
        BY <2>2, <2>4 DEF NewItem
    <2> QED BY <2>1, <2>5 DEF ShrinkAdded
<1> QED BY <1>3, <1>4, <1>5, <1>6, <1>7, <1>8, <1>9 DEF Next
-----------------------------------------------------------------------------
\* The first match is an entry, and one of those the request names.
LEMMA ChosenIs ==
    ASSUME NEW id \in Requested, NEW p \in FirstMatch(table, id)
    PROVE  p \in table /\ p \in Chosen
BY DEF FirstMatch, Chosen

\* One more item, about a partition no item is about, keeps the items distinct
\* and about original partitions.
LEMMA NewItemKeeps ==
    ASSUME ApartInv, TypeOK, Items \in Seq(Item), Items' \in Seq(Item), UNCHANGED <<table, origin>>,
           NEW p \in table, NewItem(p), p.guid \in Ids,
           \A k \in DOMAIN Items : \E q \in table : q # p /\ Items[k].original = Data(q)
    PROVE  ItemsDistinct' /\ SourcesOriginal'
<1>1. PICK n \in Nat, e \in Item : e.original = Data(p) /\ Inserted(Items, Items', n, e)
    BY DEF NewItem
<1>2. e.original.number = p.number
    BY <1>1 DEF Data
<1>3. \A k \in DOMAIN Items : Items[k].original.number # e.original.number
    <2>1. \A q \in table : q # p => q.number # p.number
        BY DEF ApartInv, SoundTable
    <2>2. \A q : Data(q).number = q.number
        BY DEF Data
    <2> QED BY <1>2, <2>1, <2>2
<1>4. ItemsDistinct'
    <2>1. \A k, m \in DOMAIN Items : k # m => Items[k].original.number # Items[m].original.number
        BY DEF ApartInv, ItemsDistinct
    <2>2. \A k, m \in DOMAIN Items' : k # m => Items'[k].original.number # Items'[m].original.number
        BY <1>1, <1>3, <2>1, InsertedDistinct
    <2> QED BY <2>2 DEF ItemsDistinct
<1>5. ASSUME NEW k \in DOMAIN Items', NEW q \in table, q.number = Items'[k].original.number
      PROVE  q.guid \in Ids
    <2>1. CASE Items'[k] = e
        <3>1. q = p
            BY <1>2, <1>5, <2>1 DEF ApartInv, SoundTable
        <3> QED BY <3>1
    <2>2. CASE \E m \in DOMAIN Items : Items'[k] = Items[m]
        BY <1>5, <2>2 DEF ApartInv, SourcesOriginal
    <2> QED BY <1>1, <2>1, <2>2, InsertedIs
<1>6. Ids' = Ids
    BY DEF Ids
<1> QED BY <1>4, <1>5, <1>6 DEF SourcesOriginal

\* A step of planning keeps the items, or adds one about a named partition that
\* none of the others, all about named partitions too, is about.
LEMMA PlannedItem ==
    ASSUME TypeInv, ApartInv, NamedOnce, Planning
    PROVE  \/ ItemsKept
           \/ \E p \in Chosen :
                /\ pc \in {"classify", "allocate"}
                /\ p \in table /\ NewItem(p)
                /\ \A k \in DOMAIN Items : \E q \in Chosen \ {p} : q \in table /\ Items[k].original = Data(q)
<1>1. /\ Next /\ UNCHANGED <<table, req, origin>> /\ LocalsTypeOK /\ InStep
    BY NextFrame, TypeParts DEF Planning, environment, RunOK, ItemsCurrent, BeforeTableWrites
<1>2. TypeOK /\ i \in Nat
    BY <1>1, NextFrame, TypeParts DEF TypeOK, StoreOK, TableOK, LocalsTypeOK
<1>3. TypeOK' /\ InStep'
    BY <1>1, <1>2, TypeNext, InStepNext
<1>4. ItemsKept \/ GrowAdded \/ ShrinkAdded
    BY <1>1, <1>2, <1>3, ItemsNext DEF ApartInv
<1>5. CASE GrowAdded
    <2>1. PICK p \in FirstMatch(table, req.grows[i]) : NewItem(p)
        BY <1>5 DEF GrowAdded
    <2>2. pc = "classify" /\ i \in DOMAIN req.grows /\ req.grows[i] \in Requested
        BY <1>5 DEF GrowAdded, Requested
    <2>3. \A k \in DOMAIN Items : \E q \in Chosen \ {p} : q \in table /\ Items[k].original = Data(q)
        <3> SUFFICES ASSUME NEW k \in DOMAIN Items
                     PROVE  \E q \in Chosen \ {p} : q \in table /\ Items[k].original = Data(q)
            OBVIOUS
        <3>1. PICK j \in DOMAIN req.grows :
                j < i /\ \E q \in FirstMatch(table, req.grows[j]) : Items[k].original = Data(q)
            BY <2>2 DEF ApartInv, ItemsRequested
        <3>2. j # i /\ req.grows[j] \in Requested
            BY <1>2, <3>1 DEF Requested
        <3>3. FirstMatch(table, req.grows[j]) \cap FirstMatch(table, req.grows[i]) = {}
            BY <2>2, <3>2 DEF NamedOnce
        <3> QED BY <3>1, <3>2, <3>3, ChosenIs
    <2> QED BY <2>1, <2>2, <2>3, ChosenIs
<1>6. CASE ShrinkAdded
    <2>1. PICK p \in FirstMatch(table, req.shrink) : NewItem(p)
        BY <1>6 DEF ShrinkAdded
    <2>2. pc = "allocate" /\ ~retried /\ req.shrink # NoShrink /\ req.shrink \in Requested
        BY <1>6 DEF ShrinkAdded, Requested
    <2>3. \A k \in DOMAIN Items : \E q \in Chosen \ {p} : q \in table /\ Items[k].original = Data(q)
        <3> SUFFICES ASSUME NEW k \in DOMAIN Items
                     PROVE  \E q \in Chosen \ {p} : q \in table /\ Items[k].original = Data(q)
            OBVIOUS
        <3>1. PICK j \in DOMAIN req.grows :
                \E q \in FirstMatch(table, req.grows[j]) : Items[k].original = Data(q)
            BY <2>2 DEF ApartInv, ItemsRequested
        <3>2. req.grows[j] \in Requested
            BY DEF Requested
        <3>3. FirstMatch(table, req.grows[j]) \cap FirstMatch(table, req.shrink) = {}
            BY <2>2 DEF NamedOnce
        <3> QED BY <3>1, <3>2, <3>3, ChosenIs
    <2> QED BY <2>1, <2>2, <2>3, ChosenIs
<1> QED BY <1>4, <1>5, <1>6

LEMMA PlannedItems ==
    ASSUME TypeInv, ApartInv, NamedOnce, Planning
    PROVE  ItemsDistinct' /\ SourcesOriginal' /\ ItemsRequested'
<1>1. /\ Next /\ UNCHANGED <<table, req, origin>> /\ LocalsTypeOK /\ InStep
      /\ pc \in {"off", "classify", "allocate"} /\ pc' \in {"classify", "allocate", "planned", "failed"}
    BY NextFrame, TypeParts DEF Planning, environment, RunOK, ItemsCurrent, BeforeTableWrites
<1>2. TypeOK
    BY <1>1, TypeParts DEF TypeOK, StoreOK, TableOK
<1>3. TypeOK' /\ InStep'
    BY <1>1, <1>2, TypeNext, InStepNext
<1>4. ItemsKept \/ GrowAdded \/ ShrinkAdded
    BY <1>1, <1>2, <1>3, ItemsNext DEF ApartInv
<1>5. Items \in Seq(Item) /\ Items' \in Seq(Item) /\ i \in Nat
    <2>1. done \o todo \in Seq(Item) /\ (done \o todo)' \in Seq(Item) /\ Plan' \in Seq(Item) /\ Plan \in Seq(Item)
        BY <1>2, <1>3 DEF TypeOK, LocalsTypeOK, Plan
    <2> QED BY <1>2, <2>1 DEF Items, TypeOK, LocalsTypeOK
<1>6. Ids' = Ids
    BY <1>1 DEF Ids
<1>7. ItemsDistinct' /\ SourcesOriginal'
    <2>1. CASE ItemsKept
        BY <1>1, <1>6, <2>1 DEF ItemsKept, ItemsDistinct, SourcesOriginal, ApartInv
    <2>2. ASSUME NEW p \in Chosen, pc \in {"classify", "allocate"}, p \in table, NewItem(p),
                 \A k \in DOMAIN Items : \E q \in Chosen \ {p} : q \in table /\ Items[k].original = Data(q)
          PROVE  ItemsDistinct' /\ SourcesOriginal'
        <3>1. p.guid \in Ids
            BY <2>2 DEF NamedOnce
        <3>2. \A k \in DOMAIN Items : \E q \in table : q # p /\ Items[k].original = Data(q)
            BY <2>2
        <3> QED BY <1>1, <1>2, <1>5, <2>2, <3>1, <3>2, NewItemKeeps
    <2> QED BY <2>1, <2>2, PlannedItem
<1>8. ASSUME ItemsKept PROVE ItemsRequested'
    <2>1. pc' = "classify" => ~retried'
        BY <1>8 DEF ItemsKept
    <2>2. ASSUME pc' \in {"classify", "allocate"}, ~retried', NEW k \in DOMAIN Items'
          PROVE  \E j \in DOMAIN req.grows :
                    /\ pc' = "classify" => j < i'
                    /\ \E p \in FirstMatch(table, req.grows[j]) : Items'[k].original = Data(p)
        <3>1. k \in DOMAIN Items /\ Items'[k].original = Items[k].original
            BY <1>8 DEF ItemsKept
        <3>2. pc # "off"
            BY <3>1 DEF ApartInv, NothingHeld, InitLocals, Items
        <3>3. pc' = "classify" => pc = "classify" /\ i' >= i /\ i' \in Nat
            BY <1>1, <1>3, <1>8, <3>2, BackToClassify DEF ItemsKept, TypeOK, LocalsTypeOK
        <3>4. pc \in {"classify", "allocate"} /\ ~retried
            BY <1>1, <1>8, <2>2, <3>2, <3>3 DEF ItemsKept, ApartInv, ItemsRequested
        <3>5. PICK j \in DOMAIN req.grows :
                /\ pc = "classify" => j < i
                /\ \E p \in FirstMatch(table, req.grows[j]) : Items[k].original = Data(p)
            BY <3>1, <3>4 DEF ApartInv, ItemsRequested
        <3>6. j \in Int
            BY <1>2, RequestAssumption DEF TypeOK, Request
        <3> QED BY <1>5, <3>1, <3>3, <3>5, <3>6
    <2> QED BY <1>1, <2>1, <2>2 DEF ItemsRequested
<1>9. ASSUME GrowAdded PROVE ItemsRequested'
    <2>1. PICK p \in FirstMatch(table, req.grows[i]) : NewItem(p)
        BY <1>9 DEF GrowAdded
    <2>2. /\ pc = "classify" /\ pc' = "classify" /\ i \in DOMAIN req.grows /\ i' = i + 1
          /\ retried' = retried /\ ~retried
        BY <1>9 DEF GrowAdded, ApartInv, ItemsRequested
    <2>3. \A k \in DOMAIN Items : \E j \in DOMAIN req.grows :
            j < i /\ \E q \in FirstMatch(table, req.grows[j]) : Items[k].original = Data(q)
        BY <2>2 DEF ApartInv, ItemsRequested
    <2> SUFFICES ASSUME NEW k \in DOMAIN Items'
                 PROVE  \E j \in DOMAIN req.grows :
                    j < i' /\ \E q \in FirstMatch(table, req.grows[j]) : Items'[k].original = Data(q)
        BY <1>1, <2>2 DEF ItemsRequested
    <2>4. PICK n \in Nat, e \in Item : e.original = Data(p) /\ Inserted(Items, Items', n, e)
        BY <2>1 DEF NewItem
    <2>5. CASE Items'[k] = e
        <3>1. i < i'
            BY <1>5, <2>2
        <3> QED BY <2>1, <2>2, <2>4, <2>5, <3>1
    <2>6. ASSUME NEW m \in DOMAIN Items, Items'[k] = Items[m]
          PROVE  \E j \in DOMAIN req.grows :
                    j < i' /\ \E q \in FirstMatch(table, req.grows[j]) : Items'[k].original = Data(q)
        <3>1. PICK j \in DOMAIN req.grows :
                j < i /\ \E q \in FirstMatch(table, req.grows[j]) : Items[m].original = Data(q)
            BY <2>3
        <3>2. j \in Int
            BY <1>2, RequestAssumption DEF TypeOK, Request
        <3>3. j < i'
            BY <1>5, <2>2, <3>1, <3>2
        <3> QED BY <2>6, <3>1, <3>3
    <2> QED BY <1>5, <2>4, <2>5, <2>6, InsertedIs
<1>10. ASSUME ShrinkAdded PROVE ItemsRequested'
    BY <1>10 DEF ShrinkAdded, ItemsRequested
<1> QED BY <1>4, <1>7, <1>8, <1>9, <1>10

\* Planning ends when everything pending is laid out.
LEMMA PlannedComplete ==
    ASSUME TypeOK, InStep, Next, pc' = "planned"
    PROVE  Len(resizes') = Len(todo')
<1>1. NothingPending \/ LayoutComplete
    BY DEF Next, Discover, NotDiscovered, SkipSatisfied, ReuseRelocated, QueuePending, Classifying,
        FirstAttempt, BeginLayout, LayOutShrink, LayOutGrow, LayingOut, Settle, GiveSpace,
        RetryWithShrink, Retry, InsufficientSpace, GiveUp, NoRoom
<1>2. CASE NothingPending
    BY <1>2 DEF NothingPending, InStep, locals
<1>3. CASE LayoutComplete
    <2>1. /\ pc = "allocate" /\ i > Len(todo) /\ UNCHANGED <<resizes, todo>>
          /\ i \in Nat /\ Len(todo) \in Nat
        BY <1>3 DEF LayoutComplete, locals, TypeOK, LocalsTypeOK
    <2>2. Len(resizes) = i - 1 /\ i <= Len(todo) + 1
        BY <2>1 DEF InStep
    <2> QED BY <2>1, <2>2
<1> QED BY <1>1, <1>2, <1>3

\* An item found done is about an entry and its copy.
LEMMA DoneThereNext ==
    ASSUME TypeOK, DoneThere, Next
    PROVE  DoneThere'
<1>1. table' = table
    BY NextFrame
<1>2. CASE UNCHANGED done
    BY <1>1, <1>2 DEF DoneThere
<1>3. CASE ReuseRelocated
    <2>1. PICK p \in table : \E alt \in LastNamed(table, Alternate(p.name)) : done' = Append(done, Existing(p, alt))
        BY <1>3 DEF ReuseRelocated
    <2>2. PICK alt \in LastNamed(table, Alternate(p.name)) : done' = Append(done, Existing(p, alt))
        BY <2>1
    <2> DEFINE e == Existing(p, alt)
    <2>3. alt \in table /\ alt.name = Alternate(p.name)
        BY DEF LastNamed
    <2>4. e.original.number = p.number /\ e.target.number = alt.number /\ e.target.start = alt.start
        BY DEF Existing, Data
    <2>5. done \in Seq(Item) /\ done' = Append(done, e)
        BY <2>2 DEF TypeOK, LocalsTypeOK
    <2> HIDE DEF e
    <2>6. \A k \in DOMAIN done' : done'[k] = e \/ (k \in DOMAIN done /\ done'[k] = done[k])
        BY <2>5
    <2> QED BY <1>1, <2>3, <2>4, <2>6 DEF DoneThere
<1>4. UNCHANGED done \/ ReuseRelocated
    BY DEF Next, Discover, NotDiscovered, SkipSatisfied, QueuePending, Classifying, locals,
        NothingPending, FirstAttempt, BeginLayout, LayOutShrink, LayOutGrow, LayingOut, Settle, GiveSpace,
        LayoutComplete, RetryWithShrink, Retry, InsufficientSpace, GiveUp, NoRoom
<1> QED BY <1>2, <1>3, <1>4

LEMMA ApartPlanning ==
    ASSUME TypeInv, ApartInv, NamedOnce, Planning
    PROVE  ApartInv'
<1>1. /\ Next /\ UNCHANGED <<table, req, origin>> /\ LocalsTypeOK /\ InStep
      /\ pc \in {"off", "classify", "allocate"} /\ pc' \in {"classify", "allocate", "planned", "failed"}
    BY NextFrame, TypeParts DEF Planning, environment, RunOK, ItemsCurrent, BeforeTableWrites
<1>2. TypeOK
    BY <1>1, TypeParts DEF TypeOK, StoreOK, TableOK
<1>3. PlanInv
    BY <1>1, <1>2 DEF PlanInv, ApartInv, BeforeTableWrites
<1>4. PlanInv'
    BY <1>1, <1>3, SafeNext
<1>5. SoundTable(table, DiskSize)' /\ (pc \in BeforeTableWrites => SpaceAccounted)'
    BY <1>4 DEF PlanInv
<1>6. FreshBySlot' /\ NothingHeld' /\ PlacesClear'
    BY <1>1 DEF ApartInv, FreshBySlot, NothingHeld, PlacesClear, Ids
<1>7. PlanComplete'
    <2>1. pc' = "planned" => Len(resizes') = Len(todo')
        BY <1>1, <1>2, PlannedComplete
    <2> QED BY <1>1, <2>1 DEF PlanComplete, BeforeTableWrites
<1>8. DoneThere'
    BY <1>1, <1>2, DoneThereNext DEF ApartInv
<1> QED BY <1>5, <1>6, <1>7, <1>8, PlannedItems DEF ApartInv
-----------------------------------------------------------------------------
\* A run that ended has only its table left.
LEMMA ApartIdle ==
    pc = "off" /\ InitLocals /\ SoundTable(table, DiskSize) /\ FreshBySlot => ApartInv
<1> SUFFICES ASSUME pc = "off", InitLocals, SoundTable(table, DiskSize), FreshBySlot PROVE ApartInv
    OBVIOUS
<1>1. done = <<>> /\ todo = <<>> /\ free = {} /\ resizes = <<>>
    BY DEF InitLocals
<1>2. Items = <<>>
    BY <1>1 DEF Items
<1>3. NothingHeld /\ ItemsDistinct /\ ItemsRequested /\ SourcesOriginal
    BY <1>2 DEF NothingHeld, ItemsDistinct, ItemsRequested, SourcesOriginal
<1>4. PlanComplete /\ DoneThere /\ PlacesClear
    BY <1>1 DEF PlanComplete, DoneThere, PlacesClear
<1>5. SpaceAccounted
    BY <1>1, NothingLaidOut DEF SpaceAccounted
<1> QED BY <1>3, <1>4, <1>5 DEF ApartInv

LEMMA ApartExited == Exit /\ SoundTable(table, DiskSize)' /\ FreshBySlot' => ApartInv'
<1>1. Exit => (pc = "off" /\ InitLocals)'
    BY DEF Exit, InitLocals
<1> QED BY <1>1, ApartIdle, PTL

LEMMA ApartInit == DiskInit => ApartInv
<1>1. DiskInit => pc = "off" /\ InitLocals /\ SoundTable(table, DiskSize) /\ FreshBySlot
    BY LayoutAssumption DEF DiskInit, Init, FreshBySlot, Ids
<1> QED BY <1>1, ApartIdle

\* A step that leaves the table and the plan alone after planning.
LEMMA ApartKept ==
    ASSUME ApartInv, UNCHANGED <<table, origin, done, todo, free, taken, resizes>>,
           pc \notin {"off", "classify", "allocate"},
           pc' \notin {"off", "classify", "allocate", "createPartitions"},
           pc' \in BeforeTableWrites => pc \in BeforeTableWrites
    PROVE  ApartInv'
<1>1. /\ Plan' = Plan /\ Items' = Plan /\ Items = Plan /\ Ids' = Ids /\ Grown' = Grown
      /\ OncePerPartition' = OncePerPartition /\ ShrinkLeavesRoom' = ShrinkLeavesRoom
      /\ \A p : Remaining(p)' = Remaining(p)
    BY DEF Plan, Items, Ids, Grown, OncePerPartition, ShrinkLeavesRoom, Remaining
<1>2. SoundTable(table, DiskSize)' /\ FreshBySlot' /\ NothingHeld'
    BY <1>1 DEF ApartInv, SoundTable, FreshBySlot, NothingHeld
<1>3. ItemsDistinct' /\ ItemsRequested' /\ SourcesOriginal'
    BY <1>1 DEF ApartInv, ItemsDistinct, ItemsRequested, SourcesOriginal
<1>4. PlanComplete' /\ DoneThere' /\ PlacesClear'
    BY <1>1 DEF ApartInv, PlanComplete, DoneThere, PlacesClear
<1>5. (pc \in BeforeTableWrites => SpaceAccounted)'
    <2>1. \A k : PlacedApart(k)' = PlacedApart(k)
        BY <1>1 DEF PlacedApart
    <2> QED BY <1>1, <2>1 DEF ApartInv, SpaceAccounted
<1> QED BY <1>2, <1>3, <1>4, <1>5 DEF ApartInv

\* Or that changes neither the memory nor the table.
LEMMA ApartUntouched ==
    ASSUME ApartInv, UNCHANGED <<table, origin, pc, locals>>, pc = "off" \/ req' = req
    PROVE  ApartInv'
<1>1. /\ Plan' = Plan /\ Items' = Items /\ Ids' = Ids /\ Grown' = Grown
      /\ OncePerPartition' = OncePerPartition /\ ShrinkLeavesRoom' = ShrinkLeavesRoom
      /\ \A p : Remaining(p)' = Remaining(p)
    BY DEF Plan, Items, Ids, Grown, OncePerPartition, ShrinkLeavesRoom, Remaining, locals
<1>2. SoundTable(table, DiskSize)' /\ FreshBySlot' /\ NothingHeld'
    BY <1>1 DEF ApartInv, SoundTable, FreshBySlot, NothingHeld, InitLocals, locals
<1>3. ItemsDistinct' /\ ItemsRequested' /\ SourcesOriginal'
    BY <1>1 DEF ApartInv, ItemsDistinct, ItemsRequested, SourcesOriginal, locals
<1>4. PlanComplete' /\ DoneThere' /\ PlacesClear'
    BY <1>1 DEF ApartInv, PlanComplete, DoneThere, PlacesClear, locals
<1>5. (pc \in BeforeTableWrites => SpaceAccounted)'
    <2>1. \A k : PlacedApart(k)' = PlacedApart(k)
        BY <1>1 DEF PlacedApart, locals
    <2> QED BY <1>1, <2>1 DEF ApartInv, SpaceAccounted, locals
<1> QED BY <1>2, <1>3, <1>4, <1>5 DEF ApartInv
-----------------------------------------------------------------------------
\* Ranges that share no byte share none in whole sectors.
LEMMA AlignedApart ==
    ASSUME NEW s \in Nat, NEW t \in Nat, NEW a \in Int, NEW b \in Int,
           Align(a) \in Nat \ {0}, Align(b) \in Nat \ {0},
           Bytes(s, a) \cap Bytes(t, b) = {}
    PROVE  Bytes(Align(s), Align(a)) \cap Bytes(Align(t), Align(b)) = {}
<1>1. a >= 1 /\ b >= 1
    BY AlignBounds
<1>2. s + a <= t \/ t + b <= s
    <2>1. CASE s <= t
        <3>1. t \notin Bytes(s, a)
            BY <1>1 DEF Bytes
        <3> QED BY <1>1, <2>1, <3>1 DEF Bytes
    <2>2. CASE t <= s
        <3>1. s \notin Bytes(t, b)
            BY <1>1 DEF Bytes
        <3> QED BY <1>1, <2>2, <3>1 DEF Bytes
    <2> QED BY <2>1, <2>2
<1>3. /\ Align(s) \in Int /\ Align(t) \in Int /\ Align(s + a) \in Int /\ Align(t + b) \in Int
      /\ s + a \in Int /\ t + b \in Int
    <2>1. s + a \in Int /\ t + b \in Int
        OBVIOUS
    <2> QED BY <2>1, AlignBounds
<1>4. Align(s) + Align(a) <= Align(s + a) /\ Align(t) + Align(b) <= Align(t + b)
    <2>1. \A m, n \in Int : Align(m) + Align(n) <= Align(m + n)
        BY AlignAdds
    <2>2. s \in Int /\ t \in Int
        OBVIOUS
    <2> QED BY <2>1, <2>2
<1>5. CASE s + a <= t
    <2>1. Align(s + a) <= Align(t)
        BY <1>3, <1>5, AlignMonotone
    <2> QED BY <1>3, <1>4, <2>1 DEF Bytes
<1>6. CASE t + b <= s
    <2>1. Align(t + b) <= Align(s)
        BY <1>3, <1>6, AlignMonotone
    <2> QED BY <1>3, <1>4, <2>1 DEF Bytes
<1> QED BY <1>2, <1>5, <1>6

\* No two entries start at one byte.
LEMMA StartsDistinct ==
    ASSUME StoreOK, SoundTable(table, DiskSize), NEW p \in table, NEW q \in table, p.start = q.start
    PROVE  p = q
<1>1. p.start \in Nat /\ p.size \in Nat \ {0} /\ q.size \in Nat \ {0}
    BY EntryBytes DEF StoreOK
<1>2. p.start \in Extent(p) /\ p.start \in Extent(q)
    BY <1>1 DEF Extent, Bytes
<1> QED BY <1>2 DEF SoundTable

LEMMA ApartSlots == ApartInv => SlotsDistinct
BY DEF ApartInv, SoundTable, SlotsDistinct

\* Two items that shrink an entry in place are one.
LEMMA OneShrink ==
    ASSUME ApartInv, pc = "shrinkPartitions", NEW p \in table, NEW k \in Shrinks(p)
    PROVE  ShrunkEntry(p) = [p EXCEPT !.size = Align(Plan[k].target.size)]
<1>1. Items = Plan
    BY DEF Items
<1>2. \A m \in Shrinks(p) : m = k
    BY <1>1 DEF Shrinks, ApartInv, ItemsDistinct
<1>3. k \in Nat
    <2>1. DOMAIN Plan \subseteq Nat
        BY DEF Plan
    <2> QED BY <2>1 DEF Shrinks
<1>4. k = CHOOSE n \in Shrinks(p) : \A m \in Shrinks(p) : m <= n
    <2>1. \A m \in Shrinks(p) : m <= k
        BY <1>2, <1>3
    <2> QED BY <1>2, <2>1
<1> QED BY <1>4 DEF ShrunkEntry

\* Every item but the shrunk one keeps at least its size, and that one keeps a
\* megabyte, so the account of space holds when the table is written.
LEMMA SpaceHolds ==
    ASSUME TypeInv, ApartInv, pc = "shrinkPartitions"
    PROVE  \A k \in Grown : PlacedApart(k)
<1>1. LocalsTypeOK /\ InStep /\ Len(resizes) = Len(todo) /\ ShrinksChecked /\ Items = Plan
    BY TypeParts DEF RunOK, ItemsCurrent, BeforeTableWrites, ApartInv, PlanComplete, Items
<1>2. resizes \in Seq(Item) /\ todo \in Seq(Item) /\ DOMAIN todo = DOMAIN resizes
    BY <1>1 DEF LocalsTypeOK
<1>3. \A k \in DOMAIN resizes :
        resizes[k].original = todo[k].original /\ resizes[k].target.size = todo[k].target.size
    BY <1>1 DEF InStep
<1>4. \A k \in DOMAIN resizes : Len(done) + k \in DOMAIN Plan /\ Plan[Len(done) + k] = resizes[k]
    BY <1>1, PlanParts
<1>5. OncePerPartition
    <2> SUFFICES ASSUME NEW k \in DOMAIN resizes, NEW m \in DOMAIN resizes, k # m
                 PROVE  resizes[k].original # resizes[m].original
        BY <1>2, <1>3 DEF OncePerPartition
    <2>1. Len(done) + k # Len(done) + m
        BY <1>1, <1>2 DEF LocalsTypeOK
    <2>2. Plan[Len(done) + k].original.number # Plan[Len(done) + m].original.number
        BY <1>1, <1>4, <2>1 DEF ApartInv, ItemsDistinct
    <2> QED BY <1>4, <2>2
<1>6. ShrinkLeavesRoom
    <2> SUFFICES ASSUME NEW k \in DOMAIN resizes PROVE resizes[k].target.size >= 1
        BY <1>2, <1>3 DEF ShrinkLeavesRoom
    <2>1. resizes[k].target.size \in Int /\ resizes[k].original.size \in Nat \ {0}
        BY <1>2, ItemFields
    <2>2. CASE InPlace(resizes[k])
        <3>1. resizes[k].target.size >= MB
            BY <1>1, <1>4, <2>2 DEF ShrinksChecked, AfterShrinks
        <3> QED BY <2>1, <3>1, MegabyteIsPositive
    <2>3. CASE ~InPlace(resizes[k])
        BY <2>1, <2>3 DEF InPlace
    <2> QED BY <2>2, <2>3
<1> QED BY <1>5, <1>6 DEF ApartInv, SpaceAccounted, BeforeTableWrites

\* What a shrunk entry covers is left of it, and only its size changes.
LEMMA ShrunkFits ==
    ASSUME TypeInv, ApartInv, pc = "shrinkPartitions", NEW p \in table
    PROVE  /\ Extent(ShrunkEntry(p)) \subseteq Remaining(p)
           /\ ShrunkEntry(p).size <= p.size
           /\ ShrunkEntry(p).number = p.number /\ ShrunkEntry(p).start = p.start
           /\ ShrunkEntry(p).guid = p.guid /\ ShrunkEntry(p).name = p.name
           /\ ShrunkEntry(p).type = p.type /\ ShrunkEntry(p).attributes = p.attributes
<1>1. StoreOK /\ LocalsTypeOK /\ Items = Plan
    BY TypeParts DEF RunOK, Items
<1>2. p \in Entry /\ p.start \in Nat /\ p.size \in Nat \ {0}
    BY <1>1, EntryBytes DEF StoreOK
<1>3. PICK n \in Nat \ {0} : ShrunkEntry(p) = [p EXCEPT !.size = n]
    BY ShrunkEntryIs, ApartSlots
<1>4. ShrunkEntry(p).size = n /\ n <= p.size
    <2>1. ShrunkEntry(p).size <= p.size
        BY ShrunkEntryIs, ApartSlots
    <2> QED BY <1>2, <1>3, <2>1 DEF Entry
<1>5. /\ ShrunkEntry(p).number = p.number /\ ShrunkEntry(p).start = p.start
      /\ ShrunkEntry(p).guid = p.guid /\ ShrunkEntry(p).name = p.name
      /\ ShrunkEntry(p).type = p.type /\ ShrunkEntry(p).attributes = p.attributes
    BY <1>2, <1>3 DEF Entry
<1>6. ASSUME NEW b \in Extent(ShrunkEntry(p))
      PROVE  b \in Remaining(p)
    <2>1. b \in Int /\ p.start <= b /\ b < p.start + n
        BY <1>2, <1>4, <1>5 DEF Extent, Bytes
    <2>2. b \in Extent(p)
        BY <1>2, <1>4, <2>1 DEF Extent, Bytes
    <2>3. ASSUME NEW m \in DOMAIN resizes, InPlace(resizes[m]), resizes[m].original = Data(p)
          PROVE  b < p.start + resizes[m].target.size
        <3> DEFINE k == Len(done) + m
        <3>1. k \in DOMAIN Plan /\ Plan[k] = resizes[m]
            BY <1>1, PlanParts
        <3>2. resizes[m] \in Item
            BY <1>1 DEF LocalsTypeOK
        <3> HIDE DEF k
        <3>3. k \in Shrinks(p)
            BY <2>3, <3>1 DEF Shrinks, Data
        <3>4. n = Align(resizes[m].target.size)
            <4>1. ShrunkEntry(p) = [p EXCEPT !.size = Align(Plan[k].target.size)]
                BY <3>3, OneShrink
            <4> QED BY <1>2, <1>4, <3>1, <4>1 DEF Entry
        <3>5. resizes[m].target.size \in Int
            BY <3>2, ItemFields
        <3>6. n <= resizes[m].target.size
            BY <3>4, <3>5, AlignBounds
        <3> QED BY <1>2, <2>1, <3>5, <3>6
    <2> QED BY <2>2, <2>3 DEF Remaining
<1> QED BY <1>2, <1>4, <1>5, <1>6

LEMMA ApartShrunk ==
    ASSUME TypeInv, ApartInv, pc = "shrinkPartitions", table' = {ShrunkEntry(p) : p \in table},
           UNCHANGED origin
    PROVE  SoundTable(table, DiskSize)' /\ FreshBySlot'
<1>1. \A p \in table : p.start \in Nat /\ p.size \in Nat \ {0} /\ p.start + p.size <= DiskSize
    BY TypeParts, EntryBytes DEF StoreOK
<1>2. \A p \in table : ShrunkEntry(p).size \in Nat \ {0}
    BY ShrunkEntryIs, ApartSlots DEF Entry
<1>3. ASSUME NEW p \in table PROVE ShrunkEntry(p).start + ShrunkEntry(p).size <= DiskSize
    <2>1. ShrunkEntry(p).start = p.start /\ ShrunkEntry(p).size <= p.size
        BY ShrunkFits
    <2> QED BY <1>1, <1>2, <2>1, SizeAssumption
<1>4. ASSUME NEW p \in table, NEW q \in table, ShrunkEntry(p) # ShrunkEntry(q)
      PROVE  /\ Extent(ShrunkEntry(p)) \cap Extent(ShrunkEntry(q)) = {}
             /\ ShrunkEntry(p).number # ShrunkEntry(q).number
             /\ ShrunkEntry(p).guid # ShrunkEntry(q).guid
    <2>1. Extent(p) \cap Extent(q) = {} /\ p.number # q.number /\ p.guid # q.guid
        BY <1>4 DEF ApartInv, SoundTable
    <2>2. Extent(ShrunkEntry(p)) \subseteq Extent(p) /\ Extent(ShrunkEntry(q)) \subseteq Extent(q)
        BY ShrunkFits DEF Remaining
    <2> QED BY <2>1, <2>2, ShrunkFits
<1>5. SoundTable(table, DiskSize)'
    BY <1>3, <1>4 DEF SoundTable
<1>6. Ids' = Ids
    BY DEF Ids
<1>7. FreshBySlot'
    BY <1>6, ShrunkFits DEF FreshBySlot, ApartInv
<1> QED BY <1>5, <1>7

\* shrinkPartitions writes every entry as it shrinks, if any does.
LEMMA ShrinkWrites == ASSUME ShrinkPartitions PROVE table' = {ShrunkEntry(p) : p \in table}
<1>1. CASE \E p \in table : Shrinks(p) # {}
    BY <1>1 DEF ShrinkPartitions, Commit
<1>2. CASE ~\E p \in table : Shrinks(p) # {}
    <2>1. table' = table
        BY <1>2 DEF ShrinkPartitions
    <2>2. \A p \in table : ShrunkEntry(p) = p
        BY <1>2 DEF ShrunkEntry
    <2> QED BY <2>1, <2>2
<1> QED BY <1>1, <1>2

LEMMA ApartShrinkPartitions == ASSUME TypeInv, ApartInv, ShrinkPartitions PROVE ApartInv'
<1>1. pc = "shrinkPartitions" /\ UNCHANGED <<origin, req>>
    BY DEF ShrinkPartitions, environment
<1>2. table' = {ShrunkEntry(p) : p \in table}
    BY ShrinkWrites
<1>3. SoundTable(table, DiskSize)' /\ FreshBySlot'
    BY <1>1, <1>2, ApartShrunk
<1>4. Exit \/ Restart("createPartitions")
    BY DEF ShrinkPartitions, Commit
<1>5. CASE Exit
    BY <1>3, <1>5, ApartExited
<1>6. CASE Restart("createPartitions")
    <2>1. /\ pc' = "createPartitions" /\ UNCHANGED <<done, todo, free, taken, resizes>>
          /\ Plan' = Plan /\ Items' = Plan /\ Items = Plan /\ Grown' = Grown /\ Ids' = Ids
        BY <1>1, <1>6 DEF Restart, Plan, Items, Grown, Ids
    <2>2. /\ NothingHeld' /\ ItemsDistinct' /\ ItemsRequested' /\ PlanComplete'
          /\ (pc \in BeforeTableWrites => SpaceAccounted)'
        BY <2>1 DEF ApartInv, NothingHeld, ItemsDistinct, ItemsRequested, PlanComplete, BeforeTableWrites
    <2>3. SourcesOriginal'
        BY <1>1, <1>2, <2>1, ShrunkFits DEF ApartInv, SourcesOriginal
    <2>4. DoneThere'
        <3> SUFFICES ASSUME NEW k \in DOMAIN done
                     PROVE  \E p, q \in table' :
                        /\ p.number = done[k].original.number
                        /\ q.number = done[k].target.number
                        /\ q.start = done[k].target.start
                        /\ q.name = Alternate(p.name)
            BY <2>1 DEF DoneThere
        <3>1. PICK p, q \in table :
                /\ p.number = done[k].original.number
                /\ q.number = done[k].target.number
                /\ q.start = done[k].target.start
                /\ q.name = Alternate(p.name)
            BY DEF ApartInv, DoneThere
        <3>2. ShrunkEntry(p) \in table' /\ ShrunkEntry(q) \in table'
            BY <1>2
        <3>3. /\ ShrunkEntry(p).number = p.number /\ ShrunkEntry(p).name = p.name
              /\ ShrunkEntry(q).number = q.number /\ ShrunkEntry(q).start = q.start
              /\ ShrunkEntry(q).name = q.name
            BY <1>1, ShrunkFits
        <3> QED BY <3>1, <3>2, <3>3
    <2>5. PlacesClear'
        <3> SUFFICES ASSUME NEW k \in Grown
                     PROVE  /\ \A p \in table' : /\ Extent(resizes[k].target) \cap Extent(p) = {}
                                                 /\ resizes[k].target.number # p.number
                            /\ \A m \in Grown \ {k} :
                                /\ Extent(resizes[k].target) \cap Extent(resizes[m].target) = {}
                                /\ resizes[k].target.number # resizes[m].target.number
            BY <2>1 DEF PlacesClear
        <3>1. PlacedApart(k)
            BY <1>1, SpaceHolds
        <3>2. ASSUME NEW p \in table
              PROVE  /\ Extent(resizes[k].target) \cap Extent(ShrunkEntry(p)) = {}
                     /\ resizes[k].target.number # ShrunkEntry(p).number
            <4>1. Extent(ShrunkEntry(p)) \subseteq Remaining(p) /\ ShrunkEntry(p).number = p.number
                BY <1>1, ShrunkFits
            <4> QED BY <3>1, <4>1 DEF PlacedApart
        <3> QED BY <1>2, <3>1, <3>2 DEF PlacedApart
    <2> QED BY <1>3, <2>2, <2>3, <2>4, <2>5 DEF ApartInv
<1> QED BY <1>4, <1>5, <1>6
-----------------------------------------------------------------------------
\* Only items without a copy get an entry, each in the place laid out for it.
LEMMA CreatedAt ==
    ASSUME TypeInv, ApartInv, pc = "createPartitions",
           NEW p \in table, NEW k \in Moved, p.number = Plan[k].original.number, ~HasAlternate(p)
    PROVE  \E m \in Grown : Plan[k] = resizes[m]
<1>1. LocalsTypeOK
    BY TypeParts DEF RunOK
<1>2. k \notin DOMAIN done
    <2> SUFFICES ASSUME k \in DOMAIN done PROVE FALSE
        OBVIOUS
    <2>1. Plan[k] = done[k]
        BY <1>1, PlanParts
    <2>2. PICK x, q \in table : x.number = done[k].original.number /\ q.name = Alternate(x.name)
        BY DEF ApartInv, DoneThere
    <2>3. x = p
        BY <2>1, <2>2 DEF ApartInv, SoundTable
    <2> QED BY <2>2, <2>3 DEF HasAlternate
<1> QED BY <1>2, MovedTarget DEF AfterShrinks

\* The parts of a new entry that keep it apart.
LEMMA NewEntryParts ==
    ASSUME NEW p, NEW item
    PROVE  /\ NewEntry(p, item).number = item.target.number
           /\ NewEntry(p, item).start = Align(item.target.start)
           /\ NewEntry(p, item).size = Align(item.target.size)
           /\ NewEntry(p, item).guid = <<"fresh", item.target.number>>
BY DEF NewEntry

\* A GUID a disk starts with is not a generated one.
LEMMA IdsAreOriginal == ASSUME StoreOK PROVE \A n : <<"fresh", n>> \notin Ids
<1>1. Ids \subseteq {"original"} \X Nat
    BY FilesystemAssumption DEF StoreOK, Ids
<1> QED BY <1>1

\* A new entry and one that is there are apart.
LEMMA NewFromOld ==
    ASSUME TypeInv, ApartInv, pc = "createPartitions", NEW q \in table,
           NEW p \in table, NEW m \in Grown, NEW k \in Moved, Plan[k] = resizes[m]
    PROVE  LET e == NewEntry(p, resizes[m]) IN
           /\ Extent(e) \cap Extent(q) = {}
           /\ e.number # q.number
           /\ e.guid # q.guid
<1> DEFINE t == resizes[m].target
           e == NewEntry(p, resizes[m])
<1>1. StoreOK
    BY TypeParts
<1>2. /\ t.number \in Nat \ {0} /\ t.start \in Nat /\ t.size \in Int /\ Align(t.size) \in Nat \ {0}
    <2>1. Plan[k] \in Item /\ Plan[k].target.number \in Nat \ {0} /\ Plan[k].target.start \in Nat
          /\ Align(Plan[k].target.size) \in Nat \ {0}
        BY MovedTarget DEF AfterShrinks
    <2> QED BY <2>1, ItemFields
<1>3. q.start \in Nat /\ q.size \in Nat \ {0} /\ Align(q.start) = q.start /\ Align(q.size) = q.size
    BY <1>1, EntryOnDisk DEF StoreOK, TableOK
<1>4. Extent(t) \cap Extent(q) = {} /\ t.number # q.number
    BY DEF ApartInv, PlacesClear
<1>5. Bytes(Align(t.start), Align(t.size)) \cap Bytes(Align(q.start), Align(q.size)) = {}
    BY <1>2, <1>3, <1>4, AlignedApart DEF Extent
<1>6. /\ e.number = t.number /\ e.start = Align(t.start) /\ e.size = Align(t.size)
      /\ e.guid = <<"fresh", t.number>>
    BY NewEntryParts
<1>7. e.guid # q.guid
    <2>1. q.guid \in Ids \/ q.guid = <<"fresh", q.number>>
        BY DEF ApartInv, FreshBySlot
    <2> QED BY <1>1, <1>4, <1>6, <2>1, IdsAreOriginal
<1> HIDE DEF t, e
<1> QED BY <1>3, <1>4, <1>5, <1>6, <1>7 DEF Extent, e

\* And so are two new ones.
LEMMA NewFromNew ==
    ASSUME TypeInv, ApartInv, pc = "createPartitions", NEW p \in table, NEW q \in table,
           NEW m \in Grown, NEW k \in Moved, Plan[k] = resizes[m],
           NEW n \in Grown, NEW j \in Moved, Plan[j] = resizes[n], m # n
    PROVE  LET e == NewEntry(p, resizes[m])
               f == NewEntry(q, resizes[n])
           IN /\ Extent(e) \cap Extent(f) = {}
              /\ e.number # f.number
              /\ e.guid # f.guid
<1> DEFINE t == resizes[m].target
           u == resizes[n].target
           e == NewEntry(p, resizes[m])
           f == NewEntry(q, resizes[n])
<1>1. /\ t.start \in Nat /\ t.size \in Int /\ Align(t.size) \in Nat \ {0}
      /\ u.start \in Nat /\ u.size \in Int /\ Align(u.size) \in Nat \ {0}
    <2>1. \A x \in Moved : Plan[x] \in Item /\ Plan[x].target.start \in Nat
                           /\ Align(Plan[x].target.size) \in Nat \ {0}
        BY MovedTarget DEF AfterShrinks
    <2> QED BY <2>1, ItemFields
<1>2. Extent(t) \cap Extent(u) = {} /\ t.number # u.number
    BY DEF ApartInv, PlacesClear
<1>3. Bytes(Align(t.start), Align(t.size)) \cap Bytes(Align(u.start), Align(u.size)) = {}
    BY <1>1, <1>2, AlignedApart DEF Extent
<1>4. /\ e.number = t.number /\ e.start = Align(t.start) /\ e.size = Align(t.size)
      /\ e.guid = <<"fresh", t.number>>
      /\ f.number = u.number /\ f.start = Align(u.start) /\ f.size = Align(u.size)
      /\ f.guid = <<"fresh", u.number>>
    BY NewEntryParts
<1> HIDE DEF t, u, e, f
<1> QED BY <1>2, <1>3, <1>4 DEF Extent, e, f

\* The entries after createPartitions.
LEMMA CreatedIs ==
    ASSUME TypeInv, ApartInv, CreatePartitions, NEW e \in table'
    PROVE  \/ e \in table
           \/ \E m \in Grown : \E k \in Moved : \E p \in table :
                /\ Plan[k] = resizes[m]
                /\ p.number = resizes[m].original.number
                /\ ~HasAlternate(p)
                /\ e = NewEntry(p, resizes[m])
<1>1. pc = "createPartitions"
    BY DEF CreatePartitions
<1>2. CASE e \notin table
    <2>1. PICK x \in table \X Moved :
            x[1].number = Plan[x[2]].original.number /\ ~HasAlternate(x[1]) /\ e = NewEntry(x[1], Plan[x[2]])
        BY <1>2 DEF CreatePartitions, Commit
    <2>2. x[1] \in table /\ x[2] \in Moved
        OBVIOUS
    <2>3. PICK m \in Grown : Plan[x[2]] = resizes[m]
        BY <1>1, <2>1, <2>2, CreatedAt
    <2> QED BY <2>1, <2>2, <2>3
<1> QED BY <1>2

LEMMA ApartCreated ==
    ASSUME TypeInv, ApartInv, CreatePartitions
    PROVE  SoundTable(table, DiskSize)' /\ FreshBySlot'
<1>1. pc = "createPartitions" /\ origin' = origin /\ Ids' = Ids
    BY DEF CreatePartitions, environment, Ids
<1>2. TableOK'
    <2> DEFINE new == {x \in table \X Moved :
                        x[1].number = Plan[x[2]].original.number /\ ~HasAlternate(x[1])}
    <2>1. table' = table \cup {NewEntry(x[1], Plan[x[2]]) : x \in new}
        BY DEF CreatePartitions, Commit
    <2>2. new \in SUBSET (table \X Moved)
        OBVIOUS
    <2> HIDE DEF new
    <2> QED BY <1>1, <2>1, <2>2, CreatedTableOK
<1>3. \A p \in table' : p.start + p.size <= DiskSize
    BY <1>2 DEF TableOK, TableOnDisk
<1>4. ASSUME NEW e \in table', NEW f \in table', e # f
      PROVE  Extent(e) \cap Extent(f) = {} /\ e.number # f.number /\ e.guid # f.guid
    <2>1. CASE e \in table /\ f \in table
        BY <1>4, <2>1 DEF ApartInv, SoundTable
    <2>2. CASE e \notin table
        <3>1. PICK m \in Grown, k \in Moved, p \in table :
                /\ Plan[k] = resizes[m] /\ p.number = resizes[m].original.number
                /\ e = NewEntry(p, resizes[m])
            BY <2>2, CreatedIs
        <3>2. CASE f \in table
            BY <1>1, <3>1, <3>2, NewFromOld
        <3>3. CASE f \notin table
            <4>1. PICK n \in Grown, j \in Moved, q \in table :
                    /\ Plan[j] = resizes[n] /\ q.number = resizes[n].original.number
                    /\ f = NewEntry(q, resizes[n])
                BY <3>3, CreatedIs
            <4>2. m # n
                <5> SUFFICES ASSUME m = n PROVE FALSE
                    OBVIOUS
                <5>1. p = q
                    BY <3>1, <4>1 DEF ApartInv, SoundTable
                <5> QED BY <1>4, <3>1, <4>1, <5>1
            <4> QED BY <1>1, <3>1, <4>1, <4>2, NewFromNew
        <3> QED BY <3>2, <3>3
    <2>3. CASE e \in table /\ f \notin table
        <3>1. PICK m \in Grown, k \in Moved, p \in table :
                /\ Plan[k] = resizes[m] /\ p.number = resizes[m].original.number
                /\ f = NewEntry(p, resizes[m])
            BY <2>3, CreatedIs
        <3>2. Extent(f) \cap Extent(e) = {} /\ f.number # e.number /\ f.guid # e.guid
            BY <1>1, <2>3, <3>1, NewFromOld
        <3> QED BY <3>2
    <2> QED BY <2>1, <2>2, <2>3
<1>5. FreshBySlot'
    <2> SUFFICES ASSUME NEW e \in table' PROVE e.guid \in Ids \/ e.guid = <<"fresh", e.number>>
        BY <1>1 DEF FreshBySlot
    <2> QED BY CreatedIs, NewEntryParts DEF ApartInv, FreshBySlot
<1> QED BY <1>3, <1>4, <1>5 DEF SoundTable

LEMMA ApartCreatePartitions == ASSUME TypeInv, ApartInv, CreatePartitions PROVE ApartInv'
<1>1. pc = "createPartitions" /\ UNCHANGED <<origin, req>> /\ table \subseteq table'
    BY DEF CreatePartitions, environment, Commit
<1>2. SoundTable(table, DiskSize)' /\ FreshBySlot'
    BY ApartCreated
<1>3. Exit \/ Restart("copyFilesystems")
    BY DEF CreatePartitions, Commit
<1>4. CASE Exit
    BY <1>2, <1>4, ApartExited
<1>5. CASE Restart("copyFilesystems")
    <2>1. /\ pc' = "copyFilesystems" /\ UNCHANGED <<done, todo, free, taken, resizes>>
          /\ Plan' = Plan /\ Items' = Plan /\ Items = Plan /\ Ids' = Ids
        BY <1>1, <1>5 DEF Restart, Plan, Items, Ids
    <2>2. /\ NothingHeld' /\ ItemsDistinct' /\ ItemsRequested' /\ PlanComplete' /\ PlacesClear'
          /\ (pc \in BeforeTableWrites => SpaceAccounted)'
        BY <2>1 DEF ApartInv, NothingHeld, ItemsDistinct, ItemsRequested, PlanComplete,
            BeforeTableWrites, PlacesClear
    <2>3. DoneThere'
        BY <1>1, <2>1 DEF ApartInv, DoneThere
    <2>4. SourcesOriginal'
        <3> SUFFICES ASSUME NEW k \in DOMAIN Plan, NEW e \in table', e.number = Plan[k].original.number
                     PROVE  e.guid \in Ids
            BY <2>1 DEF SourcesOriginal
        <3>1. PICK p \in table : p.number = Plan[k].original.number
            BY TypeParts DEF RunOK, SourcesKnown
        <3>2. e \in table
            <4>1. p \in table' /\ e.number = p.number
                BY <1>1, <3>1
            <4>2. e = p
                BY <1>2, <4>1 DEF SoundTable
            <4> QED BY <4>2
        <3> QED BY <2>1, <3>2 DEF ApartInv, SourcesOriginal
    <2> QED BY <1>2, <2>2, <2>3, <2>4 DEF ApartInv
<1> QED BY <1>3, <1>4, <1>5
-----------------------------------------------------------------------------
\* The entry an item's start leads to is the one its number names.
LEMMA SourceAt ==
    ASSUME TypeInv, ApartInv, NEW k \in DOMAIN Plan, NEW p \in table, p.start = Plan[k].original.start
    PROVE  p.number = Plan[k].original.number
<1>1. StoreOK /\ SoundTable(table, DiskSize) /\ SourcesKnown
    BY TypeParts DEF RunOK, ApartInv
<1>2. PICK x \in table : x.number = Plan[k].original.number /\ x.start = Plan[k].original.start
    BY <1>1 DEF SourcesKnown
<1>3. x = p
    BY <1>1, <1>2, StartsDistinct
<1> QED BY <1>2, <1>3

\* A relocated entry gets the identity of its own item's original, which is one
\* of those that go.
LEMMA IdentityFrom ==
    ASSUME TypeInv, ApartInv, pc = "updatePartitions", NEW q \in table, MovedTo(q) # {}
    PROVE  \E k \in MovedTo(q), p \in table :
              /\ k \in DOMAIN Plan
              /\ p.number = Plan[k].original.number
              /\ Superseded(p)
              /\ p.guid \in Ids
              /\ FinalEntry(q).guid = p.guid
              /\ FinalEntry(q).number = IF req.preserveNumbers THEN p.number ELSE q.number
<1>1. PICK k \in MovedTo(q) :
        /\ OriginalAt(k) \in table
        /\ OriginalAt(k).start = Plan[k].original.start
        /\ Align(Plan[k].original.start) = Plan[k].original.start
        /\ FinalEntry(q) = Identified(q, OriginalAt(k), k)
    BY FinalEntryIs
<1> DEFINE p == OriginalAt(k)
<1> HIDE DEF p
<1>2. k \in DOMAIN Plan /\ k \in Moved
    BY DEF MovedTo, Moved
<1>3. p \in table /\ p.start = Plan[k].original.start
    BY <1>1 DEF p
<1>4. p.number = Plan[k].original.number
    BY <1>2, <1>3, SourceAt
<1>5. Superseded(p)
    BY <1>1, <1>2, <1>3 DEF Superseded
<1>6. Items = Plan
    BY DEF Items
<1>7. p.guid \in Ids
    BY <1>2, <1>3, <1>4, <1>6 DEF ApartInv, SourcesOriginal
<1>8. q \in Entry
    BY TypeParts DEF StoreOK, TableOK
<1>9. /\ FinalEntry(q).guid = p.guid
      /\ FinalEntry(q).number = IF req.preserveNumbers THEN p.number ELSE q.number
    BY <1>1, <1>4, <1>8 DEF Identified, Entry, p
<1> QED BY <1>2, <1>3, <1>4, <1>5, <1>7, <1>9

LEMMA ApartFinal ==
    ASSUME TypeInv, ApartInv, UpdatePartitions
    PROVE  SoundTable(table, DiskSize)' /\ FreshBySlot'
<1> DEFINE kept == {q \in table : ~Superseded(q)}
<1>1. /\ pc = "updatePartitions" /\ origin' = origin /\ Ids' = Ids
      /\ table' = {FinalEntry(q) : q \in kept}
    BY DEF UpdatePartitions, Commit, environment, Ids
<1>2. Items = Plan
    BY <1>1 DEF Items
<1>3. \A q \in table : FinalEntry(q).start = q.start /\ FinalEntry(q).size = q.size
    BY FinalEntryIs
<1>4. \A e \in table' : e.start + e.size <= DiskSize
    BY <1>1, <1>3 DEF ApartInv, SoundTable
<1>5. \A q \in table : MovedTo(q) = {} => FinalEntry(q) = q
    BY DEF FinalEntry
<1>6. ASSUME NEW q \in kept, NEW r \in kept, MovedTo(q) # {}, q # r
      PROVE  FinalEntry(q).number # FinalEntry(r).number /\ FinalEntry(q).guid # FinalEntry(r).guid
    <2>1. PICK k \in MovedTo(q), p \in table :
            /\ k \in DOMAIN Plan
            /\ p.number = Plan[k].original.number
            /\ Superseded(p)
            /\ p.guid \in Ids
            /\ FinalEntry(q).guid = p.guid
            /\ FinalEntry(q).number = IF req.preserveNumbers THEN p.number ELSE q.number
        BY <1>1, <1>6, IdentityFrom
    <2>2. q.number # r.number
        BY <1>6 DEF ApartInv, SoundTable
    <2>3. CASE MovedTo(r) = {}
        <3>1. p # r
            BY <2>1
        <3>2. p.number # r.number /\ p.guid # r.guid
            BY <2>1, <3>1 DEF ApartInv, SoundTable
        <3>3. FinalEntry(r) = r
            BY <1>5, <2>3
        <3> QED BY <2>1, <2>2, <3>2, <3>3
    <2>4. CASE MovedTo(r) # {}
        <3>1. PICK m \in MovedTo(r), x \in table :
                /\ m \in DOMAIN Plan
                /\ x.number = Plan[m].original.number
                /\ FinalEntry(r).guid = x.guid
                /\ FinalEntry(r).number = IF req.preserveNumbers THEN x.number ELSE r.number
            BY <1>1, <2>4, IdentityFrom
        <3>2. k # m
            <4>1. StoreOK /\ q.start # r.start
                BY <1>6, TypeParts, StartsDistinct DEF ApartInv
            <4> QED BY <4>1 DEF MovedTo
        <3>3. p.number # x.number
            BY <1>2, <2>1, <3>1, <3>2 DEF ApartInv, ItemsDistinct
        <3>4. p.guid # x.guid
            BY <2>1, <3>1, <3>3 DEF ApartInv, SoundTable
        <3> QED BY <2>1, <2>2, <3>1, <3>3, <3>4
    <2> QED BY <2>3, <2>4
<1>7. ASSUME NEW q \in kept, NEW r \in kept, FinalEntry(q) # FinalEntry(r)
      PROVE  /\ Extent(FinalEntry(q)) \cap Extent(FinalEntry(r)) = {}
             /\ FinalEntry(q).number # FinalEntry(r).number
             /\ FinalEntry(q).guid # FinalEntry(r).guid
    <2>1. q # r
        BY <1>7
    <2>2. Extent(FinalEntry(q)) = Extent(q) /\ Extent(FinalEntry(r)) = Extent(r)
        BY <1>3 DEF Extent
    <2>3. Extent(q) \cap Extent(r) = {}
        BY <2>1 DEF ApartInv, SoundTable
    <2>4. FinalEntry(q).number # FinalEntry(r).number /\ FinalEntry(q).guid # FinalEntry(r).guid
        <3>1. CASE MovedTo(q) = {} /\ MovedTo(r) = {}
            BY <1>5, <2>1, <3>1 DEF ApartInv, SoundTable
        <3>2. CASE MovedTo(q) # {}
            BY <1>6, <2>1, <3>2
        <3>3. CASE MovedTo(r) # {}
            <4>1. FinalEntry(r).number # FinalEntry(q).number /\ FinalEntry(r).guid # FinalEntry(q).guid
                BY <1>6, <2>1, <3>3
            <4> QED BY <4>1
        <3> QED BY <3>1, <3>2, <3>3
    <2> QED BY <2>2, <2>3, <2>4
<1>8. SoundTable(table, DiskSize)'
    BY <1>1, <1>4, <1>7 DEF SoundTable
<1>9. FreshBySlot'
    <2> SUFFICES ASSUME NEW q \in kept
                 PROVE  FinalEntry(q).guid \in Ids \/ FinalEntry(q).guid = <<"fresh", FinalEntry(q).number>>
        BY <1>1 DEF FreshBySlot
    <2>1. CASE MovedTo(q) = {}
        BY <1>5, <2>1 DEF ApartInv, FreshBySlot
    <2>2. CASE MovedTo(q) # {}
        BY <1>1, <2>2, IdentityFrom
    <2> QED BY <2>1, <2>2
<1> QED BY <1>8, <1>9

LEMMA ApartUpdatePartitions == ASSUME TypeInv, ApartInv, UpdatePartitions PROVE ApartInv'
<1>1. Exit
    BY DEF UpdatePartitions, Commit
<1> QED BY <1>1, ApartFinal, ApartExited
-----------------------------------------------------------------------------
\* The steps that write no table: those that end a run,
LEMMA ApartEnds ==
    ASSUME ApartInv, Exit, UNCHANGED <<table, origin>>
    PROVE  ApartInv'
<1>1. SoundTable(table, DiskSize)' /\ FreshBySlot'
    BY DEF ApartInv, SoundTable, FreshBySlot, Ids
<1> QED BY <1>1, ApartExited

\* those of the checks and the filesystem shrinks, and those of the copies.
LEMMA ApartChecks ==
    ASSUME ApartInv,
           \/ Execute \/ NextPhase \/ Checking
           \/ KeepFilesystem \/ ShrinkRefused \/ ShrinkOnDevice \/ ShrinkWriteBack \/ ShrinkWrittenBack
    PROVE  ApartInv'
<1>1. /\ UNCHANGED <<table, origin, done, todo, free, taken, resizes>>
      /\ pc \notin {"off", "classify", "allocate"}
      /\ pc' \notin {"off", "classify", "allocate", "createPartitions"}
      /\ pc' \in BeforeTableWrites => pc \in BeforeTableWrites
    BY CheckingFrame DEF Execute, NextPhase, Loop, Restart, KeepFilesystem,
        ShrinkRefused, ShrinkOnDevice, ShrinkWriteBack, ShrinkWrittenBack, At, Advance, GoTo, locals,
        environment, BeforeTableWrites
<1> QED BY <1>1, ApartKept

LEMMA ApartCopies ==
    ASSUME ApartInv,
           \/ SkipUnmoved \/ SkipMatching \/ Format \/ Fill
           \/ StartRawCopy \/ FinishRawCopy \/ CopyUnsupported
    PROVE  ApartInv'
<1>1. /\ UNCHANGED <<table, origin, done, todo, free, taken, resizes>>
      /\ pc \notin {"off", "classify", "allocate"}
      /\ pc' \notin {"off", "classify", "allocate", "createPartitions"}
      /\ pc' \in BeforeTableWrites => pc \in BeforeTableWrites
    BY DEF SkipUnmoved, SkipMatching, Format, Fill, StartRawCopy, FinishRawCopy, CopyUnsupported,
        Copying, At, Advance, GoTo, locals, environment, BeforeTableWrites
<1> QED BY <1>1, ApartKept

\* As long as the request names each partition once, every step keeps the
\* entries apart.
LEMMA ApartNext ==
    ASSUME TypeInv, ApartInv, NamedOnce, [DiskNext]_vars
    PROVE  ApartInv'
<1>1. CASE Planning
    BY <1>1, ApartPlanning
<1>2. CASE Abort \/ DryRun \/ Interrupt
    BY <1>2, ApartEnds DEF Abort, DryRun, Interrupt, environment
<1>3. CASE \/ Execute \/ NextPhase \/ Checking
           \/ KeepFilesystem \/ ShrinkRefused \/ ShrinkOnDevice \/ ShrinkWriteBack \/ ShrinkWrittenBack
    BY <1>3, ApartChecks
<1>4. CASE ShrinkPartitions
    BY <1>4, ApartShrinkPartitions
<1>5. CASE CreatePartitions
    BY <1>5, ApartCreatePartitions
<1>6. CASE SkipUnmoved \/ SkipMatching \/ Format \/ Fill \/ StartRawCopy \/ FinishRawCopy \/ CopyUnsupported
    BY <1>6, ApartCopies
<1>7. CASE UpdatePartitions
    BY <1>7, ApartUpdatePartitions
<1>8. CASE OsWrites \/ ChangeRequest \/ UNCHANGED vars
    BY <1>8, ApartUntouched DEF OsWrites, ChangeRequest, vars, plannerVars, environment, locals
<1> QED BY <1>1, <1>2, <1>3, <1>4, <1>5, <1>6, <1>7, <1>8 DEF DiskNext, Run, Checking
-----------------------------------------------------------------------------
\* shrinkPartitions, createPartitions and updatePartitions write the table
\* between them, and a run may stop after each: on every disk the entries stay
\* apart through all runs of all requests that name each partition once.
THEOREM EntriesStayApart == DiskSpec /\ []NamedOnce => []EntriesApart
<1>1. DiskInit => TypeInv /\ ApartInv
    BY DiskTypeInit, ApartInit
<1>2. TypeInv /\ ApartInv /\ NamedOnce /\ [DiskNext]_vars => (TypeInv /\ ApartInv)'
    BY ApartSlots, DiskTypeNext, ApartNext
<1>3. TypeInv /\ ApartInv => EntriesApart
    BY DEF ApartInv, EntriesApart
<1> QED BY <1>1, <1>2, <1>3, PTL DEF DiskSpec

\* Nothing any of those runs does leaves the type invariant, either.
THEOREM DiskTypeWhenNamedOnce == DiskSpec /\ []NamedOnce => []DiskTypeOK
<1>1. DiskInit => TypeInv /\ ApartInv
    BY DiskTypeInit, ApartInit
<1>2. TypeInv /\ ApartInv /\ NamedOnce /\ [DiskNext]_vars => (TypeInv /\ ApartInv)'
    BY ApartSlots, DiskTypeNext, ApartNext
<1>3. TypeInv /\ ApartInv => DiskTypeOK
    BY DEF TypeInv
<1> QED BY <1>1, <1>2, <1>3, PTL DEF DiskSpec

-----------------------------------------------------------------------------

(***************************************************************************)
(* Identity.  Whatever a run is in the middle of, every partition is found *)
(* under its GUID with its own name, type and attributes, and the copies   *)
(* in the making are told apart from it, as long as each partition is      *)
(* named once and the labels tell the named ones and their copies apart.   *)
(***************************************************************************)

LEMMA InsertedLabels ==
    ASSUME NEW s \in Seq(Item), NEW t \in Seq(Item), NEW n, NEW e, Inserted(s, t, n, e),
           \A k, m \in DOMAIN s : k # m => s[k].original.label # s[m].original.label,
           \A k \in DOMAIN s : s[k].original.label # e.original.label
    PROVE  \A k, m \in DOMAIN t : k # m => t[k].original.label # t[m].original.label
<1> DEFINE old(k) == IF k < n THEN k ELSE k - 1
<1>1. n \in Nat
    BY DEF Inserted
<1>2. \A k \in DOMAIN t \ {n} : old(k) \in DOMAIN s /\ t[k] = s[old(k)]
    <2> SUFFICES ASSUME NEW k \in 1 .. Len(t), k # n
                 PROVE  old(k) \in DOMAIN s /\ t[k] = s[old(k)]
        OBVIOUS
    <2> QED BY <1>1 DEF Inserted
<1>3. \A k, m \in DOMAIN t \ {n} : k # m => old(k) # old(m)
    BY <1>1
<1>4. t[n] = e
    BY DEF Inserted
<1> HIDE DEF old
<1> QED BY <1>2, <1>3, <1>4

\* The identity a GUID had at first.
LEMMA BeforeIs ==
    ASSUME StoreOK, NEW p \in origin
    PROVE  Before(p.guid) = p /\ p.guid \in Ids
<1>1. \A q \in origin : q.guid = p.guid => q = p
    BY LayoutAssumption DEF StoreOK, SoundTable
<1> QED BY <1>1 DEF Before, Ids

LEMMA BeforeOf ==
    ASSUME StoreOK, NEW g \in Ids
    PROVE  Before(g) \in origin /\ Before(g).guid = g
BY BeforeIs DEF Ids
-----------------------------------------------------------------------------
\* A step of planning keeps the labels of the items apart.
LEMMA IdentityItems ==
    ASSUME TypeInv, ApartInv, IdentityInv, NamedOnce, LabelsApart, Planning
    PROVE  ItemNamesApart' /\ SourcesNamed'
<1>1. /\ Next /\ UNCHANGED <<table, req, origin>> /\ LocalsTypeOK /\ InStep
    BY NextFrame, TypeParts DEF Planning, environment, RunOK, ItemsCurrent, BeforeTableWrites
<1>2. TypeOK
    BY <1>1, NextFrame, TypeParts DEF TypeOK, StoreOK, TableOK
<1>3. TypeOK'
    BY <1>1, <1>2, TypeNext
<1>4. Items \in Seq(Item) /\ Items' \in Seq(Item)
    <2>1. done \o todo \in Seq(Item) /\ (done \o todo)' \in Seq(Item) /\ Plan' \in Seq(Item) /\ Plan \in Seq(Item)
        BY <1>2, <1>3 DEF TypeOK, LocalsTypeOK, Plan
    <2> QED BY <2>1 DEF Items
<1>5. CASE ItemsKept
    BY <1>1, <1>5 DEF ItemsKept, IdentityInv, ItemNamesApart, SourcesNamed
<1>6. ASSUME NEW p \in Chosen, pc \in {"classify", "allocate"}, p \in table, NewItem(p),
             \A k \in DOMAIN Items : \E q \in Chosen \ {p} : q \in table /\ Items[k].original = Data(q)
      PROVE  ItemNamesApart' /\ SourcesNamed'
    <2>1. PICK n \in Nat, e \in Item : e.original = Data(p) /\ Inserted(Items, Items', n, e)
        BY <1>6 DEF NewItem
    <2>2. e.original.label = p.name /\ e.original.number = p.number
        BY <2>1 DEF Data
    <2>3. \A k \in DOMAIN Items : Items[k].original.label # e.original.label
        <3>1. \A q \in Chosen \ {p} : q.name # p.name
            BY <1>6 DEF LabelsApart
        <3>2. \A q : Data(q).label = q.name
            BY DEF Data
        <3> QED BY <1>6, <2>2, <3>1, <3>2
    <2>4. ItemNamesApart'
        <3>1. \A k, m \in DOMAIN Items : k # m => Items[k].original.label # Items[m].original.label
            BY DEF IdentityInv, ItemNamesApart
        <3>2. \A k, m \in DOMAIN Items' : k # m => Items'[k].original.label # Items'[m].original.label
            BY <1>4, <2>1, <2>3, <3>1, InsertedLabels
        <3> QED BY <3>2 DEF ItemNamesApart
    <2>5. SourcesNamed'
        <3> SUFFICES ASSUME NEW k \in DOMAIN Items', NEW q \in table, q.number = Items'[k].original.number
                     PROVE  q.name = Items'[k].original.label
            BY <1>1 DEF SourcesNamed
        <3>1. CASE Items'[k] = e
            <4>1. q = p
                BY <1>6, <2>2, <3>1 DEF ApartInv, SoundTable
            <4> QED BY <2>2, <3>1, <4>1
        <3>2. CASE \E m \in DOMAIN Items : Items'[k] = Items[m]
            BY <3>2 DEF IdentityInv, SourcesNamed
        <3> QED BY <1>4, <2>1, <3>1, <3>2, InsertedIs
    <2> QED BY <2>4, <2>5
<1> QED BY <1>5, <1>6, PlannedItem

\* A copy an item is found to have is one, and is where the item says.
LEMMA IdentityDone ==
    ASSUME TypeInv, ApartInv, DoneAreCopies, LabelsApart, Planning
    PROVE  DoneAreCopies'
<1>1. Next /\ UNCHANGED <<table, req, origin>> /\ Ids' = Ids /\ LocalsTypeOK
    BY NextFrame, TypeParts DEF Planning, environment, RunOK, Ids
<1>2. CASE UNCHANGED done
    BY <1>1, <1>2 DEF DoneAreCopies
<1>3. CASE ReuseRelocated
    <2>1. PICK p \in table : \E alt \in LastNamed(table, Alternate(p.name)) :
            Classifying(p) /\ done' = Append(done, Existing(p, alt))
        BY <1>3 DEF ReuseRelocated
    <2>2. PICK alt \in LastNamed(table, Alternate(p.name)) :
            Classifying(p) /\ done' = Append(done, Existing(p, alt))
        BY <2>1
    <2> DEFINE e == Existing(p, alt)
    <2>3. alt \in table /\ alt.name = Alternate(p.name)
        BY DEF LastNamed
    <2>4. alt.guid \notin Ids
        <3>1. TypeOK
            BY <1>1, NextFrame, TypeParts DEF TypeOK, StoreOK, TableOK
        <3>2. i \in DOMAIN req.grows /\ p \in FirstMatch(table, req.grows[i]) /\ pc = "classify"
            BY <2>2, <3>1, NextGrow DEF Classifying
        <3>3. p \in Chosen
            BY <3>2, ChosenIs DEF Requested
        <3> QED BY <2>3, <3>2, <3>3 DEF LabelsApart
    <2>5. /\ e.target.number = alt.number /\ e.target.start = alt.start /\ e.target.size = alt.size
        BY DEF Existing
    <2>6. done \in Seq(Item) /\ done' = Append(done, e)
        BY <1>1, <2>2 DEF LocalsTypeOK
    <2> HIDE DEF e
    <2>7. \A k \in DOMAIN done' : done'[k] = e \/ (k \in DOMAIN done /\ done'[k] = done[k])
        BY <2>6
    <2>8. \A q \in table : q.number = alt.number => q = alt
        BY <2>3 DEF ApartInv, SoundTable
    <2> QED BY <1>1, <2>4, <2>5, <2>7, <2>8 DEF DoneAreCopies
<1>4. UNCHANGED done \/ ReuseRelocated
    BY <1>1 DEF Next, Discover, NotDiscovered, SkipSatisfied, QueuePending, Classifying, locals,
        NothingPending, FirstAttempt, BeginLayout, LayOutShrink, LayOutGrow, LayingOut, Settle, GiveSpace,
        LayoutComplete, RetryWithShrink, Retry, InsufficientSpace, GiveUp, NoRoom
<1> QED BY <1>2, <1>3, <1>4

LEMMA IdentityPlanning ==
    ASSUME TypeInv, ApartInv, IdentityInv, NamedOnce, LabelsApart, Planning
    PROVE  IdentityInv'
<1>1. /\ UNCHANGED <<table, origin>> /\ pc' \in {"classify", "allocate", "planned", "failed"}
      /\ Ids' = Ids
    BY NextFrame DEF Planning, environment, Ids
<1>2. IdentityKept'
    BY <1>1 DEF IdentityInv, IdentityKept, Before
<1>3. CopyTargets' /\ CopiesThere' /\ CopyingMoved'
    BY <1>1 DEF CopyTargets, CopiesThere, CopiedItems, CopyingMoved, WhileCopying
<1> QED BY <1>2, <1>3, IdentityItems, IdentityDone DEF IdentityInv
-----------------------------------------------------------------------------
LEMMA IdentityIdle == pc = "off" /\ InitLocals /\ IdentityKept => IdentityInv
<1> SUFFICES ASSUME pc = "off", InitLocals, IdentityKept PROVE IdentityInv
    OBVIOUS
<1>1. done = <<>> /\ Items = <<>>
    BY DEF InitLocals, Items
<1>2. ItemNamesApart /\ SourcesNamed /\ DoneAreCopies
    BY <1>1 DEF ItemNamesApart, SourcesNamed, DoneAreCopies
<1>3. CopyTargets /\ CopiesThere /\ CopyingMoved
    BY DEF CopyTargets, CopiesThere, CopiedItems, CopyingMoved, WhileCopying
<1> QED BY <1>2, <1>3 DEF IdentityInv

LEMMA IdentityExited == Exit /\ IdentityKept' => IdentityInv'
<1>1. Exit => (pc = "off" /\ InitLocals)'
    BY DEF Exit, InitLocals
<1> QED BY <1>1, IdentityIdle, PTL

LEMMA IdentityInit == DiskInit => IdentityInv
<1> SUFFICES ASSUME DiskInit PROVE IdentityInv
    OBVIOUS
<1>1. StoreOK /\ pc = "off" /\ InitLocals /\ table = origin
    BY DiskTypeInit, TypeParts DEF DiskInit, Init
<1>2. IdentityKept
    <2>1. \A q \in table : q.guid \in Ids
        BY <1>1 DEF Ids
    <2>2. \A g \in Ids : Before(g) \in table /\ Before(g).guid = g
        BY <1>1, BeforeOf
    <2> QED BY <2>1, <2>2 DEF IdentityKept
<1> QED BY <1>1, <1>2, IdentityIdle

\* A step that leaves the table and the plan alone after planning.
LEMMA IdentityStays ==
    ASSUME IdentityInv, UNCHANGED <<table, origin, done, todo, resizes>>,
           pc \notin {"off", "classify", "allocate"},
           pc' \notin {"off", "classify", "allocate"},
           pc' \in WhileCopying => pc \in WhileCopying,
           CopiesThere', CopyingMoved'
    PROVE  IdentityInv'
<1>1. Plan' = Plan /\ Items' = Plan /\ Items = Plan /\ Ids' = Ids /\ Moved' = Moved
    BY DEF Plan, Items, Ids, Moved
<1>2. IdentityKept'
    BY <1>1 DEF IdentityInv, IdentityKept, Before
<1>3. ItemNamesApart' /\ SourcesNamed' /\ DoneAreCopies'
    BY <1>1 DEF IdentityInv, ItemNamesApart, SourcesNamed, DoneAreCopies
<1>4. CopyTargets'
    BY <1>1 DEF IdentityInv, CopyTargets, Relocated
<1> QED BY <1>2, <1>3, <1>4 DEF IdentityInv

\* Or that changes neither the memory nor the table.
LEMMA IdentityUntouched ==
    ASSUME IdentityInv, UNCHANGED <<table, origin, pc, locals>>
    PROVE  IdentityInv'
<1>1. Plan' = Plan /\ Items' = Items /\ Ids' = Ids /\ Moved' = Moved
    BY DEF Plan, Items, Ids, Moved, locals
<1>2. IdentityKept'
    BY <1>1 DEF IdentityInv, IdentityKept, Before
<1>3. ItemNamesApart' /\ SourcesNamed' /\ DoneAreCopies'
    BY <1>1 DEF IdentityInv, ItemNamesApart, SourcesNamed, DoneAreCopies, locals
<1>4. CopyTargets' /\ CopiesThere' /\ CopyingMoved'
    BY <1>1 DEF IdentityInv, CopyTargets, CopiesThere, CopiedItems, CopyingMoved, Relocated, locals
<1> QED BY <1>2, <1>3, <1>4 DEF IdentityInv
-----------------------------------------------------------------------------
\* The steps before the table is written.
LEMMA IdentityChecks ==
    ASSUME IdentityInv,
           \/ Execute \/ Checking
           \/ KeepFilesystem \/ ShrinkRefused \/ ShrinkOnDevice \/ ShrinkWriteBack \/ ShrinkWrittenBack
           \/ NextPhase /\ pc # "copyFilesystems"
    PROVE  IdentityInv'
<1>1. /\ UNCHANGED <<table, origin, done, todo, resizes>>
      /\ pc \notin {"off", "classify", "allocate"}
      /\ pc' \notin {"off", "classify", "allocate"} \cup WhileCopying
    BY CheckingFrame DEF Execute, NextPhase, Loop, Restart, KeepFilesystem,
        ShrinkRefused, ShrinkOnDevice, ShrinkWriteBack, ShrinkWrittenBack, At, Advance, GoTo, locals,
        environment, WhileCopying
<1>2. CopiesThere' /\ CopyingMoved'
    BY <1>1 DEF CopiesThere, CopiedItems, CopyingMoved, WhileCopying
<1> QED BY <1>1, <1>2, IdentityStays

\* A step of copyFilesystems that has its current item's entry, if it has one,
\* leaves every item copied so far with one.
LEMMA CopiesThereNext ==
    ASSUME IdentityInv, LocalsTypeOK, UNCHANGED <<table, done, resizes>>,
           pc \in {"copyFilesystems", "fill", "rawCopy"},
           \/ i' = i /\ pc' \in {"fill", "rawCopy", "failed"}
           \/ /\ i' = i + 1 /\ pc' = "copyFilesystems"
              /\ i \in Moved => Relocated(Plan[i]) # {}
           \/ pc' = "updatePartitions" /\ i > Len(Plan)
    PROVE  CopiesThere'
<1>1. Plan' = Plan /\ Moved' = Moved /\ i \in Nat
    BY DEF Plan, Moved, LocalsTypeOK
<1>2. Moved \subseteq 1 .. Len(Plan) /\ Len(Plan) \in Nat
    BY PlanParts DEF Moved
<1>3. \A k \in CopiedItems' : k \in CopiedItems \/ (k = i /\ pc' = "copyFilesystems" /\ i' = i + 1)
    BY <1>1, <1>2 DEF CopiedItems, WhileCopying
<1>4. \A k \in Moved : Relocated(Plan[k])' = Relocated(Plan[k])
    BY <1>1 DEF Relocated
<1>5. CopiedItems' \subseteq Moved
    BY <1>1 DEF CopiedItems
<1>6. ASSUME NEW k \in CopiedItems' PROVE Relocated(Plan[k]) # {}
    <2>1. CASE k \in CopiedItems
        BY <2>1 DEF IdentityInv, CopiesThere
    <2>2. CASE k = i /\ pc' = "copyFilesystems"
        BY <1>5, <2>2
    <2> QED BY <1>3, <2>1, <2>2
<1> QED BY <1>1, <1>4, <1>5, <1>6 DEF CopiesThere

LEMMA IdentityCopies ==
    ASSUME IdentityInv, LocalsTypeOK,
           \/ NextPhase /\ pc = "copyFilesystems"
           \/ SkipUnmoved \/ SkipMatching \/ Format \/ Fill
           \/ StartRawCopy \/ FinishRawCopy \/ CopyUnsupported
    PROVE  IdentityInv'
<1>1. /\ UNCHANGED <<table, origin, done, todo, resizes>>
      /\ pc \in {"copyFilesystems", "fill", "rawCopy"}
      /\ pc' \notin {"off", "classify", "allocate"}
    BY DEF NextPhase, Loop, Restart, SkipUnmoved, SkipMatching, Format, Fill, StartRawCopy, FinishRawCopy,
        CopyUnsupported, Copying, At, Advance, GoTo, locals, environment
<1>2. \/ i' = i /\ pc' \in {"fill", "rawCopy", "failed"}
      \/ /\ i' = i + 1 /\ pc' = "copyFilesystems"
         /\ i \in Moved => Relocated(Plan[i]) # {}
      \/ pc' = "updatePartitions" /\ i > Len(Plan)
    BY DEF NextPhase, Loop, Restart, SkipUnmoved, SkipMatching, Format, Fill, StartRawCopy, FinishRawCopy,
        CopyUnsupported, Copying, At, Advance, GoTo, locals, environment
<1>3. CopiesThere'
    BY <1>1, <1>2, CopiesThereNext
<1>4. CopyingMoved'
    <2>1. pc' \in {"fill", "rawCopy"} => i \in Moved /\ i' = i
        BY <1>1 DEF NextPhase, Loop, Restart, SkipUnmoved, SkipMatching, Format, Fill, StartRawCopy, FinishRawCopy,
            CopyUnsupported, Copying, At, Advance, GoTo, locals
    <2>2. Moved' = Moved
        BY <1>1 DEF Moved, Plan
    <2> QED BY <2>1, <2>2 DEF CopyingMoved
<1> QED BY <1>1, <1>3, <1>4, IdentityStays DEF WhileCopying
-----------------------------------------------------------------------------
\* No item is about a copy, so nothing shrinks one.
LEMMA CopiesKeepSize ==
    ASSUME ApartInv, pc = "shrinkPartitions", NEW q \in table, q.guid \notin Ids
    PROVE  ShrunkEntry(q) = q
<1>1. Items = Plan
    BY DEF Items
<1>2. Shrinks(q) = {}
    BY <1>1 DEF Shrinks, ApartInv, SourcesOriginal
<1> QED BY <1>2 DEF ShrunkEntry

LEMMA IdentityShrunk ==
    ASSUME TypeInv, ApartInv, IdentityInv, pc = "shrinkPartitions",
           table' = {ShrunkEntry(p) : p \in table}, UNCHANGED origin
    PROVE  IdentityKept'
<1>1. Ids' = Ids /\ \A g : Before(g)' = Before(g)
    BY DEF Ids, Before
<1>2. ASSUME NEW g \in Ids
      PROVE  \E p \in table' : /\ p.guid = g
                               /\ p.name = Before(g).name /\ p.type = Before(g).type
                               /\ p.attributes = Before(g).attributes
    <2>1. PICK p \in table : /\ p.guid = g
                             /\ p.name = Before(g).name /\ p.type = Before(g).type
                             /\ p.attributes = Before(g).attributes
        BY DEF IdentityInv, IdentityKept
    <2>2. ShrunkEntry(p) \in table'
        OBVIOUS
    <2> QED BY <2>1, <2>2, ShrunkFits
<1>3. ASSUME NEW q \in table, ShrunkEntry(q).guid \notin Ids
      PROVE  /\ ShrunkEntry(q).type = "linux"
             /\ \E p \in origin : ShrunkEntry(q).name = Alternate(p.name)
             /\ \A p \in table' : p.name = ShrunkEntry(q).name => p = ShrunkEntry(q)
    <2>1. q.guid \notin Ids /\ ShrunkEntry(q) = q
        BY <1>3, ShrunkFits, CopiesKeepSize
    <2>2. /\ q.type = "linux"
          /\ \E p \in origin : q.name = Alternate(p.name)
          /\ \A p \in table : p.name = q.name => p = q
        BY <2>1 DEF IdentityInv, IdentityKept
    <2>3. ASSUME NEW p \in table, ShrunkEntry(p).name = q.name PROVE ShrunkEntry(p) = q
        <3>1. p = q
            BY <2>2, <2>3, ShrunkFits
        <3> QED BY <2>1, <3>1
    <2> QED BY <2>1, <2>2, <2>3
<1> QED BY <1>1, <1>2, <1>3 DEF IdentityKept

LEMMA IdentityShrinkPartitions ==
    ASSUME TypeInv, ApartInv, IdentityInv, ShrinkPartitions
    PROVE  IdentityInv'
<1>1. pc = "shrinkPartitions" /\ UNCHANGED <<origin, req>>
    BY DEF ShrinkPartitions, environment
<1>2. table' = {ShrunkEntry(p) : p \in table}
    BY ShrinkWrites
<1>3. IdentityKept'
    BY <1>1, <1>2, IdentityShrunk
<1>4. Exit \/ Restart("createPartitions")
    BY DEF ShrinkPartitions, Commit
<1>5. CASE Exit
    BY <1>3, <1>5, IdentityExited
<1>6. CASE Restart("createPartitions")
    <2>1. /\ pc' = "createPartitions" /\ UNCHANGED <<done, todo, resizes>>
          /\ Plan' = Plan /\ Items' = Plan /\ Items = Plan /\ Ids' = Ids
        BY <1>1, <1>6 DEF Restart, Plan, Items, Ids
    <2>2. ItemNamesApart'
        BY <2>1 DEF IdentityInv, ItemNamesApart
    <2>3. SourcesNamed'
        BY <1>1, <1>2, <2>1, ShrunkFits DEF IdentityInv, SourcesNamed
    <2>4. DoneAreCopies'
        <3> SUFFICES ASSUME NEW k \in DOMAIN done, NEW x \in table,
                            ShrunkEntry(x).number = done[k].target.number
                     PROVE  /\ ShrunkEntry(x).guid \notin Ids
                            /\ ShrunkEntry(x).start = done[k].target.start
                            /\ ShrunkEntry(x).size = done[k].target.size
            BY <1>2, <2>1 DEF DoneAreCopies
        <3>1. x.number = done[k].target.number
            BY <1>1, ShrunkFits
        <3>2. x.guid \notin Ids /\ x.start = done[k].target.start /\ x.size = done[k].target.size
            BY <3>1 DEF IdentityInv, DoneAreCopies
        <3> QED BY <1>1, <3>2, CopiesKeepSize
    <2>5. CopyTargets' /\ CopiesThere' /\ CopyingMoved'
        BY <2>1 DEF CopyTargets, CopiesThere, CopiedItems, CopyingMoved, WhileCopying
    <2> QED BY <1>3, <2>2, <2>3, <2>4, <2>5 DEF IdentityInv
<1> QED BY <1>4, <1>5, <1>6
-----------------------------------------------------------------------------
\* The partition a new entry is made for is an original one, which no entry is
\* called a copy of, and no other partition that gets one has its label.
LEMMA NewSource ==
    ASSUME TypeInv, ApartInv, IdentityInv, pc = "createPartitions",
           NEW p \in table, NEW k \in Moved, p.number = Plan[k].original.number
    PROVE  /\ p.guid \in Ids /\ p.name = Plan[k].original.label
           /\ \E b \in origin : p.name = b.name
<1>1. Items = Plan /\ k \in DOMAIN Plan /\ StoreOK
    BY TypeParts DEF Items, Moved
<1>2. p.guid \in Ids /\ p.name = Plan[k].original.label
    BY <1>1 DEF ApartInv, SourcesOriginal, IdentityInv, SourcesNamed
<1>3. PICK q \in table : q.guid = p.guid /\ q.name = Before(p.guid).name
    BY <1>2 DEF IdentityInv, IdentityKept
<1>4. q = p
    BY <1>3 DEF ApartInv, SoundTable
<1>5. Before(p.guid) \in origin
    BY <1>1, <1>2, BeforeOf
<1> QED BY <1>2, <1>3, <1>4, <1>5

LEMMA AlternateInjective ==
    ASSUME NEW a \in Label, NEW b \in Label, Alternate(a) = Alternate(b)
    PROVE  a = b
BY DEF Label, Alternate

LEMMA IdentityCreated ==
    ASSUME TypeInv, ApartInv, IdentityInv, CreatePartitions
    PROVE  IdentityKept'
<1>1. /\ pc = "createPartitions" /\ table \subseteq table' /\ StoreOK /\ Items = Plan
      /\ Ids' = Ids /\ origin' = origin /\ \A g : Before(g)' = Before(g)
    BY TypeParts DEF CreatePartitions, Commit, environment, Ids, Before, Items
<1>2. \A g \in Ids : \E p \in table' :
        /\ p.guid = g
        /\ p.name = Before(g).name /\ p.type = Before(g).type
        /\ p.attributes = Before(g).attributes
    BY <1>1 DEF IdentityInv, IdentityKept
<1>3. \A p \in table : p.name \in Label
    BY <1>1 DEF StoreOK, TableOK, Entry
<1>4. ASSUME NEW q \in table', q.guid \notin Ids
      PROVE  /\ q.type = "linux"
             /\ \E p \in origin : q.name = Alternate(p.name)
             /\ \A r \in table' : r.name = q.name => r = q
    <2>1. CASE q \in table
        <3>1. /\ q.type = "linux" /\ \E p \in origin : q.name = Alternate(p.name)
              /\ \A r \in table : r.name = q.name => r = q
            BY <1>4, <2>1 DEF IdentityInv, IdentityKept
        <3>2. ASSUME NEW r \in table', r \notin table PROVE r.name # q.name
            <4>1. PICK m \in Grown, k \in Moved, p \in table :
                    Plan[k] = resizes[m] /\ ~HasAlternate(p) /\ r = NewEntry(p, resizes[m])
                BY <3>2, CreatedIs
            <4>2. r.name = Alternate(p.name)
                BY <4>1 DEF NewEntry
            <4> QED BY <2>1, <4>1, <4>2 DEF HasAlternate
        <3> QED BY <3>1, <3>2
    <2>2. CASE q \notin table
        <3>1. PICK m \in Grown, k \in Moved, p \in table :
                /\ Plan[k] = resizes[m] /\ p.number = resizes[m].original.number /\ ~HasAlternate(p)
                /\ q = NewEntry(p, resizes[m])
            BY <2>2, CreatedIs
        <3>2. q.type = "linux" /\ q.name = Alternate(p.name)
            BY <3>1 DEF NewEntry
        <3>3. p.name = Plan[k].original.label /\ \E b \in origin : p.name = b.name
            BY <1>1, <3>1, NewSource
        <3>4. ASSUME NEW r \in table', r.name = q.name PROVE r = q
            <4>1. CASE r \in table
                BY <3>1, <3>2, <3>4, <4>1 DEF HasAlternate
            <4>2. CASE r \notin table
                <5>1. PICK n \in Grown, j \in Moved, x \in table :
                        /\ Plan[j] = resizes[n] /\ x.number = resizes[n].original.number
                        /\ r = NewEntry(x, resizes[n])
                    BY <4>2, CreatedIs
                <5>2. x.name = Plan[j].original.label
                    BY <1>1, <5>1, NewSource
                <5>3. r.name = Alternate(x.name)
                    BY <5>1 DEF NewEntry
                <5>4. x.name = p.name
                    BY <1>3, <3>2, <3>4, <5>3, AlternateInjective
                <5>5. k = j
                    <6>1. k \in DOMAIN Plan /\ j \in DOMAIN Plan
                        BY DEF Moved
                    <6> QED BY <1>1, <3>3, <5>2, <5>4, <6>1 DEF IdentityInv, ItemNamesApart
                <5>6. x = p
                    BY <3>1, <5>1, <5>5 DEF ApartInv, SoundTable
                <5> QED BY <3>1, <5>1, <5>5, <5>6
            <4> QED BY <4>1, <4>2
        <3> QED BY <3>2, <3>3, <3>4
    <2> QED BY <2>1, <2>2
<1> QED BY <1>1, <1>2, <1>4 DEF IdentityKept

\* The copy an item was found to have, and the label it has by that.
LEMMA DoneCopy ==
    ASSUME TypeInv, ApartInv, IdentityInv, pc = "createPartitions", NEW k \in Moved, k \in DOMAIN done
    PROVE  \E q \in table :
              /\ q.number = Plan[k].target.number
              /\ q.name = Alternate(Plan[k].original.label)
              /\ q.guid \notin Ids
              /\ q.start = Align(Plan[k].target.start) /\ q.size = Align(Plan[k].target.size)
<1>1. LocalsTypeOK /\ StoreOK /\ Items = Plan
    BY TypeParts DEF RunOK, Items
<1>2. Plan[k] = done[k] /\ k \in DOMAIN Plan
    BY <1>1, PlanParts
<1>3. PICK p, q \in table : /\ p.number = done[k].original.number
                            /\ q.number = done[k].target.number
                            /\ q.name = Alternate(p.name)
    BY DEF ApartInv, DoneThere
<1>4. p.name = Plan[k].original.label
    BY <1>1, <1>2, <1>3 DEF IdentityInv, SourcesNamed
<1>5. q.guid \notin Ids /\ q.start = done[k].target.start /\ q.size = done[k].target.size
    BY <1>3 DEF IdentityInv, DoneAreCopies
<1>6. Align(q.start) = q.start /\ Align(q.size) = q.size
    BY <1>1 DEF StoreOK, TableOK, TableOnDisk
<1> QED BY <1>2, <1>3, <1>4, <1>5, <1>6

LEMMA TargetsPlaced ==
    ASSUME TypeInv, ApartInv, IdentityInv, CreatePartitions, NEW k \in Moved,
           NEW q \in table', q.number = Plan[k].target.number
    PROVE  /\ q.guid \notin Ids
           /\ q.start = Align(Plan[k].target.start) /\ q.size = Align(Plan[k].target.size)
<1>1. pc = "createPartitions" /\ table \subseteq table' /\ StoreOK /\ SoundTable(table, DiskSize)'
    BY TypeParts, ApartCreated DEF CreatePartitions, Commit
<1>2. CASE k \in DOMAIN done
    <2>1. PICK x \in table :
            /\ x.number = Plan[k].target.number /\ x.guid \notin Ids
            /\ x.start = Align(Plan[k].target.start) /\ x.size = Align(Plan[k].target.size)
        BY <1>1, <1>2, DoneCopy
    <2>2. q = x
        BY <1>1, <2>1 DEF SoundTable
    <2> QED BY <2>1, <2>2
<1>3. CASE k \notin DOMAIN done
    <2>1. PICK m \in Grown : Plan[k] = resizes[m]
        BY <1>1, <1>3, MovedTarget DEF AfterShrinks
    <2>2. q \notin table
        BY <1>1, <2>1 DEF ApartInv, PlacesClear
    <2>3. PICK n \in Grown, j \in Moved, p \in table : q = NewEntry(p, resizes[n])
        BY <2>2, CreatedIs
    <2>4. /\ q.number = resizes[n].target.number
          /\ q.start = Align(resizes[n].target.start) /\ q.size = Align(resizes[n].target.size)
          /\ q.guid = <<"fresh", resizes[n].target.number>>
        BY <2>3, NewEntryParts
    <2>5. n = m
        BY <1>1, <2>1, <2>4 DEF ApartInv, PlacesClear
    <2> QED BY <1>1, <2>1, <2>4, <2>5, IdsAreOriginal
<1> QED BY <1>2, <1>3

LEMMA TargetsDiffer ==
    ASSUME TypeInv, ApartInv, IdentityInv, pc = "createPartitions", NEW k \in Moved, NEW m \in Moved, k # m
    PROVE  Plan[k].target.number # Plan[m].target.number
<1>1. StoreOK /\ LocalsTypeOK /\ Items = Plan /\ k \in DOMAIN Plan /\ m \in DOMAIN Plan
    BY TypeParts DEF RunOK, Items, Moved
<1>2. ASSUME NEW a \in Moved, NEW b \in Moved, a \in DOMAIN done, b \notin DOMAIN done
      PROVE  Plan[a].target.number # Plan[b].target.number
    <2>1. \E q \in table : q.number = Plan[a].target.number
        BY <1>2, DoneCopy
    <2>2. \E n \in Grown : Plan[b] = resizes[n]
        BY <1>2, MovedTarget DEF AfterShrinks
    <2> QED BY <2>1, <2>2 DEF ApartInv, PlacesClear
<1>3. CASE k \in DOMAIN done /\ m \in DOMAIN done
    <2> SUFFICES ASSUME Plan[k].target.number = Plan[m].target.number PROVE FALSE
        OBVIOUS
    <2>1. PICK x \in table : x.number = Plan[k].target.number /\ x.name = Alternate(Plan[k].original.label)
        BY <1>3, DoneCopy
    <2>2. PICK y \in table : y.number = Plan[m].target.number /\ y.name = Alternate(Plan[m].original.label)
        BY <1>3, DoneCopy
    <2>3. x = y
        BY <2>1, <2>2 DEF ApartInv, SoundTable
    <2>4. Plan[k].original.label \in Label /\ Plan[m].original.label \in Label
        <3>1. Plan[k] \in Item /\ Plan[m] \in Item
            BY <1>1, PlanParts
        <3> QED BY <3>1 DEF Item, Source
    <2>5. Plan[k].original.label = Plan[m].original.label
        BY <2>1, <2>2, <2>3, <2>4, AlternateInjective
    <2> QED BY <1>1, <2>5 DEF IdentityInv, ItemNamesApart
<1>4. CASE k \notin DOMAIN done /\ m \notin DOMAIN done
    <2>1. PICK x \in Grown : k = Len(done) + x /\ Plan[k] = resizes[x]
        BY <1>4, MovedTarget DEF AfterShrinks
    <2>2. PICK y \in Grown : m = Len(done) + y /\ Plan[m] = resizes[y]
        BY <1>4, MovedTarget DEF AfterShrinks
    <2> QED BY <2>1, <2>2 DEF ApartInv, PlacesClear
<1> QED BY <1>2, <1>3, <1>4

LEMMA IdentityCreatePartitions ==
    ASSUME TypeInv, ApartInv, IdentityInv, CreatePartitions
    PROVE  IdentityInv'
<1>1. /\ pc = "createPartitions" /\ UNCHANGED <<origin, req>> /\ table \subseteq table' /\ Items = Plan
      /\ SoundTable(table, DiskSize)'
    BY ApartCreated DEF CreatePartitions, environment, Commit, Items
<1>2. IdentityKept'
    BY IdentityCreated
<1>3. Exit \/ Restart("copyFilesystems")
    BY DEF CreatePartitions, Commit
<1>4. CASE Exit
    BY <1>2, <1>4, IdentityExited
<1>5. CASE Restart("copyFilesystems")
    <2>1. /\ pc' = "copyFilesystems" /\ i' = 1 /\ UNCHANGED <<done, todo, resizes>>
          /\ Plan' = Plan /\ Items' = Plan /\ Ids' = Ids /\ Moved' = Moved
        BY <1>1, <1>5 DEF Restart, Plan, Items, Ids, Moved
    <2>2. ItemNamesApart'
        BY <1>1, <2>1 DEF IdentityInv, ItemNamesApart
    <2>3. SourcesNamed'
        <3> SUFFICES ASSUME NEW k \in DOMAIN Plan, NEW e \in table', e.number = Plan[k].original.number
                     PROVE  e.name = Plan[k].original.label
            BY <2>1 DEF SourcesNamed
        <3>1. PICK p \in table : p.number = Plan[k].original.number
            BY TypeParts DEF RunOK, SourcesKnown
        <3>2. e = p
            BY <1>1, <3>1 DEF SoundTable
        <3> QED BY <1>1, <3>1, <3>2 DEF IdentityInv, SourcesNamed
    <2>4. DoneAreCopies'
        <3> SUFFICES ASSUME NEW k \in DOMAIN done, NEW e \in table', e.number = done[k].target.number
                     PROVE  e.guid \notin Ids /\ e.start = done[k].target.start /\ e.size = done[k].target.size
            BY <2>1 DEF DoneAreCopies
        <3>1. PICK q \in table : q.number = done[k].target.number
            BY DEF ApartInv, DoneThere
        <3>2. e = q
            BY <1>1, <3>1 DEF SoundTable
        <3> QED BY <3>1, <3>2 DEF IdentityInv, DoneAreCopies
    <2>5. CopyTargets'
        <3>1. \A k \in Moved : \A q \in table' : q.number = Plan[k].target.number =>
                /\ q.guid \notin Ids
                /\ q.start = Align(Plan[k].target.start) /\ q.size = Align(Plan[k].target.size)
            BY TargetsPlaced
        <3>2. \A k, m \in Moved : k # m => Plan[k].target.number # Plan[m].target.number
            BY <1>1, TargetsDiffer
        <3> QED BY <2>1, <3>1, <3>2 DEF CopyTargets, Relocated
    <2>6. CopiesThere' /\ CopyingMoved'
        <3>1. Moved \subseteq Nat \ {0}
            BY TypeParts, PlanParts DEF RunOK, Moved
        <3> QED BY <2>1, <3>1 DEF CopiesThere, CopiedItems, CopyingMoved
    <2> QED BY <1>2, <2>2, <2>3, <2>4, <2>5, <2>6 DEF IdentityInv
<1> QED BY <1>3, <1>4, <1>5
-----------------------------------------------------------------------------
\* The originals that go are originals, so no copy goes.
LEMMA SupersededIs ==
    ASSUME TypeInv, ApartInv, pc = "updatePartitions", NEW p \in table, Superseded(p)
    PROVE  p.guid \in Ids /\ \E k \in Moved : p.number = Plan[k].original.number
<1>1. StoreOK /\ SourcesKnown /\ Items = Plan
    BY TypeParts DEF RunOK, Items
<1>2. PICK k \in Moved : p.start = Align(Plan[k].original.start)
    BY DEF Superseded
<1>3. k \in DOMAIN Plan
    BY DEF Moved
<1>4. PICK x \in table : x.number = Plan[k].original.number /\ x.start = Plan[k].original.start
    BY <1>1, <1>3 DEF SourcesKnown
<1>5. Align(x.start) = x.start
    BY <1>1 DEF StoreOK, TableOK, TableOnDisk
<1>6. p = x
    BY <1>1, <1>2, <1>4, <1>5, StartsDistinct DEF ApartInv
<1> QED BY <1>1, <1>3, <1>4, <1>6 DEF ApartInv, SourcesOriginal

\* The entry that starts where an item was copied to is that item's copy.
LEMMA MovedToIs ==
    ASSUME TypeInv, ApartInv, IdentityInv, pc = "updatePartitions", NEW q \in table
    PROVE  \A k \in MovedTo(q) : q \in Relocated(Plan[k]) /\ q.guid \notin Ids /\ MovedTo(q) = {k}
<1>1. StoreOK
    BY TypeParts
<1>2. ASSUME NEW k \in MovedTo(q) PROVE q \in Relocated(Plan[k]) /\ q.guid \notin Ids
    <2>1. k \in Moved /\ q.start = Align(Plan[k].target.start)
        BY DEF MovedTo
    <2>2. k \in CopiedItems
        BY <2>1 DEF CopiedItems
    <2>3. PICK x \in Relocated(Plan[k]) : TRUE
        BY <2>2 DEF IdentityInv, CopiesThere
    <2>4. x \in table /\ x.start = Align(Plan[k].target.start) /\ x.guid \notin Ids
        BY <2>1, <2>3 DEF IdentityInv, CopyTargets, WhileCopying, Relocated
    <2>5. x = q
        BY <1>1, <2>1, <2>4, StartsDistinct DEF ApartInv
    <2> QED BY <2>4, <2>5
<1>3. ASSUME NEW k \in MovedTo(q), NEW m \in MovedTo(q) PROVE k = m
    <2>1. k \in Moved /\ m \in Moved
        BY DEF MovedTo
    <2>2. Plan[k].target.number = Plan[m].target.number
        BY <1>2 DEF Relocated
    <2> QED BY <2>1, <2>2 DEF IdentityInv, CopyTargets, WhileCopying
<1> QED BY <1>2, <1>3

\* After updatePartitions an original's identity is on its own entry, or, when
\* that went, on its copy.
LEMMA Succession ==
    ASSUME TypeInv, ApartInv, IdentityInv, pc = "updatePartitions", NEW p \in table, p.guid \in Ids
    PROVE  \E q \in table :
              /\ ~Superseded(q)
              /\ FinalEntry(q).guid = p.guid /\ FinalEntry(q).name = p.name
              /\ FinalEntry(q).type = p.type /\ FinalEntry(q).attributes = p.attributes
              /\ \/ q = p /\ FinalEntry(q) = q
                 \/ \E k \in CopiedItems : p \in Original(Plan[k]) /\ q \in Relocated(Plan[k])
<1>1. StoreOK /\ SourcesKnown
    BY TypeParts DEF RunOK
<1>2. CASE ~Superseded(p)
    <2>1. MovedTo(p) = {}
        BY MovedToIs
    <2>2. FinalEntry(p) = p
        BY <2>1 DEF FinalEntry
    <2> QED BY <1>2, <2>2
<1>3. CASE Superseded(p)
    <2>1. PICK k \in Moved : p.start = Align(Plan[k].original.start)
        BY <1>3 DEF Superseded
    <2>2. k \in DOMAIN Plan /\ k \in CopiedItems
        BY DEF Moved, CopiedItems
    <2>3. PICK x \in table : x.number = Plan[k].original.number /\ x.start = Plan[k].original.start
        BY <1>1, <2>2 DEF SourcesKnown
    <2>4. x = p
        <3>1. Align(x.start) = x.start
            BY <1>1 DEF StoreOK, TableOK, TableOnDisk
        <3> QED BY <1>1, <2>1, <2>3, <3>1, StartsDistinct DEF ApartInv
    <2>5. PICK q \in Relocated(Plan[k]) : TRUE
        BY <2>2 DEF IdentityInv, CopiesThere
    <2>6. q \in table /\ q.guid \notin Ids /\ q.start = Align(Plan[k].target.start)
        BY <2>5 DEF IdentityInv, CopyTargets, WhileCopying, Relocated
    <2>7. ~Superseded(q)
        BY <2>6, SupersededIs
    <2>8. MovedTo(q) = {k}
        <3>1. k \in MovedTo(q)
            BY <2>6 DEF MovedTo
        <3> QED BY <2>6, <3>1, MovedToIs
    <2>9. FinalEntry(q) = Identified(q, OriginalAt(k), k)
        BY <2>6, <2>8, FinalEntryIs
    <2>10. OriginalAt(k) = p
        <3>1. OriginalAt(k) \in table /\ OriginalAt(k).start = Plan[k].original.start
            BY <2>6, <2>8, FinalEntryIs
        <3> QED BY <1>1, <2>3, <2>4, <3>1, StartsDistinct DEF ApartInv
    <2>11. q \in Entry
        BY <1>1, <2>6 DEF StoreOK, TableOK
    <2>12. /\ FinalEntry(q).guid = p.guid /\ FinalEntry(q).name = p.name
           /\ FinalEntry(q).type = p.type /\ FinalEntry(q).attributes = p.attributes
        BY <2>9, <2>10, <2>11 DEF Identified, Entry
    <2>13. p \in Original(Plan[k])
        BY <2>3, <2>4 DEF Original
    <2> QED BY <2>2, <2>5, <2>6, <2>7, <2>12, <2>13
<1> QED BY <1>2, <1>3

LEMMA IdentityFinal ==
    ASSUME TypeInv, ApartInv, IdentityInv, UpdatePartitions
    PROVE  IdentityKept'
<1> DEFINE kept == {q \in table : ~Superseded(q)}
<1>1. /\ pc = "updatePartitions" /\ table' = {FinalEntry(q) : q \in kept}
      /\ Ids' = Ids /\ origin' = origin /\ \A g : Before(g)' = Before(g)
    BY DEF UpdatePartitions, Commit, environment, Ids, Before
<1>2. ASSUME NEW g \in Ids
      PROVE  \E p \in table' : /\ p.guid = g
                               /\ p.name = Before(g).name /\ p.type = Before(g).type
                               /\ p.attributes = Before(g).attributes
    <2>1. PICK p \in table : /\ p.guid = g
                             /\ p.name = Before(g).name /\ p.type = Before(g).type
                             /\ p.attributes = Before(g).attributes
        BY DEF IdentityInv, IdentityKept
    <2>2. PICK q \in table :
            /\ ~Superseded(q)
            /\ FinalEntry(q).guid = p.guid /\ FinalEntry(q).name = p.name
            /\ FinalEntry(q).type = p.type /\ FinalEntry(q).attributes = p.attributes
        BY <1>1, <2>1, Succession
    <2>3. FinalEntry(q) \in table'
        BY <1>1, <2>2
    <2> QED BY <2>1, <2>2, <2>3
<1>3. ASSUME NEW q \in kept, FinalEntry(q).guid \notin Ids
      PROVE  /\ FinalEntry(q).type = "linux"
             /\ \E p \in origin : FinalEntry(q).name = Alternate(p.name)
             /\ \A r \in table' : r.name = FinalEntry(q).name => r = FinalEntry(q)
    <2>1. MovedTo(q) = {}
        BY <1>1, <1>3, IdentityFrom
    <2>2. FinalEntry(q) = q
        BY <2>1 DEF FinalEntry
    <2>3. /\ q.type = "linux" /\ \E p \in origin : q.name = Alternate(p.name)
          /\ \A r \in table : r.name = q.name => r = q
        BY <1>3, <2>2 DEF IdentityInv, IdentityKept
    <2>4. ASSUME NEW r \in kept, FinalEntry(r).name = q.name PROVE FinalEntry(r) = q
        <3>1. CASE MovedTo(r) = {}
            <4>1. FinalEntry(r) = r
                BY <3>1 DEF FinalEntry
            <4> QED BY <2>3, <2>4, <4>1
        <3>2. CASE MovedTo(r) # {}
            <4>1. PICK k \in MovedTo(r) : /\ OriginalAt(k) \in table
                                          /\ FinalEntry(r) = Identified(r, OriginalAt(k), k)
                                          /\ OriginalAt(k).start = Plan[k].original.start
                BY <3>2, FinalEntryIs
            <4>2. r \in Entry /\ k \in DOMAIN Plan
                BY TypeParts DEF StoreOK, TableOK, MovedTo, Moved
            <4>3. FinalEntry(r).name = OriginalAt(k).name
                BY <4>1, <4>2 DEF Identified, Entry
            <4>4. OriginalAt(k) = q
                BY <2>3, <2>4, <4>1, <4>3
            <4>5. OriginalAt(k).guid \in Ids
                <5>1. OriginalAt(k).number = Plan[k].original.number
                    BY <4>1, <4>2, SourceAt
                <5>2. Items = Plan
                    BY <1>1 DEF Items
                <5> QED BY <4>1, <4>2, <5>1, <5>2 DEF ApartInv, SourcesOriginal
            <4> QED BY <1>3, <2>2, <4>4, <4>5
        <3> QED BY <3>1, <3>2
    <2> QED BY <1>1, <2>2, <2>3, <2>4
<1> QED BY <1>1, <1>2, <1>3 DEF IdentityKept
-----------------------------------------------------------------------------
\* As long as each partition is named once and the labels tell them apart, every
\* step keeps every identity.
LEMMA IdentityNext ==
    ASSUME TypeInv, ApartInv, IdentityInv, NamedOnce, LabelsApart, [DiskNext]_vars
    PROVE  IdentityInv'
<1>1. CASE Planning
    BY <1>1, IdentityPlanning
<1>2. CASE Abort \/ DryRun \/ Interrupt
    <2>1. Exit /\ UNCHANGED <<table, origin>>
        BY <1>2 DEF Abort, DryRun, Interrupt, environment
    <2>2. Ids' = Ids /\ \A g : Before(g)' = Before(g)
        BY <2>1 DEF Ids, Before
    <2>3. IdentityKept'
        BY <2>1, <2>2 DEF IdentityInv, IdentityKept
    <2> QED BY <2>1, <2>3, IdentityExited
<1>3. CASE NextPhase
    <2>1. CASE pc = "copyFilesystems"
        BY <1>3, <2>1, IdentityCopies, TypeParts DEF RunOK
    <2>2. CASE pc # "copyFilesystems"
        BY <1>3, <2>2, IdentityChecks
    <2> QED BY <2>1, <2>2
<1>4. CASE \/ Execute \/ Checking
           \/ KeepFilesystem \/ ShrinkRefused \/ ShrinkOnDevice \/ ShrinkWriteBack \/ ShrinkWrittenBack
    BY <1>4, IdentityChecks
<1>5. CASE ShrinkPartitions
    BY <1>5, IdentityShrinkPartitions
<1>6. CASE CreatePartitions
    BY <1>6, IdentityCreatePartitions
<1>7. CASE SkipUnmoved \/ SkipMatching \/ Format \/ Fill \/ StartRawCopy \/ FinishRawCopy \/ CopyUnsupported
    BY <1>7, IdentityCopies, TypeParts DEF RunOK
<1>8. CASE UpdatePartitions
    <2>1. Exit
        BY <1>8 DEF UpdatePartitions, Commit
    <2> QED BY <1>8, <2>1, IdentityFinal, IdentityExited
<1>9. CASE OsWrites \/ ChangeRequest \/ UNCHANGED vars
    BY <1>9, IdentityUntouched DEF OsWrites, ChangeRequest, vars, plannerVars, environment, locals
<1> QED BY <1>1, <1>2, <1>3, <1>4, <1>5, <1>6, <1>7, <1>8, <1>9 DEF DiskNext, Run, Checking

\* createPartitions gives the copies a name and a type of their own, and
\* updatePartitions the originals' identities: at no moment is a partition not
\* found as what it was, or can a copy be taken for one, however many runs were
\* stopped on the way.
THEOREM IdentityAlwaysKept == DiskSpec /\ []NamedOnce /\ []LabelsApart => []IdentityKept
<1>1. DiskInit => TypeInv /\ ApartInv /\ IdentityInv
    BY DiskTypeInit, ApartInit, IdentityInit
<1>2. TypeInv /\ ApartInv /\ IdentityInv /\ NamedOnce /\ LabelsApart /\ [DiskNext]_vars
        => (TypeInv /\ ApartInv /\ IdentityInv)'
    BY ApartSlots, DiskTypeNext, ApartNext, IdentityNext
<1>3. IdentityInv => IdentityKept
    BY DEF IdentityInv
<1> QED BY <1>1, <1>2, <1>3, PTL DEF DiskSpec
-----------------------------------------------------------------------------
\* Three steps write the table; where a disk started from never changes.
LEMMA TableFrame ==
    ASSUME [DiskNext]_vars
    PROVE  /\ origin' = origin
           /\ table' = table \/ ShrinkPartitions \/ CreatePartitions \/ UpdatePartitions
<1>1. CASE Planning
    BY <1>1, NextFrame DEF Planning, environment
<1>2. CASE Abort \/ DryRun \/ Execute \/ NextPhase \/ Interrupt \/ OsWrites \/ ChangeRequest \/ UNCHANGED vars
    BY <1>2 DEF Abort, DryRun, Execute, NextPhase, Interrupt, OsWrites, ChangeRequest, vars, plannerVars,
        environment
<1>3. CASE \/ Checking
           \/ KeepFilesystem \/ ShrinkRefused \/ ShrinkOnDevice \/ ShrinkWriteBack \/ ShrinkWrittenBack
    BY <1>3, CheckingFrame DEF KeepFilesystem, ShrinkRefused, ShrinkOnDevice,
        ShrinkWriteBack, ShrinkWrittenBack, environment
<1>4. CASE SkipUnmoved \/ SkipMatching \/ Format \/ Fill \/ StartRawCopy \/ FinishRawCopy \/ CopyUnsupported
    BY <1>4 DEF SkipUnmoved, SkipMatching, Format, Fill, StartRawCopy, FinishRawCopy, CopyUnsupported,
        environment
<1>5. CASE ShrinkPartitions \/ CreatePartitions \/ UpdatePartitions
    BY <1>5 DEF ShrinkPartitions, CreatePartitions, UpdatePartitions, environment
<1> QED BY <1>1, <1>2, <1>3, <1>4, <1>5 DEF DiskNext, Run, Checking

LEMMA NumbersNext ==
    ASSUME TypeInv, ApartInv, NumbersInv, req.preserveNumbers, [DiskNext]_vars
    PROVE  NumbersInv'
<1>1. Ids' = Ids /\ \A g : Before(g)' = Before(g)
    BY TableFrame DEF Ids, Before
<1>2. CASE table' = table
    BY <1>1, <1>2 DEF NumbersInv
<1>3. CASE ShrinkPartitions
    <2>1. table' = {ShrunkEntry(p) : p \in table} /\ pc = "shrinkPartitions"
        BY <1>3, ShrinkWrites DEF ShrinkPartitions
    <2> QED BY <1>1, <2>1, ShrunkFits DEF NumbersInv
<1>4. CASE CreatePartitions
    <2>1. ASSUME NEW e \in table', e.guid \in Ids PROVE e \in table
        <3>1. \A n : <<"fresh", n>> \notin Ids
            BY TypeParts, IdsAreOriginal
        <3>2. ASSUME NEW p, NEW item, e = NewEntry(p, item) PROVE FALSE
            <4>1. e.guid = <<"fresh", item.target.number>>
                BY <3>2, NewEntryParts
            <4> QED BY <2>1, <3>1, <4>1
        <3> QED BY <1>4, <3>2, CreatedIs
    <2> QED BY <1>1, <2>1 DEF NumbersInv
<1>5. CASE UpdatePartitions
    <2>1. pc = "updatePartitions" /\ table' = {FinalEntry(q) : q \in {q \in table : ~Superseded(q)}}
        BY <1>5 DEF UpdatePartitions, Commit
    <2>2. ASSUME NEW q \in table, FinalEntry(q).guid \in Ids
          PROVE  FinalEntry(q).number = Before(FinalEntry(q).guid).number
        <3>1. CASE MovedTo(q) = {}
            <4>1. FinalEntry(q) = q
                BY <3>1 DEF FinalEntry
            <4> QED BY <2>2, <4>1 DEF NumbersInv
        <3>2. CASE MovedTo(q) # {}
            <4>1. PICK p \in table : /\ p.guid \in Ids /\ FinalEntry(q).guid = p.guid
                                     /\ FinalEntry(q).number = p.number
                BY <2>1, <3>2, IdentityFrom
            <4> QED BY <4>1 DEF NumbersInv
        <3> QED BY <3>1, <3>2
    <2> QED BY <1>1, <2>1, <2>2 DEF NumbersInv
<1> QED BY <1>2, <1>3, <1>4, <1>5, TableFrame

LEMMA NumbersInit == DiskInit => NumbersInv
<1> SUFFICES ASSUME DiskInit PROVE NumbersInv
    OBVIOUS
<1>1. StoreOK /\ table = origin
    BY DiskTypeInit, TypeParts DEF DiskInit
<1> QED BY <1>1, BeforeIs DEF NumbersInv

LEMMA NumbersAreKept == ASSUME IdentityInv, NumbersInv PROVE NumbersKept
<1> SUFFICES ASSUME NEW g \in Ids PROVE Now(g).number = Before(g).number
    BY DEF NumbersKept
<1>1. \E p \in table : p.guid = g
    BY DEF IdentityInv, IdentityKept
<1>2. Now(g) \in table /\ Now(g).guid = g
    BY <1>1 DEF Now
<1> QED BY <1>2 DEF NumbersInv

\* With preserveNumbers updatePartitions also gives a copy its original's number,
\* so no partition is ever found under another one.
THEOREM NumbersAlwaysKept ==
    DiskSpec /\ []NamedOnce /\ []LabelsApart /\ [](req.preserveNumbers) => []NumbersKept
<1>1. DiskInit => TypeInv /\ ApartInv /\ IdentityInv /\ NumbersInv
    BY DiskTypeInit, ApartInit, IdentityInit, NumbersInit
<1>2. /\ TypeInv /\ ApartInv /\ IdentityInv /\ NumbersInv
      /\ NamedOnce /\ LabelsApart /\ req.preserveNumbers /\ [DiskNext]_vars
      => (TypeInv /\ ApartInv /\ IdentityInv /\ NumbersInv)'
    BY ApartSlots, DiskTypeNext, ApartNext, IdentityNext, NumbersNext
<1>3. IdentityInv /\ NumbersInv => NumbersKept
    BY NumbersAreKept
<1> QED BY <1>1, <1>2, <1>3, PTL DEF DiskSpec

=============================================================================
