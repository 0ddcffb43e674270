------------------------ MODULE ResizerFinishProofs ------------------------
(***************************************************************************)
(* What a caller gets who never asks for less than there is, and repeats   *)
(* one call until it succeeds: every partition he named has its size and   *)
(* is filled, no copy is left, and further runs leave the table as it is.  *)
(***************************************************************************)
EXTENDS ResizerProofs

\* A grow is about one partition,
LEMMA GrownOnce ==
    ASSUME SensibleCalls, CallsInv, NEW k \in DOMAIN req.grows, NEW p \in table, NEW q \in table,
           GrownBy(k, p), GrownBy(k, q)
    PROVE  p = q
<1> DEFINE id == req.grows[k]
           named == UNION {Named(x, origin) : x \in Asked(req)}
<1>1. Sensible(req, origin) /\ id \in Asked(req) /\ SoundTable(origin, DiskSize)
    BY LayoutAssumption DEF SensibleCalls, CallsInv, TypeInv, DiskTypeOK, Asked
<1>2. ASSUME NEW x \in table, GrownBy(k, x)
      PROVE  /\ Before(x.guid) \in Named(id, origin) /\ Before(x.guid) \in named
             /\ Before(x.guid) \in origin /\ Before(x.guid).guid = x.guid
    BY <1>1, <1>2, NamedAsBefore DEF CallsInv, GrownBy, Named
<1>3. Before(p.guid) = Before(q.guid)
    <2>1. PICK b, c : b = Before(p.guid) /\ c = Before(q.guid)
        OBVIOUS
    <2>2. b \in named /\ c \in named /\ b \in origin /\ c \in origin /\ Matches(id, b) /\ Matches(id, c)
        BY <1>2, <2>1 DEF Named
    <2>3. b.name = c.name \/ b.number = c.number \/ b.guid = c.guid
        BY <2>2 DEF Matches
    <2> QED BY <1>1, <2>1, <2>2, <2>3 DEF Sensible, SoundTable
<1> QED BY <1>2, <1>3 DEF CallsInv, ApartInv, SoundTable

\* and the copy of that partition is as large as it asks for.
LEMMA CopyOfGrown ==
    ASSUME SensibleCalls, CallsInv, CopiesExact, NEW k \in DOMAIN req.grows, NEW p \in table, GrownBy(k, p),
           NEW q \in table, q.guid \notin Ids, q.name = Alternate(p.name)
    PROVE  Growing(k, p) /\ q.size = req.grows[k].size
<1>1. PICK m \in DOMAIN req.grows, x \in table :
        Growing(m, x) /\ q.name = Alternate(x.name) /\ q.size = req.grows[m].size
    BY DEF CopiesExact
<1>2. x.name \in Label /\ p.name \in Label
    BY TypeParts DEF CallsInv, StoreOK, TableOK, Entry
<1>3. AboutRequest(x) /\ AboutRequest(p)
    BY <1>1 DEF AboutRequest, Growing
<1>4. x = p
    BY <1>1, <1>2, <1>3, AlternateInjective, NamesTellApart
<1>5. m = k
    BY <1>1, <1>4, GrownByOne DEF Growing
<1> QED BY <1>1, <1>4, <1>5

LEMMA GrowingFrame ==
    ASSUME UNCHANGED <<req, origin>>
    PROVE  /\ \A k, p : Growing(k, p)' <=> Growing(k, p)
           /\ AllNamed' <=> AllNamed
BY AskedFrame DEF Growing, AllNamed, Before, Ids

\* An item stays what it is as long as its original does not become larger.
LEMMA ExactStays ==
    ASSUME StoreOK, UNCHANGED <<req, origin>>, NEW item, Exact(item),
           \A q \in table' : q.size \in Nat /\ (q.number = item.original.number =>
              \E p \in table : p.number = item.original.number /\ p.guid = q.guid /\ q.size <= p.size)
    PROVE  Exact(item)'
<1> SUFFICES ASSUME NEW q \in table', q.number = item.original.number
             PROVE  \/ Offered(q) /\ InPlace(item)
                    \/ ~InPlace(item) /\ \E k \in DOMAIN req.grows :
                          Growing(k, q) /\ item.target.size = req.grows[k].size
    BY AskedFrame, GrowingFrame DEF Exact, Original, InPlace
<1>1. PICK p \in Original(item) : p.guid = q.guid /\ q.size <= p.size
    BY DEF Original
<1>2. q.size \in Nat /\ p.size \in Nat
    BY <1>1 DEF Original, StoreOK, TableOK, Entry
<1>3. CASE Offered(p) /\ InPlace(item)
    BY <1>1, <1>3, AskedFrame
<1>4. ASSUME NEW k \in DOMAIN req.grows, Growing(k, p), ~InPlace(item), item.target.size = req.grows[k].size
      PROVE  Growing(k, q)
    <2>1. GrownBy(k, q)
        BY <1>1, <1>4 DEF Growing, GrownBy
    <2> QED BY <1>1, <1>2, <1>4, <2>1, SizeIsInt DEF Growing
<1> QED BY <1>1, <1>3, <1>4 DEF Exact

LEMMA ExactSame ==
    ASSUME StoreOK, UNCHANGED <<table, req, origin>>
    PROVE  \A item : Exact(item) => Exact(item)'
<1>1. \A p \in table : p.size \in Nat
    BY DEF StoreOK, TableOK, Entry
<1> QED BY <1>1, ExactStays

LEMMA ExactOf ==
    ASSUME ApartInv, NEW p \in table, NEW item, item.original = Data(p),
           \/ Offered(p) /\ InPlace(item)
           \/ ~InPlace(item) /\ \E k \in DOMAIN req.grows :
                 Growing(k, p) /\ item.target.size = req.grows[k].size
    PROVE  Exact(item)
<1>1. \A q \in Original(item) : q = p
    BY DEF Original, Data, ApartInv, SoundTable
<1> QED BY <1>1 DEF Exact
-----------------------------------------------------------------------------
\* Planning gives each grow the copy it has or room for one.
LEMMA ExactPlanning ==
    ASSUME SensibleCalls, CallsInv, GrowthInv, SettlingInv, Planning
    PROVE  ItemsExact' /\ TotalPositive' /\ SettledIdle'
<1>1. /\ Next /\ UNCHANGED <<table, req, origin>> /\ LocalsTypeOK /\ InStep /\ StoreOK
      /\ pc \in {"off", "classify", "allocate"} /\ pc' \in {"classify", "allocate", "planned", "failed"}
      /\ ApartInv
    BY NextFrame, TypeParts DEF CallsInv, Planning, environment, RunOK, ItemsCurrent, BeforeTableWrites
<1>2. /\ TypeOK /\ done \in Seq(Item) /\ todo \in Seq(Item) /\ resizes \in Seq(Item)
      /\ i \in Nat \ {0} /\ total \in Int
    BY <1>1, TypeParts DEF CallsInv, TypeOK, StoreOK, TableOK, LocalsTypeOK
<1>3. \A item : Exact(item) => Exact(item)'
    BY <1>1, ExactSame
<1>4. /\ \A k \in DOMAIN done : Exact(done[k])
      /\ pc \in {"classify", "allocate"} => \A k \in DOMAIN todo : Exact(todo[k])
      /\ \A k \in DOMAIN resizes : Exact(resizes[k])
    BY DEF SettlingInv, ItemsExact
<1>5. Settled' <=> Settled
    BY <1>1, AskedFrame DEF Settled
<1>6. /\ pc \in {"classify", "allocate"} => total >= 0 /\ (todo # <<>> => total > 0)
      /\ Settled => done = <<>> /\ todo = <<>> /\ resizes = <<>>
    BY DEF SettlingInv, TotalPositive, SettledIdle
<1> DEFINE goal ==
        /\ \A k \in DOMAIN done' : Exact(done'[k])
        /\ pc' \in {"classify", "allocate"} => \A k \in DOMAIN todo' : Exact(todo'[k])
        /\ \A k \in DOMAIN resizes' : Exact(resizes'[k])
        /\ pc' \in {"classify", "allocate"} => total' >= 0 /\ (todo' # <<>> => total' > 0)
        /\ Settled => done' = <<>> /\ todo' = <<>> /\ resizes' = <<>>
<1> SUFFICES goal
    BY <1>3, <1>5 DEF ItemsExact, TotalPositive, SettledIdle
<1>7. CASE Discover \/ NotDiscovered
    <2>1. UNCHANGED <<done, todo, resizes, total>> /\ todo = <<>> /\ total = 0
        BY <1>7 DEF Discover, NotDiscovered, locals, CallsInv, ApartInv, NothingHeld, InitLocals
    <2> QED BY <1>4, <1>6, <2>1
<1>8. CASE SkipSatisfied \/ NothingPending \/ LayoutComplete \/ InsufficientSpace
    <2>1. UNCHANGED <<done, todo, resizes, total>> /\ pc \in {"classify", "allocate"}
        BY <1>8 DEF SkipSatisfied, Classifying, NothingPending, LayoutComplete, InsufficientSpace, GiveUp,
            NoRoom, LayingOut, locals
    <2> QED BY <1>4, <1>6, <2>1
<1>9. ASSUME NEW p, Classifying(p), ~Satisfied(p)
      PROVE  /\ i \in DOMAIN req.grows /\ pc = "classify" /\ pc' = "classify" /\ UNCHANGED resizes
             /\ p \in table /\ Growing(i, p) /\ ~Settled
             /\ req.grows[i].size \in Int /\ p.size \in Nat \ {0} /\ p.size < req.grows[i].size
    <2>1. /\ i \in DOMAIN req.grows /\ p \in FirstMatch(table, req.grows[i])
          /\ pc = "classify" /\ pc' = "classify" /\ UNCHANGED resizes /\ req.grows[i].size \in Int
        BY <1>2, <1>9, NextGrow DEF Classifying
    <2>2. p \in table /\ GrownBy(i, p)
        BY <2>1, GrowNames
    <2>3. p.size \in Nat \ {0} /\ p.size <= req.grows[i].size /\ p.size # req.grows[i].size
        BY <1>1, <1>9, <2>1, <2>2 DEF StoreOK, TableOK, Entry, GrowthInv, SizesAsked, Satisfied
    <2> QED BY <2>1, <2>2, <2>3 DEF Growing, Settled
<1>10. CASE ReuseRelocated
    <2>1. PICK p \in table : \E alt \in LastNamed(table, Alternate(p.name)) :
            /\ Classifying(p) /\ ~Satisfied(p) /\ done' = Append(done, Existing(p, alt))
            /\ UNCHANGED <<todo, total>>
        BY <1>10 DEF ReuseRelocated
    <2>2. PICK alt \in LastNamed(table, Alternate(p.name)) :
            /\ Classifying(p) /\ ~Satisfied(p) /\ done' = Append(done, Existing(p, alt))
            /\ UNCHANGED <<todo, total>>
        BY <2>1
    <2>3. p \in Chosen
        BY <1>9, <2>2, ChosenIs DEF Requested, Classifying
    <2>4. alt \in table /\ alt.name = Alternate(p.name) /\ alt.guid \notin Ids
        BY <1>9, <2>2, <2>3, SensibleNames DEF LastNamed, LabelsApart
    <2>5. alt.size = req.grows[i].size
        BY <1>9, <2>2, <2>4, CopyOfGrown DEF SettlingInv, Growing
    <2>6. /\ Existing(p, alt).original = Data(p) /\ Existing(p, alt).target.size = req.grows[i].size
          /\ Existing(p, alt).original.size = p.size
        BY <2>5 DEF Existing, Data
    <2>7. ~InPlace(Existing(p, alt))
        BY <1>9, <2>2, <2>6 DEF InPlace
    <2>8. Exact(Existing(p, alt))
        BY <1>1, <1>9, <2>2, <2>6, <2>7, ExactOf
    <2> QED BY <1>2, <1>4, <1>6, <1>9, <2>2, <2>8, AppendedAll
<1>11. CASE QueuePending
    <2>1. PICK p \in table :
            /\ Classifying(p) /\ ~Satisfied(p) /\ todo' = Append(todo, Pending(p, req.grows[i].size))
            /\ total' = total + req.grows[i].size /\ UNCHANGED done
        BY <1>11 DEF QueuePending
    <2> DEFINE e == Pending(p, req.grows[i].size)
    <2>2. e.original = Data(p) /\ e.target.size = req.grows[i].size /\ e.original.size = p.size
        BY DEF Pending, Data
    <2>3. ~InPlace(e)
        BY <1>9, <2>1, <2>2 DEF InPlace
    <2>4. Exact(e)
        BY <1>1, <1>9, <2>1, <2>2, <2>3, ExactOf
    <2>5. total' > 0
        BY <1>2, <1>6, <1>9, <2>1
    <2> QED BY <1>2, <1>4, <1>9, <2>1, <2>4, <2>5, AppendedAll
<1>12. CASE FirstAttempt
    <2>1. UNCHANGED <<done, todo, total>> /\ resizes' = <<>> /\ pc = "classify" /\ todo # <<>>
        BY <1>12 DEF FirstAttempt, BeginLayout
    <2> QED BY <1>4, <1>6, <2>1
<1>13. CASE LayOutShrink \/ LayOutGrow
    <2>1. PICK start, number : Settle(start, number)
        BY <1>13 DEF LayOutShrink, LayOutGrow, GiveSpace
    <2> DEFINE e == [todo[i] EXCEPT !.target = [number |-> number, start |-> start, size |-> @.size]]
    <2>2. /\ UNCHANGED <<done, todo, total>> /\ resizes' = Append(resizes, e) /\ pc = "allocate"
          /\ i \in DOMAIN todo
        BY <1>1, <1>13, <2>1 DEF Settle, LayOutShrink, LayOutGrow, LayingOut, LocalsTypeOK
    <2>3. todo[i] \in Item /\ todo # <<>>
        BY <1>2, <2>2
    <2>4. e.original = todo[i].original /\ e.target.size = todo[i].target.size
        BY <2>3 DEF Item, Target
    <2> HIDE DEF e
    <2>5. Exact(todo[i])
        BY <1>4, <2>2
    <2>6. Exact(e)
        BY <2>4, <2>5 DEF Exact, InPlace, Original
    <2> QED BY <1>2, <1>4, <1>6, <2>2, <2>3, <2>6, AppendedAll
<1>14. CASE RetryWithShrink
    <2>1. PICK p \in FirstMatch(table, req.shrink) : BeginLayout(<<ShrinkItem(p)>> \o todo)
        BY <1>14 DEF RetryWithShrink, Retry
    <2>2. /\ req.shrink # NoShrink /\ pc = "allocate" /\ UNCHANGED <<done, total>> /\ resizes' = <<>>
          /\ todo' = <<ShrinkItem(p)>> \o todo /\ todo # <<>>
        BY <1>2, <1>14, <2>1 DEF RetryWithShrink, Retry, NoRoom, LayingOut, BeginLayout
    <2>3. p \in table /\ Offered(p)
        BY <2>2, OfferNames
    <2>4. total > 0 /\ RoundUp(total) \in Int /\ RoundUp(total) >= total /\ p.size \in Nat
        BY <1>1, <1>2, <1>6, <2>2, <2>3, RoundUpType, RoundUpBounds DEF StoreOK, TableOK, Entry
    <2>5. /\ ShrinkItem(p).original = Data(p) /\ ShrinkItem(p).target.size = p.size - RoundUp(total)
          /\ ShrinkItem(p).original.size = p.size
        BY DEF ShrinkItem, Data
    <2>6. InPlace(ShrinkItem(p))
        BY <1>2, <2>4, <2>5 DEF InPlace
    <2>7. Exact(ShrinkItem(p))
        BY <1>1, <2>3, <2>5, <2>6, ExactOf
    <2>8. \A k \in DOMAIN todo' : todo'[k] = ShrinkItem(p) \/ \E m \in DOMAIN todo : todo'[k] = todo[m]
        <3> SUFFICES ASSUME NEW k \in 1 .. Len(todo) + 1
                     PROVE  todo'[k] = ShrinkItem(p) \/ \E m \in DOMAIN todo : todo'[k] = todo[m]
            BY <1>2, <2>2
        <3>1. CASE k = 1
            BY <1>2, <2>2, <3>1
        <3>2. CASE k # 1
            <4>1. k - 1 \in DOMAIN todo /\ todo'[k] = todo[k - 1]
                BY <1>2, <2>2, <3>2
            <4> QED BY <4>1
        <3> QED BY <3>1, <3>2
    <2> QED BY <1>4, <1>6, <2>2, <2>4, <2>7, <2>8
<1> QED BY <1>1, <1>7, <1>8, <1>10, <1>11, <1>12, <1>13, <1>14 DEF Next

\* A list keeps its members when one is put in.
LEMMA InsertedAll ==
    ASSUME NEW s \in Seq(Item), NEW t \in Seq(Item), NEW n, NEW e, Inserted(s, t, n, e)
    PROVE  /\ \A m \in DOMAIN s : \E j \in DOMAIN t : t[j] = s[m]
           /\ \E j \in DOMAIN t : t[j] = e
<1>1. n \in DOMAIN t /\ t[n] = e
    BY DEF Inserted
<1>2. ASSUME NEW m \in 1 .. Len(s) PROVE \E j \in DOMAIN t : t[j] = s[m]
    <2>1. CASE m < n
        <3>1. m \in DOMAIN t /\ t[m] = s[m]
            BY <2>1 DEF Inserted
        <3> QED BY <3>1
    <2>2. CASE m >= n
        <3>1. m + 1 \in DOMAIN t /\ t[m + 1] = s[m]
            BY <2>2 DEF Inserted
        <3> QED BY <3>1
    <2> QED BY <2>1, <2>2 DEF Inserted
<1> QED BY <1>1, <1>2

\* Planning drops no item, unless it fails,
LEMMA ItemsRemain ==
    ASSUME TypeOK, InStep, TypeOK', InStep', NothingHeld, Next, pc' # "failed"
    PROVE  \A m \in DOMAIN Items : \E j \in DOMAIN Items' : Items'[j].original = Items[m].original
<1>1. /\ done \in Seq(Item) /\ todo \in Seq(Item) /\ resizes \in Seq(Item) /\ i \in Nat \ {0}
      /\ done' \in Seq(Item) /\ todo' \in Seq(Item) /\ resizes' \in Seq(Item)
    BY DEF TypeOK, LocalsTypeOK
<1>2. pc \in {"off", "classify", "allocate"} => Items = done \o todo
    BY DEF Items
<1>3. CASE Discover
    <2>1. Items = <<>>
        BY <1>2, <1>3 DEF Discover, NothingHeld, InitLocals
    <2> QED BY <2>1
<1>4. CASE SkipSatisfied \/ FirstAttempt \/ LayOutShrink \/ LayOutGrow
    <2>1. UNCHANGED <<done, todo>> /\ pc' \in {"classify", "allocate"} /\ pc \in {"classify", "allocate"}
        BY <1>4 DEF SkipSatisfied, Classifying, FirstAttempt, BeginLayout, LayOutShrink, LayOutGrow,
            LayingOut, GiveSpace, Settle
    <2>2. Items' = Items
        BY <2>1 DEF Items
    <2> QED BY <2>2
<1>5. CASE ReuseRelocated \/ QueuePending
    <2>1. PICK e \in Item :
            /\ pc = "classify" /\ pc' = "classify"
            /\ \/ done' = Append(done, e) /\ todo' = todo
               \/ done' = done /\ todo' = Append(todo, e)
        <3>1. CASE ReuseRelocated
            <4>1. PICK p, alt : /\ pc = "classify" /\ pc' = "classify" /\ UNCHANGED todo
                                /\ done' = Append(done, Existing(p, alt))
                BY <3>1 DEF ReuseRelocated, Classifying
            <4>2. done'[Len(done) + 1] = Existing(p, alt) /\ Len(done) + 1 \in DOMAIN done'
                BY <1>1, <4>1
            <4>3. Existing(p, alt) \in Item
                BY <1>1, <4>2
            <4> QED BY <4>1, <4>3
        <3>2. CASE QueuePending
            <4>1. PICK p : /\ pc = "classify" /\ pc' = "classify" /\ UNCHANGED done
                           /\ todo' = Append(todo, Pending(p, req.grows[i].size))
                BY <3>2 DEF QueuePending, Classifying
            <4> DEFINE e == Pending(p, req.grows[i].size)
            <4>2. todo'[Len(todo) + 1] = e /\ Len(todo) + 1 \in DOMAIN todo'
                BY <1>1, <4>1
            <4>3. e \in Item
                BY <1>1, <4>2
            <4> QED BY <4>1, <4>3
        <3> QED BY <1>5, <3>1, <3>2
    <2>2. \E n : Inserted(Items, Items', n, e)
        BY <1>1, <2>1, InsertedBetween DEF Items
    <2>3. Items \in Seq(Item) /\ Items' \in Seq(Item)
        BY <1>1, <2>1, InsertedBetween DEF Items
    <2> QED BY <2>2, <2>3, InsertedAll
<1>6. CASE NothingPending
    <2>1. UNCHANGED done /\ todo = <<>> /\ resizes' = <<>> /\ Items' = Plan' /\ Items = done \o todo
        BY <1>2, <1>6 DEF NothingPending, InStep, locals, Items
    <2>2. Plan' = done \o <<>>
        BY <2>1 DEF Plan
    <2> QED BY <2>1, <2>2
<1>7. CASE LayoutComplete
    <2>1. /\ UNCHANGED <<done, todo, resizes>> /\ pc = "allocate" /\ Items' = Plan' /\ Plan' = Plan
          /\ Len(resizes) = Len(todo) /\ Items = done \o todo
        BY <1>1, <1>2, <1>7 DEF LayoutComplete, locals, Items, Plan, InStep
    <2>2. ASSUME NEW m \in DOMAIN (done \o todo)
          PROVE  m \in DOMAIN (done \o resizes) /\ (done \o resizes)[m].original = (done \o todo)[m].original
        <3>1. m \in DOMAIN (done \o resizes)
            BY <1>1, <2>1
        <3>2. LocalsTypeOK
            BY DEF TypeOK
        <3> QED BY <2>1, <3>1, <3>2, PlanFollows DEF Plan
    <2> QED BY <2>1, <2>2 DEF Plan
<1>8. CASE RetryWithShrink
    <2>1. PICK p : todo' = <<ShrinkItem(p)>> \o todo /\ UNCHANGED done /\ pc = "allocate" /\ pc' = "allocate"
        BY <1>8 DEF RetryWithShrink, Retry, BeginLayout, NoRoom, LayingOut
    <2>2. PICK e : e = ShrinkItem(p)
        OBVIOUS
    <2>3. e \in Item
        <3>1. todo'[1] = e /\ 1 \in DOMAIN todo'
            BY <1>1, <2>1, <2>2
        <3> QED BY <1>1, <3>1
    <2>4. \E n : Inserted(Items, Items', n, e)
        BY <1>1, <2>1, <2>2, <2>3, InsertedBetween DEF Items
    <2>5. Items \in Seq(Item) /\ Items' \in Seq(Item)
        BY <1>1, <2>1, <2>2, <2>3, InsertedBetween DEF Items
    <2> QED BY <2>4, <2>5, InsertedAll
<1>9. CASE NotDiscovered \/ InsufficientSpace
    BY <1>9 DEF NotDiscovered, InsufficientSpace, GiveUp
<1> QED BY <1>3, <1>4, <1>5, <1>6, <1>7, <1>8, <1>9 DEF Next

\* and goes through all grows.
LEMMA HandledPlanning ==
    ASSUME SensibleCalls, CallsInv, GrowsHandled, Planning
    PROVE  GrowsHandled'
<1>1. /\ Next /\ UNCHANGED <<table, req, origin>> /\ LocalsTypeOK /\ InStep /\ StoreOK
      /\ pc \in {"off", "classify", "allocate"} /\ pc' \in {"classify", "allocate", "planned", "failed"}
      /\ ApartInv
    BY NextFrame, TypeParts DEF CallsInv, Planning, environment, RunOK, ItemsCurrent, BeforeTableWrites
<1>2. TypeOK /\ NothingHeld
    BY <1>1, TypeParts DEF CallsInv, TypeOK, StoreOK, TableOK, LocalsTypeOK, ApartInv
<1>3. TypeOK' /\ InStep'
    BY <1>1, <1>2, TypeNext, InStepNext
<1> SUFFICES ASSUME pc' # "failed", NEW k \in DOMAIN req.grows, NEW p \in table, GrownBy(k, p),
                    pc' = "classify" => k < i', p.size # req.grows[k].size
             PROVE  \E j \in DOMAIN Items' : Items'[j].original.number = p.number
    BY <1>1, AskedFrame DEF GrowsHandled
<1>4. \A m \in DOMAIN Items : \E j \in DOMAIN Items' : Items'[j].original = Items[m].original
    BY <1>1, <1>2, <1>3, ItemsRemain
<1>5. i \in Nat \ {0} /\ k \in 1 .. Len(req.grows) /\ done \in Seq(Item) /\ todo \in Seq(Item)
    <2>1. req.grows \in Seq(Change)
        BY <1>1, RequestAssumption DEF StoreOK, Request
    <2> QED BY <1>1, <2>1 DEF LocalsTypeOK
<1>6. pc # "off"
    <2> SUFFICES ASSUME pc = "off" PROVE FALSE
        OBVIOUS
    <2>1. Discover
        BY <1>1 DEF Next, NotDiscovered, SkipSatisfied, ReuseRelocated, QueuePending, Classifying,
            NothingPending, FirstAttempt, LayOutShrink, LayOutGrow, LayingOut, LayoutComplete,
            RetryWithShrink, NoRoom, InsufficientSpace
    <2> QED BY <1>2, <1>5, <2>1 DEF Discover, locals, NothingHeld, InitLocals
<1>7. CASE pc = "classify" => k < i
    <2>1. \E m \in DOMAIN Items : Items[m].original.number = p.number
        BY <1>1, <1>6, <1>7 DEF GrowsHandled
    <2> QED BY <1>4, <2>1
<1>8. CASE pc = "classify" /\ ~(k < i)
    <2>1. SkipSatisfied \/ ReuseRelocated \/ QueuePending
        BY <1>1, <1>5, <1>8 DEF Next, Discover, NotDiscovered, NothingPending, FirstAttempt, LayOutShrink,
            LayOutGrow, LayingOut, LayoutComplete, RetryWithShrink, NoRoom, InsufficientSpace
    <2>2. PICK x \in table :
            /\ Classifying(x)
            /\ \/ Satisfied(x)
               \/ \E alt : done' = Append(done, Existing(x, alt)) /\ UNCHANGED todo
               \/ todo' = Append(todo, Pending(x, req.grows[i].size)) /\ UNCHANGED done
        BY <2>1 DEF SkipSatisfied, ReuseRelocated, QueuePending
    <2>3. k = i /\ pc' = "classify" /\ x \in FirstMatch(table, req.grows[i])
        BY <1>5, <1>8, <2>2 DEF Classifying
    <2>4. x = p
        BY <2>3, GrowNames, GrownOnce
    <2>5. ~Satisfied(x)
        BY <2>3, <2>4 DEF Satisfied
    <2>6. ASSUME NEW e \in Item, e.original = Data(p), NEW n, Inserted(Items, Items', n, e),
                 Items \in Seq(Item), Items' \in Seq(Item)
          PROVE  \E j \in DOMAIN Items' : Items'[j].original.number = p.number
        <3>1. e.original.number = p.number
            BY <2>6 DEF Data
        <3> QED BY <2>6, <3>1, InsertedAll
    <2>7. done' \in Seq(Item) /\ todo' \in Seq(Item) /\ Items = done \o todo /\ Items' = done' \o todo'
        BY <1>3, <1>8, <2>3 DEF TypeOK, LocalsTypeOK, Items
    <2>8. ASSUME NEW alt, done' = Append(done, Existing(p, alt)), UNCHANGED todo
          PROVE  \E j \in DOMAIN Items' : Items'[j].original.number = p.number
        <3>1. done'[Len(done) + 1] = Existing(p, alt) /\ Len(done) + 1 \in DOMAIN done'
            BY <1>5, <2>8
        <3>2. Existing(p, alt) \in Item /\ Existing(p, alt).original = Data(p)
            BY <2>7, <3>1 DEF Existing
        <3>3. Inserted(Items, Items', Len(done) + 1, Existing(p, alt))
            BY <1>5, <2>7, <2>8, <3>2, InsertedBetween
        <3>4. Items \in Seq(Item) /\ Items' \in Seq(Item)
            BY <1>5, <2>7
        <3> QED BY <2>6, <3>2, <3>3, <3>4
    <2>9. ASSUME todo' = Append(todo, Pending(p, req.grows[i].size)), UNCHANGED done
          PROVE  \E j \in DOMAIN Items' : Items'[j].original.number = p.number
        <3>1. PICK e : e = Pending(p, req.grows[i].size)
            OBVIOUS
        <3>2. todo'[Len(todo) + 1] = e /\ Len(todo) + 1 \in DOMAIN todo'
            BY <1>5, <2>9, <3>1
        <3>3. e \in Item /\ e.original = Data(p)
            BY <2>7, <3>1, <3>2 DEF Pending
        <3>4. Inserted(Items, Items', Len(done) + Len(todo) + 1, e)
            BY <1>5, <2>7, <2>9, <3>1, <3>3, InsertedBetween
        <3>5. Items \in Seq(Item) /\ Items' \in Seq(Item)
            BY <1>5, <2>7
        <3> QED BY <2>6, <3>3, <3>4, <3>5
    <2> QED BY <2>2, <2>4, <2>5, <2>8, <2>9
<1> QED BY <1>7, <1>8

\* A run that found the partitions to grow found those it was meant to.
LEMMA TherePlanning ==
    ASSUME SensibleCalls, CallsInv, GrowsThere, Planning
    PROVE  GrowsThere'
<1>1. /\ Next /\ UNCHANGED <<table, req, origin, finished>>
      /\ pc \in {"off", "classify", "allocate"}
    BY NextFrame DEF Planning, environment
<1>2. AllNamed' <=> AllNamed
    BY <1>1, GrowingFrame
<1>3. CASE pc # "off" \/ finished
    BY <1>1, <1>2, <1>3 DEF GrowsThere
<1>4. CASE pc = "off" /\ ~finished
    <2>1. CASE AllDiscovered
        <3> SUFFICES ASSUME NEW k \in DOMAIN req.grows PROVE \E g \in Ids : Matches(req.grows[k], Before(g))
            BY <1>2 DEF GrowsThere, AllNamed
        <3>1. req.grows[k] \in Requested /\ req.grows[k] \in Asked(req)
            BY DEF Requested, Asked
        <3>2. PICK p \in table : Matches(req.grows[k], p)
            BY <2>1, <3>1 DEF AllDiscovered, Discovered
        <3>3. Lasting(req.grows[k], req, origin)
            BY <3>1 DEF SensibleCalls, Sensible, CallsInv, TypeInv, DiskTypeOK
        <3>4. p.guid \in Ids /\ Before(p.guid) \in Named(req.grows[k], origin)
            BY <3>2, <3>3, NamedBefore DEF CallsInv
        <3> QED BY <3>4 DEF Named
    <2>2. CASE ~AllDiscovered
        <3>1. pc' = "failed"
            BY <1>1, <1>4, <2>2 DEF Next, Discover, NotDiscovered, SkipSatisfied, ReuseRelocated, QueuePending,
                Classifying, NothingPending, FirstAttempt, LayOutShrink, LayOutGrow, LayingOut, LayoutComplete,
                RetryWithShrink, NoRoom, InsufficientSpace
        <3> QED BY <1>1, <1>4, <3>1 DEF GrowsThere
    <2> QED BY <2>1, <2>2
<1> QED BY <1>3, <1>4

LEMMA SettlingPlanning ==
    ASSUME SensibleCalls, CallsInv, GrowthInv, SettlingInv, Planning
    PROVE  SettlingInv'
<1>1. /\ UNCHANGED <<table, req, origin, finished>> /\ pc' \in {"classify", "allocate", "planned", "failed"}
    BY NextFrame DEF Planning, environment
<1>2. (Settled' <=> Settled) /\ (CopiesExact' <=> CopiesExact)
    BY <1>1, AskedFrame, GrowingFrame DEF Settled, CopiesExact
<1>3. AllMoved' /\ FinishedSettled' /\ CopiesExact'
    BY <1>1, <1>2 DEF SettlingInv, AllMoved, WhileCopying, FinishedSettled
<1> QED BY <1>3, ExactPlanning, HandledPlanning, TherePlanning DEF SettlingInv
-----------------------------------------------------------------------------
\* The steps of a run that leave the plan and the table alone,
LEMMA SettlingStays ==
    ASSUME StoreOK, SettlingInv, UNCHANGED <<table, req, origin, finished, done, todo, resizes>>,
           pc \notin {"off", "classify", "allocate", "failed"}, pc' \notin {"off", "classify", "allocate"},
           pc' \in WhileCopying => pc \in WhileCopying
    PROVE  SettlingInv'
<1>1. /\ Items' = Plan /\ Items = Plan /\ Plan' = Plan /\ Moved' = Moved
      /\ (Settled' <=> Settled) /\ (CopiesExact' <=> CopiesExact) /\ (AllNamed' <=> AllNamed)
    BY AskedFrame, GrowingFrame DEF Items, Plan, Moved, Settled, CopiesExact
<1>2. ItemsExact' /\ TotalPositive'
    BY ExactSame DEF SettlingInv, ItemsExact, TotalPositive
<1>3. GrowsHandled'
    BY <1>1, AskedFrame DEF SettlingInv, GrowsHandled
<1>4. AllMoved'
    BY <1>1 DEF SettlingInv, AllMoved, InPlace
<1> QED BY <1>1, <1>2, <1>3, <1>4 DEF SettlingInv, SettledIdle, GrowsThere, FinishedSettled

\* those of others,
LEMMA SettlingUntouched ==
    ASSUME StoreOK, SettlingInv, UNCHANGED <<table, req, origin, finished, pc, locals>>
    PROVE  SettlingInv'
<1>1. /\ Items' = Items /\ Plan' = Plan /\ Moved' = Moved /\ UNCHANGED <<done, todo, resizes, total, i>>
      /\ (Settled' <=> Settled) /\ (CopiesExact' <=> CopiesExact) /\ (AllNamed' <=> AllNamed)
    BY AskedFrame, GrowingFrame DEF Items, Plan, Moved, Settled, CopiesExact, locals
<1>2. ItemsExact' /\ TotalPositive'
    BY <1>1, ExactSame DEF SettlingInv, ItemsExact, TotalPositive
<1>3. GrowsHandled'
    BY <1>1, AskedFrame DEF SettlingInv, GrowsHandled
<1>4. AllMoved'
    BY <1>1 DEF SettlingInv, AllMoved, InPlace
<1> QED BY <1>1, <1>2, <1>3, <1>4 DEF SettlingInv, SettledIdle, GrowsThere, FinishedSettled

\* and the end of a run.
LEMMA SettlingExited ==
    ASSUME Exit, CopiesExact', finished' => Settled' /\ AllNamed'
    PROVE  SettlingInv'
<1>1. pc' = "off" /\ done' = <<>> /\ todo' = <<>> /\ resizes' = <<>>
    BY DEF Exit
<1>2. ItemsExact' /\ TotalPositive' /\ GrowsHandled' /\ AllMoved' /\ SettledIdle' /\ GrowsThere' /\ FinishedSettled'
    BY <1>1 DEF ItemsExact, TotalPositive, GrowsHandled, AllMoved, WhileCopying, SettledIdle, GrowsThere,
        FinishedSettled
<1> QED BY <1>2 DEF SettlingInv

\* A table write changes nothing once there is nothing to do.
LEMMA SettledStill ==
    ASSUME SettledIdle, Settled, ShrinkPartitions \/ CreatePartitions \/ UpdatePartitions
    PROVE  table' = table
<1>1. DOMAIN Plan = {} /\ Moved = {}
    BY DEF SettledIdle, Plan, Moved
<1>2. CASE ShrinkPartitions
    <2>1. \A p \in table : Shrinks(p) = {}
        BY <1>1 DEF Shrinks
    <2> QED BY <1>2, <2>1 DEF ShrinkPartitions
<1>3. CASE CreatePartitions
    BY <1>1, <1>3 DEF CreatePartitions, Commit
<1>4. CASE UpdatePartitions
    <2>1. \A p \in table : ~Superseded(p) /\ FinalEntry(p) = p
        BY <1>1 DEF Superseded, MovedTo, FinalEntry
    <2> QED BY <1>4, <2>1 DEF UpdatePartitions, Commit
<1> QED BY <1>2, <1>3, <1>4

LEMMA SettlingShrinkPartitions ==
    ASSUME CallsInv, GrowthInv, SettlingInv, ShrinkPartitions
    PROVE  SettlingInv'
<1>1. /\ pc = "shrinkPartitions" /\ UNCHANGED <<req, origin>> /\ table' = {ShrunkEntry(p) : p \in table}
      /\ StoreOK /\ LocalsTypeOK /\ TypeInv /\ ApartInv /\ \A p \in table : p.size \in Nat
    BY ShrinkWrites, TypeParts DEF ShrinkPartitions, environment, StoreOK, TableOK, Entry, CallsInv, RunOK
<1>2. \A p \in table : /\ ShrunkEntry(p).size <= p.size /\ ShrunkEntry(p).guid = p.guid
                       /\ ShrunkEntry(p).number = p.number /\ ShrunkEntry(p).name = p.name
    BY <1>1, ShrunkFits
<1>3. \A q \in table : q.guid \notin Ids => ShrunkEntry(q) = q
    BY <1>1, CopiesKeepSize
<1>4. \A p \in table : ShrunkEntry(p).size \in Nat
    BY <1>1, ApartSlots, ShrunkEntryIs DEF Entry
<1>5. \A k \in DOMAIN req.grows : req.grows[k].size \in Int
    BY <1>1, SizeIsInt
<1>6. \A p \in table, k \in DOMAIN req.grows : Growing(k, p) => Growing(k, ShrunkEntry(p))
    BY <1>1, <1>2, <1>4, <1>5 DEF Growing, GrownBy
<1>7. CopiesExact'
    <2> SUFFICES ASSUME NEW q \in table, ShrunkEntry(q).guid \notin Ids
                 PROVE  \E k \in DOMAIN req.grows : \E p \in table' :
                            /\ Growing(k, p) /\ ShrunkEntry(q).name = Alternate(p.name)
                            /\ ShrunkEntry(q).size = req.grows[k].size
        BY <1>1, AskedFrame, GrowingFrame DEF CopiesExact
    <2>1. ShrunkEntry(q) = q /\ q.guid \notin Ids
        BY <1>2, <1>3
    <2>2. PICK k \in DOMAIN req.grows, p \in table :
            Growing(k, p) /\ q.name = Alternate(p.name) /\ q.size = req.grows[k].size
        BY <2>1 DEF SettlingInv, CopiesExact
    <2>3. ShrunkEntry(p) \in table' /\ Growing(k, ShrunkEntry(p)) /\ ShrunkEntry(p).name = p.name
        BY <1>1, <1>2, <1>6, <2>2
    <2> QED BY <2>1, <2>2, <2>3
<1>8. Settled' => Settled
    <2> SUFFICES ASSUME NEW k \in DOMAIN req.grows, NEW p \in table, GrownBy(k, p), p.size # req.grows[k].size
                 PROVE  ~Settled'
        BY DEF Settled
    <2>1. Growing(k, p)
        BY <1>1, <1>5 DEF Growing, GrowthInv, SizesAsked
    <2>2. PICK x \in table' : Growing(k, x)
        BY <1>1, <1>6, <2>1
    <2>3. GrownBy(k, x)' /\ x.size # req.grows[k].size
        <3>1. x.size \in Nat
            BY <1>1, <1>4
        <3> QED BY <1>1, <1>5, <2>2, <3>1, AskedFrame DEF Growing
    <2> QED BY <1>1, <2>2, <2>3 DEF Settled
<1>9. finished' => Settled' /\ AllNamed'
    <2> SUFFICES ASSUME finished' PROVE Settled' /\ AllNamed'
        OBVIOUS
    <2>1. finished
        BY DEF ShrinkPartitions, Commit
    <2>2. Settled /\ AllNamed /\ table' = table
        BY <2>1, SettledStill DEF SettlingInv, FinishedSettled, GrowsThere
    <2> QED BY <1>1, <2>2, AskedFrame, GrowingFrame DEF Settled
<1>10. Exit \/ Restart("createPartitions")
    BY DEF ShrinkPartitions, Commit
<1>11. CASE Exit
    BY <1>7, <1>9, <1>11, SettlingExited
<1>12. CASE Restart("createPartitions")
    <2>1. /\ pc' = "createPartitions" /\ UNCHANGED <<done, todo, resizes>> /\ Plan' = Plan
          /\ Items' = Plan /\ Items = Plan
        BY <1>1, <1>12 DEF Restart, Plan, Items
    <2>2. \A item : Exact(item) => Exact(item)'
        BY <1>1, <1>2, <1>4, ExactStays
    <2>3. ItemsExact' /\ TotalPositive' /\ AllMoved'
        BY <2>1, <2>2 DEF SettlingInv, ItemsExact, TotalPositive, AllMoved, WhileCopying
    <2>4. GrowsHandled'
        <3> SUFFICES ASSUME NEW k \in DOMAIN req.grows, NEW p \in table, GrownBy(k, ShrunkEntry(p))
                     PROVE  \/ ShrunkEntry(p).size = req.grows[k].size
                            \/ \E m \in DOMAIN Plan : Plan[m].original.number = ShrunkEntry(p).number
            BY <1>1, <2>1, AskedFrame DEF GrowsHandled
        <3>1. GrownBy(k, p) /\ ShrunkEntry(p).number = p.number
            BY <1>2 DEF GrownBy
        <3>2. p.size = req.grows[k].size \/ \E m \in DOMAIN Plan : Plan[m].original.number = p.number
            BY <1>1, <2>1, <3>1 DEF SettlingInv, GrowsHandled
        <3>3. CASE Shrinks(p) = {}
            BY <3>1, <3>2, <3>3 DEF ShrunkEntry
        <3>4. CASE Shrinks(p) # {}
            BY <3>1, <3>4 DEF Shrinks
        <3> QED BY <3>3, <3>4
    <2>5. SettledIdle'
        BY <1>8, <2>1 DEF SettlingInv, SettledIdle
    <2>6. GrowsThere' /\ FinishedSettled'
        <3>1. AllNamed' <=> AllNamed
            BY <1>1, GrowingFrame
        <3> QED BY <1>1, <1>9, <3>1 DEF SettlingInv, GrowsThere, FinishedSettled
    <2> QED BY <1>7, <2>3, <2>4, <2>5, <2>6 DEF SettlingInv
<1> QED BY <1>10, <1>11, <1>12

\* Every item that grows a partition has its copy elsewhere.
LEMMA TargetElsewhere ==
    ASSUME TypeInv, ApartInv, pc = "createPartitions", NEW k \in DOMAIN Plan, ~InPlace(Plan[k])
    PROVE  k \in Moved
<1>1. StoreOK /\ LocalsTypeOK /\ SourcesKnown /\ SoundTable(table, DiskSize)
    BY TypeParts DEF RunOK, ApartInv
<1>2. PICK p \in table : p.number = Plan[k].original.number /\ p.start = Plan[k].original.start
    BY <1>1 DEF SourcesKnown
<1>3. p.start \in Nat /\ p.size \in Nat \ {0} /\ p.name \in Label
    BY <1>1, EntryBytes DEF StoreOK, TableOK, Entry
<1>4. CASE k \in DOMAIN done
    <2>1. Plan[k] = done[k]
        BY <1>1, <1>4, PlanParts
    <2>2. PICK x, y \in table : /\ x.number = done[k].original.number
                                /\ y.start = done[k].target.start
                                /\ y.name = Alternate(x.name)
        BY <1>4 DEF ApartInv, DoneThere
    <2>3. x = p
        BY <1>1, <1>2, <2>1, <2>2 DEF SoundTable
    <2>4. y # p
        <3>1. Alternate(p.name) # p.name
            BY <1>3 DEF Alternate, Label
        <3> QED BY <2>2, <2>3, <3>1
    <2>5. y.start # p.start
        BY <1>1, <2>4, StartsDistinct
    <2> QED BY <1>2, <2>1, <2>2, <2>5 DEF Moved
<1>5. ASSUME NEW m \in DOMAIN resizes, Plan[k] = resizes[m]
      PROVE  k \in Moved
    <2>1. m \in Grown
        BY <1>5 DEF Grown
    <2>2. Extent(resizes[m].target) \cap Extent(p) = {}
        BY <2>1 DEF ApartInv, PlacesClear
    <2>3. resizes[m] \in Item
        BY <1>1 DEF LocalsTypeOK
    <2>4. resizes[m].target.start \in Int /\ resizes[m].target.size \in Int /\ resizes[m].target.size >= 1
        <3>1. resizes[m].original.size \in Nat \ {0} /\ resizes[m].target.size \in Int
            BY <2>3, ItemFields
        <3> QED BY <1>5, <2>3, <3>1 DEF InPlace, Item, Target
    <2>5. resizes[m].target.start # p.start
        <3>1. p.start \in Extent(p) /\ resizes[m].target.start \in Extent(resizes[m].target)
            BY <1>3, <2>4 DEF Extent, Bytes
        <3> QED BY <2>2, <3>1
    <2> QED BY <1>2, <1>5, <2>5 DEF Moved
<1> QED BY <1>1, <1>4, <1>5, PlanParts

LEMMA SettlingCreatePartitions ==
    ASSUME CallsInv, SettlingInv, WholeSectorsAsked, CreatePartitions
    PROVE  SettlingInv'
<1>1. /\ pc = "createPartitions" /\ UNCHANGED <<req, origin>> /\ table \subseteq table' /\ Ids' = Ids
      /\ SoundTable(table, DiskSize)' /\ TypeInv /\ ApartInv
      /\ StoreOK /\ LocalsTypeOK /\ SourcesKnown
    BY ApartCreated, TypeParts DEF CreatePartitions, environment, Commit, Ids, CallsInv, RunOK
<1>2. TableOK'
    BY <1>1, CreatePartitionsOK, TypePartsNext, PTL, TypeParts DEF StoreOK
<1>3. \A e \in table' : e.guid \in Ids => e \in table
    <2> SUFFICES ASSUME NEW e \in table', e \notin table PROVE e.guid \notin Ids
        OBVIOUS
    <2>1. PICK m \in Grown, k \in Moved, p \in table : e = NewEntry(p, resizes[m])
        BY <1>1, CreatedIs
    <2>2. e.guid = <<"fresh", resizes[m].target.number>>
        BY <2>1, NewEntryParts
    <2> QED BY <1>1, <2>2, IdsAreOriginal
<1>4. \A k \in DOMAIN Plan : Exact(Plan[k])
    BY <1>1, PlanParts DEF SettlingInv, ItemsExact
<1>5. CopiesExact'
    <2> SUFFICES ASSUME NEW q \in table', q.guid \notin Ids
                 PROVE  \E k \in DOMAIN req.grows : \E p \in table' :
                            Growing(k, p) /\ q.name = Alternate(p.name) /\ q.size = req.grows[k].size
        BY <1>1, AskedFrame, GrowingFrame DEF CopiesExact
    <2>1. CASE q \in table
        BY <1>1, <2>1 DEF SettlingInv, CopiesExact
    <2>2. CASE q \notin table
        <3>1. PICK m \in Grown, j \in Moved, x \in table :
                Plan[j] = resizes[m] /\ x.number = resizes[m].original.number /\ q = NewEntry(x, resizes[m])
            BY <1>1, <2>2, CreatedIs
        <3>2. q.name = Alternate(x.name) /\ q.size = Align(resizes[m].target.size)
            BY <3>1, NewEntryParts DEF NewEntry
        <3>3. j \in DOMAIN Plan /\ ~InPlace(Plan[j]) /\ x \in Original(Plan[j])
            BY <3>1 DEF Grown, Original, Moved
        <3>4. PICK k \in DOMAIN req.grows : Growing(k, x) /\ resizes[m].target.size = req.grows[k].size
            BY <1>4, <3>1, <3>3 DEF Exact
        <3>5. q.size = req.grows[k].size
            BY <1>1, <3>2, <3>4 DEF WholeSectorsAsked, StoreOK
        <3> QED BY <1>1, <3>1, <3>2, <3>4, <3>5
    <2> QED BY <2>1, <2>2
<1>6. Settled' <=> Settled
    BY <1>1, <1>3, AskedFrame DEF Settled, GrownBy
<1>7. finished' => Settled' /\ AllNamed'
    <2> SUFFICES ASSUME finished' PROVE Settled' /\ AllNamed'
        OBVIOUS
    <2>1. finished
        BY DEF CreatePartitions, Commit
    <2> QED BY <1>1, <1>6, <2>1, GrowingFrame DEF SettlingInv, FinishedSettled, GrowsThere
<1>8. Exit \/ Restart("copyFilesystems")
    BY DEF CreatePartitions, Commit
<1>9. CASE Exit
    BY <1>5, <1>7, <1>9, SettlingExited
<1>10. CASE Restart("copyFilesystems")
    <2>1. /\ pc' = "copyFilesystems" /\ UNCHANGED <<done, todo, resizes>> /\ Plan' = Plan /\ Moved' = Moved
          /\ Items' = Plan /\ Items = Plan
        BY <1>1, <1>10 DEF Restart, Plan, Moved, Items
    <2>2. ASSUME NEW k \in DOMAIN Plan, NEW e \in table', e.number = Plan[k].original.number
          PROVE  e \in table
        BY <1>1, <2>2 DEF SourcesKnown, SoundTable
    <2>3. \A q \in table' : q.size \in Nat
        BY <1>2 DEF TableOK, Entry
    <2>4. ItemsExact' /\ TotalPositive'
        <3>1. ASSUME NEW k \in DOMAIN Plan, NEW item, item = Plan[k] PROVE Exact(item)'
            BY <1>1, <1>4, <2>2, <2>3, <3>1, ExactStays
        <3>2. /\ \A k \in DOMAIN done : \E m \in DOMAIN Plan : done[k] = Plan[m]
              /\ \A k \in DOMAIN resizes : \E m \in DOMAIN Plan : resizes[k] = Plan[m]
            BY <1>1, PlanParts
        <3>3. \A k \in DOMAIN Plan : \A item : item = Plan[k] => Exact(item)'
            BY <3>1
        <3> QED BY <2>1, <3>2, <3>3 DEF ItemsExact, TotalPositive
    <2>5. GrowsHandled'
        BY <1>1, <1>3, <2>1, AskedFrame DEF SettlingInv, GrowsHandled, GrownBy
    <2>6. AllMoved'
        BY <1>1, <2>1, TargetElsewhere DEF AllMoved, InPlace
    <2>7. SettledIdle'
        BY <1>6, <2>1 DEF SettlingInv, SettledIdle
    <2>8. GrowsThere' /\ FinishedSettled'
        <3>1. AllNamed' <=> AllNamed
            BY <1>1, GrowingFrame
        <3> QED BY <1>1, <1>7, <3>1 DEF SettlingInv, GrowsThere, FinishedSettled
    <2> QED BY <1>5, <2>4, <2>5, <2>6, <2>7, <2>8 DEF SettlingInv
<1> QED BY <1>8, <1>9, <1>10

\* While they are copied, what is to grow is what moves.
LEMMA GrowingMoves ==
    ASSUME SensibleCalls, CallsInv, SettlingInv, pc \in WhileCopying,
           NEW k \in DOMAIN req.grows, NEW p \in table, Growing(k, p)
    PROVE  \E m \in Moved : p \in Original(Plan[m]) /\ ~InPlace(Plan[m]) /\ Plan[m].target.size = req.grows[k].size
<1>1. /\ Items = Plan /\ LocalsTypeOK /\ StoreOK /\ p.size \in Nat /\ req.grows[k].size \in Int
    BY TypeParts, SizeIsInt DEF Items, WhileCopying, CallsInv, RunOK, StoreOK, TableOK, Entry
<1>2. GrownBy(k, p) /\ p.size # req.grows[k].size
    BY <1>1 DEF Growing
<1>3. PICK m \in DOMAIN Plan : Plan[m].original.number = p.number
    BY <1>1, <1>2 DEF SettlingInv, GrowsHandled, WhileCopying
<1>4. p \in Original(Plan[m])
    BY <1>3 DEF Original
<1>5. Exact(Plan[m])
    BY <1>1, PlanParts DEF SettlingInv, ItemsExact
<1>6. ~Offered(p)
    BY <1>2, GrownByOne
<1>7. PICK j \in DOMAIN req.grows : ~InPlace(Plan[m]) /\ Growing(j, p) /\ Plan[m].target.size = req.grows[j].size
    BY <1>4, <1>5, <1>6 DEF Exact
<1>8. j = k
    BY <1>2, <1>7, GrownByOne DEF Growing
<1>9. m \in Moved
    BY <1>7 DEF SettlingInv, AllMoved
<1> QED BY <1>4, <1>7, <1>8, <1>9

\* At the end every copy takes its original's place.
LEMMA CopyTaken ==
    ASSUME SensibleCalls, CallsInv, GrowthInv, SettlingInv, pc = "updatePartitions",
           NEW y \in table, y.guid \notin Ids
    PROVE  MovedTo(y) # {}
<1>1. PICK k \in DOMAIN req.grows, p \in table : Growing(k, p) /\ y.name = Alternate(p.name)
    BY DEF SettlingInv, CopiesExact
<1>2. PICK m \in Moved : p \in Original(Plan[m])
    BY <1>1, GrowingMoves DEF WhileCopying
<1>3. PICK x \in Relocated(Plan[m]) : TRUE
    BY DEF CallsInv, IdentityInv, CopiesThere, CopiedItems
<1>4. x.name = y.name
    BY <1>1, <1>2 DEF GrowthInv, CopiesNamed, WhileCopying
<1>5. x = y
    BY <1>3, <1>4 DEF CallsInv, IdentityInv, IdentityKept, Relocated
<1>6. y.start = Align(Plan[m].target.start)
    BY <1>5 DEF CallsInv, IdentityInv, CopyTargets, WhileCopying
<1> QED BY <1>6 DEF MovedTo

LEMMA MovedGoes ==
    ASSUME TypeInv, ApartInv, NEW m \in Moved, NEW p \in Original(Plan[m])
    PROVE  Superseded(p)
<1>1. m \in DOMAIN Plan /\ p \in table /\ SourcesKnown /\ SoundTable(table, DiskSize) /\ TableOnDisk
    BY TypeParts DEF Moved, Original, RunOK, StoreOK, TableOK, ApartInv
<1>2. PICK x \in table : x.number = Plan[m].original.number /\ x.start = Plan[m].original.start
    BY <1>1 DEF SourcesKnown
<1>3. x = p
    BY <1>1, <1>2 DEF Original, SoundTable
<1>4. p.start = Align(Plan[m].original.start)
    BY <1>1, <1>2, <1>3 DEF TableOnDisk
<1> QED BY <1>4 DEF Superseded

\* So the last table write of a run gives everything its size.
LEMMA SettlingUpdatePartitions ==
    ASSUME SensibleCalls, CallsInv, GrowthInv, SettlingInv, UpdatePartitions
    PROVE  SettlingInv' /\ Settled' /\ \A q \in table' : q.guid \in Ids
<1> DEFINE kept == {q \in table : ~Superseded(q)}
<1>1. /\ pc = "updatePartitions" /\ UNCHANGED <<req, origin>> /\ Exit /\ Ids' = Ids
      /\ table' = {FinalEntry(q) : q \in kept} /\ TypeInv /\ ApartInv /\ IdentityInv /\ StoreOK
    BY TypeParts DEF UpdatePartitions, Commit, environment, CallsInv, Ids
<1>2. \A q \in table : FinalEntry(q).size = q.size /\ (MovedTo(q) = {} => FinalEntry(q) = q)
    BY <1>1, FinalEntryIs
<1>3. ASSUME NEW q \in table, MovedTo(q) # {}
      PROVE  \E p \in table : /\ FinalEntry(q).guid = p.guid /\ FinalEntry(q).name = p.name /\ p.guid \in Ids
                              /\ q.guid \notin Ids /\ q.name = Alternate(p.name)
    BY <1>1, <1>3, BecomesOriginal
<1>4. Settled'
    <2> SUFFICES ASSUME NEW k \in DOMAIN req.grows, NEW q \in kept, GrownBy(k, FinalEntry(q))
                 PROVE  FinalEntry(q).size = req.grows[k].size
        BY <1>1, AskedFrame DEF Settled
    <2>1. CASE MovedTo(q) = {}
        <3> SUFFICES ASSUME q.size # req.grows[k].size PROVE FALSE
            BY <1>2, <2>1
        <3>1. GrownBy(k, q) /\ q.size \in Nat /\ req.grows[k].size \in Int
            BY <1>1, <1>2, <2>1, SizeIsInt DEF StoreOK, TableOK, Entry
        <3>2. Growing(k, q)
            BY <3>1 DEF Growing, GrowthInv, SizesAsked
        <3>3. PICK m \in Moved : q \in Original(Plan[m])
            BY <1>1, <3>2, GrowingMoves DEF WhileCopying
        <3> QED BY <1>1, <3>3, MovedGoes
    <2>2. CASE MovedTo(q) # {}
        <3>1. PICK p \in table : /\ FinalEntry(q).guid = p.guid
                                 /\ q.guid \notin Ids /\ q.name = Alternate(p.name)
            BY <1>3, <2>2
        <3>2. GrownBy(k, p)
            BY <3>1 DEF GrownBy
        <3>3. q.size = req.grows[k].size
            BY <3>1, <3>2, CopyOfGrown DEF SettlingInv
        <3> QED BY <1>2, <3>3
    <2> QED BY <2>1, <2>2
<1>5. ASSUME NEW q \in table' PROVE q.guid \in Ids
    <2>1. PICK y \in kept : q = FinalEntry(y)
        BY <1>1
    <2>2. CASE y.guid \in Ids
        BY <1>1, <1>2, <1>3, <2>1, <2>2
    <2>3. CASE y.guid \notin Ids
        BY <1>1, <1>3, <2>1, <2>3, CopyTaken
    <2> QED BY <2>2, <2>3
<1>6. CopiesExact'
    BY <1>1, <1>5 DEF CopiesExact
<1>7. AllNamed'
    BY <1>1, GrowingFrame DEF SettlingInv, GrowsThere
<1> QED BY <1>1, <1>4, <1>5, <1>6, <1>7, SettlingExited

\* On the disk a run starts with nothing is copied or planned.
LEMMA SettlingInit == DiskInit => SettlingInv
<1> SUFFICES ASSUME DiskInit PROVE SettlingInv
    OBVIOUS
<1>1. table = origin /\ pc = "off" /\ done = <<>> /\ todo = <<>> /\ resizes = <<>> /\ ~finished
    BY DEF DiskInit, Init, InitLocals
<1> QED BY <1>1 DEF SettlingInv, CopiesExact, ItemsExact, TotalPositive, GrowsHandled, AllMoved, WhileCopying,
            SettledIdle, GrowsThere, FinishedSettled, Ids

LEMMA SettlingNext ==
    ASSUME SensibleCalls, MaxChanges = 0, WholeSectorsAsked, CallsInv, GrowthInv, SettlingInv, [DiskNext]_vars
    PROVE  SettlingInv'
<1>1. TypeInv /\ StoreOK /\ changes = 0
    BY TypeParts DEF CallsInv, TypeInv, DiskTypeOK
<1>2. CASE Planning
    BY <1>2, SettlingPlanning
<1>3. CASE Abort \/ DryRun \/ Interrupt
    <2>1. Exit /\ UNCHANGED <<table, req, origin, finished>>
        BY <1>3 DEF Abort, DryRun, Interrupt, environment
    <2>2. CopiesExact' /\ (finished' => Settled' /\ AllNamed')
        BY <2>1, AskedFrame, GrowingFrame DEF SettlingInv, CopiesExact, FinishedSettled, GrowsThere, Settled
    <2> QED BY <2>1, <2>2, SettlingExited
<1>4. CASE \/ Execute \/ NextPhase \/ Checking
           \/ KeepFilesystem \/ ShrinkRefused \/ ShrinkOnDevice \/ ShrinkWriteBack \/ ShrinkWrittenBack
    <2>1. /\ UNCHANGED <<table, req, origin, finished, done, todo, resizes>>
          /\ pc \notin {"off", "classify", "allocate", "failed"} /\ pc' \notin {"off", "classify", "allocate"}
          /\ pc' \in WhileCopying => pc \in WhileCopying
        BY <1>4, CheckingFrame DEF Execute, NextPhase, Loop, Restart, KeepFilesystem,
            ShrinkRefused, ShrinkOnDevice, ShrinkWriteBack, ShrinkWrittenBack, Advance, GoTo, At, locals,
            environment, WhileCopying
    <2> QED BY <1>1, <2>1, SettlingStays
<1>5. CASE ShrinkPartitions
    BY <1>5, SettlingShrinkPartitions
<1>6. CASE CreatePartitions
    BY <1>6, SettlingCreatePartitions
<1>7. CASE SkipUnmoved \/ SkipMatching \/ Format \/ Fill \/ StartRawCopy \/ FinishRawCopy \/ CopyUnsupported
    <2>1. /\ UNCHANGED <<table, req, origin, finished, done, todo, resizes>>
          /\ pc \notin {"off", "classify", "allocate", "failed"} /\ pc' \notin {"off", "classify", "allocate"}
          /\ pc \in WhileCopying
        BY <1>7 DEF SkipUnmoved, SkipMatching, Format, Fill, StartRawCopy, FinishRawCopy, CopyUnsupported,
            Copying, Advance, GoTo, At, locals, environment, WhileCopying
    <2> QED BY <1>1, <2>1, SettlingStays
<1>8. CASE UpdatePartitions
    BY <1>8, SettlingUpdatePartitions
<1>9. CASE OsWrites \/ UNCHANGED vars
    <2>1. UNCHANGED <<table, req, origin, finished, pc, locals>>
        BY <1>9 DEF OsWrites, vars, plannerVars, environment
    <2> QED BY <1>1, <2>1, SettlingUntouched
<1>10. ~ChangeRequest
    BY <1>1 DEF ChangeRequest
<1> QED BY <1>2, <1>3, <1>4, <1>5, <1>6, <1>7, <1>8, <1>9, <1>10 DEF DiskNext, Run, Checking
-----------------------------------------------------------------------------
\* Where a grown partition is filled it stays so while nothing is written,
LEMMA FillStays ==
    ASSUME FillInv, UNCHANGED <<table, req, origin, disk>>, RawOnly'
    PROVE  FillInv'
<1>1. \A p : ContentOf(p)' = ContentOf(p)
    BY SameDisk
<1>2. GrownFill' /\ CopiesFill'
    BY <1>1, AskedFrame DEF FillInv, GrownFill, CopiesFill, CanGrow
<1>3. NoStrays'
    BY AskedFrame, GrowingFrame DEF FillInv, NoStrays
<1> QED BY <1>2, <1>3 DEF FillInv

\* and a write to one entry, of what it or the partition it is a copy of holds,
\* matters for that entry only.
LEMMA FillWritten ==
    ASSUME StoreOK, ApartInv, FillInv, UNCHANGED <<table, req, origin>>, RawOnly', DOMAIN disk' = DOMAIN disk,
           NEW x \in table, NEW y \in table, NEW bytes \in SUBSET Extent(y),
           y = x \/ (x.guid \in Ids /\ y.guid \notin Ids /\ y.name = Alternate(x.name)),
           \A b \in DOMAIN disk \ bytes : disk'[b] = disk[b],
           \A b \in bytes : disk'[b].fs = Junk.fs \/ \E c \in Extent(x) : disk'[b].fs = disk[c].fs,
           \A k \in DOMAIN req.grows : GrownBy(k, y) /\ CanGrow(y) => ContentOf(y)'.length = y.size,
           \A k \in DOMAIN req.grows : \A p \in table :
               /\ GrownBy(k, p) /\ CanGrow(p)
               /\ y.guid \notin Ids /\ y.name = Alternate(p.name) /\ ContentOf(y)'.fs = p.guid
               => ContentOf(y)'.length = y.size
    PROVE  FillInv'
<1>1. \A p \in table : p # y => ContentOf(p)' = ContentOf(p)
    BY ContentElsewhere
<1>2. GrownFill'
    <2> SUFFICES ASSUME NEW k \in DOMAIN req.grows, NEW p \in table, GrownBy(k, p), CanGrow(p)
                 PROVE  ContentOf(p)'.length = p.size
        BY AskedFrame DEF GrownFill, CanGrow
    <2> QED BY <1>1 DEF FillInv, GrownFill
<1>3. CopiesFill'
    <2> SUFFICES ASSUME NEW k \in DOMAIN req.grows, NEW p \in table, NEW q \in table, GrownBy(k, p), CanGrow(p),
                        q.guid \notin Ids, q.name = Alternate(p.name), ContentOf(q)'.fs = p.guid
                 PROVE  ContentOf(q)'.length = q.size
        BY AskedFrame DEF CopiesFill, CanGrow
    <2> QED BY <1>1 DEF FillInv, CopiesFill
<1>4. NoStrays'
    <2> SUFFICES ASSUME NEW k \in DOMAIN req.grows, NEW p \in table, NEW b \in DOMAIN disk,
                        Growing(k, p), disk'[b].fs = p.guid
                 PROVE  \/ b \in Extent(p)
                        \/ \E q \in table : q.guid \notin Ids /\ q.name = Alternate(p.name) /\ b \in Extent(q)
        BY AskedFrame, GrowingFrame DEF NoStrays
    <2>1. CASE b \notin bytes
        BY <2>1 DEF FillInv, NoStrays
    <2>2. CASE b \in bytes
        <3>1. p.guid \in Ids /\ Junk.fs \notin Ids
            BY IdsAreOriginal DEF Growing, GrownBy, Junk, Made
        <3>2. PICK c \in Extent(x) : disk[c].fs = p.guid
            BY <2>2, <3>1
        <3>3. c \in DOMAIN disk
            <4>1. c \in Bytes(x.start, x.size) /\ x.start \in Nat /\ x.size \in Nat /\ x.start + x.size <= DiskSize
                BY <3>2, EntryBytes DEF StoreOK, Extent
            <4> QED BY <4>1, SizeAssumption DEF Bytes, StoreOK
        <3>4. b \in Extent(y)
            BY <2>2
        <3>5. CASE c \in Extent(p)
            <4>1. x = p
                BY <3>2, <3>5 DEF ApartInv, SoundTable
            <4> QED BY <3>4, <4>1
        <3>6. CASE c \notin Extent(p)
            <4>1. PICK q \in table : q.guid \notin Ids /\ q.name = Alternate(p.name) /\ c \in Extent(q)
                BY <3>2, <3>3, <3>6 DEF FillInv, NoStrays
            <4>2. x = q
                BY <3>2, <4>1 DEF ApartInv, SoundTable
            <4> QED BY <3>4, <4>1, <4>2
        <3> QED BY <3>5, <3>6
    <2> QED BY <2>1, <2>2
<1> QED BY <1>2, <1>3, <1>4 DEF FillInv

\* What is about the offered partition is about no partition that grows.
LEMMA OfferedWritten ==
    ASSUME SensibleCalls, CallsInv, GrowthInv, SettlingInv, FillInv, UNCHANGED <<table, req, origin>>, RawOnly',
           pc \notin {"off", "classify", "allocate"}, i \in DOMAIN Plan, InPlace(Plan[i]), NEW p \in Original(Plan[i]),
           NEW bytes \in SUBSET Extent(p), NEW c, disk' = Written(bytes, c),
           c.fs \in {Junk.fs, disk[p.start].fs}
    PROVE  FillInv'
<1>1. StoreOK /\ LocalsTypeOK /\ ApartInv /\ p \in table
    BY TypeParts DEF CallsInv, RunOK, Original
<1>2. p.start \in Extent(p)
    BY <1>1, EntryBytes DEF StoreOK, Extent, Bytes
<1>3. Exact(Plan[i])
    BY <1>1, PlanParts DEF SettlingInv, ItemsExact
<1>4. Offered(p)
    BY <1>3 DEF Exact
<1>5. p.guid \in Ids /\ \A k \in DOMAIN req.grows : ~GrownBy(k, p)
    BY <1>1, <1>4, GrownByOne DEF Offered
<1>6. /\ DOMAIN disk' = DOMAIN disk
      /\ \A b \in bytes : disk'[b] = c
      /\ \A b \in DOMAIN disk \ bytes : disk'[b] = disk[b]
    BY <1>1, WrittenThere DEF Written
<1> QED BY <1>1, <1>2, <1>5, <1>6, FillWritten

LEMMA FillShrinks ==
    ASSUME SensibleCalls, CallsInv, DataInv({}), GrowthInv, SettlingInv, FillInv,
           ShrinkOnDevice \/ ShrinkWriteBack \/ ShrinkWrittenBack
    PROVE  FillInv'
<1>1. /\ UNCHANGED <<table, req, origin>> /\ RawOnly' /\ pc \in {"shrinkFilesystems", "writeBack"}
      /\ StoreOK /\ LocalsTypeOK /\ CursorAtItem /\ TypeInv /\ ApartInv
    BY TypeParts DEF ShrinkOnDevice, ShrinkWriteBack, ShrinkWrittenBack, At, Advance, GoTo, environment, RawOnly,
        CallsInv, RunOK
<1>2. CASE ShrinkOnDevice \/ ShrinkWriteBack
    <2>1. /\ pc = "shrinkFilesystems" /\ i \in DOMAIN Plan /\ InPlace(Plan[i])
        BY <1>1, <1>2, PlanParts DEF ShrinkOnDevice, ShrinkWriteBack, At, LocalsTypeOK
    <2>2. PICK p \in Original(Plan[i]) :
            /\ ShrinkSupported(p, Plan[i])
            /\ \/ disk' = Written(Bytes(p.start, Shrunk(p, Plan[i]).length), Shrunk(p, Plan[i]))
               \/ \E n \in 1 .. Shrunk(p, Plan[i]).length : disk' = Written(Bytes(p.start, n), Shrunk(p, Plan[i]))
        BY <1>2 DEF ShrinkOnDevice, ShrinkWriteBack
    <2>3. p \in table
        BY DEF Original
    <2> DEFINE c == Shrunk(p, Plan[i])
    <2>4. c.length \in 1 .. p.size /\ c.fs = ContentOf(p).fs
        BY <1>1, <2>1, <2>2, ShrunkThere
    <2>5. PICK n \in 1 .. c.length : disk' = Written(Bytes(p.start, n), c)
        BY <2>2, <2>4
    <2> HIDE DEF c
    <2>6. Bytes(p.start, n) \subseteq Extent(p)
        <3>1. n \in Nat /\ n <= p.size /\ p.start \in Nat /\ p.size \in Nat
            BY <1>1, <2>3, <2>4, EntryBytes DEF StoreOK
        <3> QED BY <3>1, RangesNest DEF Extent
    <2>7. c.fs \in {Junk.fs, disk[p.start].fs}
        BY <2>4 DEF ContentOf
    <2> QED BY <1>1, <2>1, <2>5, <2>6, <2>7, OfferedWritten
<1>3. CASE ShrinkWrittenBack
    <2>1. PICK p \in Original(Plan[i]) : disk' = Written(Bytes(p.start, disk[p.start].length), disk[p.start])
        BY <1>3 DEF ShrinkWrittenBack
    <2>2. pc = "writeBack" /\ i \in DOMAIN Plan /\ p \in table /\ InPlace(Plan[i])
        BY <1>1, <1>3 DEF ShrinkWrittenBack, CursorAtItem, Original, GrowthInv, WriteBackAsked
    <2>3. disk[p.start].length <= p.size
        BY <2>2 DEF DataInv, WriteBackInside, WritingBack
    <2>4. disk[p.start].length \in Nat /\ p.start \in Nat /\ p.size \in Nat
        BY <1>1, <2>2, EntryBytes DEF StoreOK, Content
    <2>5. Bytes(p.start, disk[p.start].length) \subseteq Extent(p)
        BY <2>3, <2>4, RangesNest DEF Extent
    <2> QED BY <1>1, <2>1, <2>2, <2>5, OfferedWritten
<1> QED BY <1>2, <1>3

\* A copy is written over the relocated entry of its item, from its original.
LEMMA CopiedWritten ==
    ASSUME SensibleCalls, CallsInv, GrowthInv, SettlingInv, FillInv, UNCHANGED <<table, req, origin>>, RawOnly',
           DOMAIN disk' = DOMAIN disk, pc \in WhileCopying, i \in Moved,
           NEW p \in Original(Plan[i]), NEW q \in Relocated(Plan[i]), NEW bytes \in SUBSET Extent(q),
           \A b \in DOMAIN disk \ bytes : disk'[b] = disk[b],
           \A b \in bytes : disk'[b].fs = Junk.fs \/ \E c \in Extent(p) : disk'[b].fs = disk[c].fs,
           \A k \in DOMAIN req.grows : GrownBy(k, p) /\ CanGrow(p) => ContentOf(q)'.length = q.size
    PROVE  FillInv'
<1>1. StoreOK /\ LocalsTypeOK /\ ApartInv /\ IdentityInv /\ p \in table /\ q \in table /\ i \in DOMAIN Plan
    BY TypeParts DEF CallsInv, RunOK, Original, Relocated, Moved
<1>2. p.guid \in Ids /\ q.guid \notin Ids /\ q.name = Alternate(p.name)
    BY <1>1, SourceIs DEF IdentityInv, CopyTargets, GrowthInv, CopiesNamed, WhileCopying
<1>3. AboutRequest(p)
    <2>1. Exact(Plan[i])
        BY <1>1, PlanParts DEF SettlingInv, ItemsExact
    <2> QED BY <2>1 DEF Exact, AboutRequest, Growing
<1>4. ASSUME NEW k \in DOMAIN req.grows, NEW x \in table, GrownBy(k, x), q.name = Alternate(x.name)
      PROVE  x = p
    <2>1. x.name \in Label /\ p.name \in Label /\ AboutRequest(x)
        BY <1>1, <1>4 DEF StoreOK, TableOK, Entry, AboutRequest
    <2> QED BY <1>1, <1>2, <1>3, <1>4, <2>1, AlternateInjective, NamesTellApart
<1>5. \A k \in DOMAIN req.grows : ~GrownBy(k, q)
    BY <1>2 DEF GrownBy
<1> QED BY <1>1, <1>2, <1>4, <1>5, FillWritten

LEMMA FillFormats ==
    ASSUME SensibleCalls, CallsInv, GrowthInv, SettlingInv, FillInv, Format \/ Fill
    PROVE  FillInv'
<1>1. /\ UNCHANGED <<table, req, origin>> /\ RawOnly' /\ pc \in WhileCopying /\ i \in Moved
      /\ StoreOK /\ TypeInv /\ ApartInv
    BY TypeParts DEF Format, Fill, Copying, At, GoTo, environment, RawOnly, WhileCopying, CallsInv,
        IdentityInv, CopyingMoved
<1>2. \E p \in Original(Plan[i]), q \in Relocated(Plan[i]) : \E c \in Content :
        c.fs = ContentOf(p).fs /\ c.length = q.size /\ disk' = Written(Extent(q), c)
    <2>1. ASSUME NEW p \in Original(Plan[i]), NEW q \in Relocated(Plan[i])
          PROVE  ContentOf(p) \in Content /\ q.size \in Nat
        BY <1>1, ContentOfKnown, EntryBytes DEF KnownContent, Original, Relocated, StoreOK
    <2>2. CASE Format
        <3>1. PICK p \in table, q \in table :
                Copying(p, q) /\ disk' = Written(Extent(q), Empty(ContentOf(p).fs, q.size))
            BY <2>2 DEF Format
        <3>2. p \in Original(Plan[i]) /\ q \in Relocated(Plan[i])
            BY <3>1 DEF Copying
        <3>3. /\ Empty(ContentOf(p).fs, q.size) \in Content
              /\ Empty(ContentOf(p).fs, q.size).fs = ContentOf(p).fs
              /\ Empty(ContentOf(p).fs, q.size).length = q.size
            BY <2>1, <3>2 DEF Empty, Made, Content
        <3> QED BY <3>1, <3>2, <3>3
    <2>3. CASE Fill
        <3>1. PICK p \in Original(Plan[i]), q \in Relocated(Plan[i]) : disk' = Written(Extent(q), Filled(p, q))
            BY <2>3 DEF Fill
        <3>2. Filled(p, q) \in Content /\ Filled(p, q).fs = ContentOf(p).fs /\ Filled(p, q).length = q.size
            BY <2>1, <3>1 DEF Filled, Made, Content
        <3> QED BY <3>1, <3>2
    <2> QED BY <2>2, <2>3
<1>3. PICK p \in Original(Plan[i]), q \in Relocated(Plan[i]), c \in Content :
        c.fs = ContentOf(p).fs /\ c.length = q.size /\ disk' = Written(Extent(q), c)
    BY <1>2
<1>4. p \in table /\ q \in table /\ q.size \in Nat \ {0} /\ p.start \in Extent(p)
    <2>1. p \in table /\ q \in table
        BY DEF Original, Relocated
    <2> QED BY <1>1, <2>1, EntryBytes DEF StoreOK, Extent, Bytes
<1>5. /\ DOMAIN disk' = DOMAIN disk
      /\ \A b \in Extent(q) : disk'[b] = c
      /\ \A b \in DOMAIN disk \ Extent(q) : disk'[b] = disk[b]
    BY <1>1, <1>3, <1>4, WrittenThere DEF Written
<1>6. c.fs = Junk.fs \/ c.fs = disk[p.start].fs
    BY <1>3 DEF ContentOf
<1>7. ContentOf(q)' = c
    BY <1>1, <1>3, <1>4, <1>5, ContentWritten DEF Extent
<1>8. \A b \in Extent(q) : disk'[b].fs = Junk.fs \/ \E x \in Extent(p) : disk'[b].fs = disk[x].fs
    BY <1>4, <1>5, <1>6
<1>9. \A k \in DOMAIN req.grows : GrownBy(k, p) /\ CanGrow(p) => ContentOf(q)'.length = q.size
    BY <1>3, <1>7
<1>10. Extent(q) \in SUBSET Extent(q)
    OBVIOUS
<1> QED BY <1>1, <1>5, <1>8, <1>9, <1>10, CopiedWritten

\* What is copied byte by byte is no filesystem that could grow.
LEMMA RawNotGrown ==
    ASSUME SensibleCalls, CallsInv, DataInv(Others), NEW k \in DOMAIN req.grows, NEW p \in table, GrownBy(k, p),
           KindOf(p) \in {"squashfs", "unknown"}
    PROVE  ~CanGrow(p)
<1>1. ~Offered(p) /\ p.guid \in Ids /\ StoreOK /\ ApartInv
    BY GrownByOne, TypeParts DEF GrownBy, CallsInv
<1>2. Before(p.guid) \in origin /\ Before(p.guid).guid = p.guid
    BY <1>1, NamedAsBefore DEF CallsInv
<1> SUFFICES ASSUME CanGrow(p) PROVE FALSE
    OBVIOUS
<1>3. ContentOf(p).fs = p.guid
    <2>1. PICK g : g = Others
        OBVIOUS
    <2> QED BY <1>1, <2>1, OwnFiles DEF DataInv, CanGrow
<1>4. p.guid \in DOMAIN Kind
    BY <1>1, <1>2, FilesystemAssumption DEF StoreOK
<1> QED BY <1>3, <1>4 DEF KindOf, CanGrow

LEMMA FillRawCopies ==
    ASSUME SensibleCalls, CallsInv, DataInv(Others), GrowthInv, SettlingInv, FillInv, StartRawCopy \/ FinishRawCopy
    PROVE  FillInv'
<1>1. /\ UNCHANGED <<table, req, origin>> /\ pc \in WhileCopying /\ i \in Moved /\ i \in DOMAIN Plan
      /\ StoreOK /\ TypeInv /\ ApartInv
    BY TypeParts DEF StartRawCopy, FinishRawCopy, Copying, At, GoTo, environment, WhileCopying, CallsInv,
        IdentityInv, CopyingMoved, Moved
<1>2. \E p \in Original(Plan[i]), q \in Relocated(Plan[i]) :
        /\ \E n \in 0 .. p.size : disk' = Copied(p.start, q.start, n)
        /\ CanGrow(p) => \A k \in DOMAIN req.grows : ~GrownBy(k, p)
    <2>1. CASE StartRawCopy
        <3>1. PICK p \in table, q \in table :
                /\ Copying(p, q) /\ KindOf(p) \in {"squashfs", "unknown"}
                /\ \E n \in 0 .. p.size - 1 : disk' = Copied(p.start, q.start, n)
            BY <2>1 DEF StartRawCopy
        <3>2. p \in Original(Plan[i]) /\ q \in Relocated(Plan[i]) /\ p.size \in Nat
            BY <1>1, <3>1, EntryBytes DEF Copying, StoreOK
        <3>3. \E n \in 0 .. p.size : disk' = Copied(p.start, q.start, n)
            BY <3>1, <3>2
        <3> QED BY <3>1, <3>2, <3>3, RawNotGrown
    <2>2. CASE FinishRawCopy
        <3>1. PICK p \in Original(Plan[i]), q \in Relocated(Plan[i]) : disk' = Copied(p.start, q.start, p.size)
            BY <2>2 DEF FinishRawCopy
        <3>2. p.size \in 0 .. p.size
            BY <1>1, EntryBytes DEF Original, StoreOK
        <3>3. CanGrow(p) => \A k \in DOMAIN req.grows : ~GrownBy(k, p)
            BY <2>2 DEF FinishRawCopy, FillInv, RawOnly
        <3> QED BY <3>1, <3>2, <3>3
    <2> QED BY <2>1, <2>2
<1>3. PICK p \in Original(Plan[i]), q \in Relocated(Plan[i]) :
        /\ \E n \in 0 .. p.size : disk' = Copied(p.start, q.start, n)
        /\ CanGrow(p) => \A k \in DOMAIN req.grows : ~GrownBy(k, p)
    BY <1>2
<1>4. PICK n \in 0 .. p.size : disk' = Copied(p.start, q.start, n)
    BY <1>3
<1>5. /\ p \in table /\ q \in table /\ p.start \in Nat /\ q.start \in Nat /\ p.size \in Nat /\ q.size \in Nat
      /\ p.size <= q.size /\ n \in Nat /\ n <= p.size /\ n <= q.size
    <2>1. p \in table /\ q \in table
        BY DEF Original, Relocated
    <2>2. p.start \in Nat /\ q.start \in Nat /\ p.size \in Nat /\ q.size \in Nat
        BY <1>1, <2>1, EntryBytes DEF StoreOK
    <2>3. p.size <= Align(Plan[i].target.size) /\ q.size = Align(Plan[i].target.size)
        BY <1>1 DEF DataInv, SourcesFit, CallsInv, IdentityInv, CopyTargets, WhileCopying
    <2> QED BY <1>4, <2>1, <2>2, <2>3
<1>6. Bytes(q.start, n) \subseteq Extent(q)
    BY <1>5, RangesNest DEF Extent
<1>7. /\ DOMAIN disk' = DOMAIN disk
      /\ \A b \in DOMAIN disk \ Bytes(q.start, n) : disk'[b] = disk[b]
    BY <1>4 DEF Copied
<1>8. ASSUME NEW b \in Bytes(q.start, n) PROVE \E c \in Extent(p) : disk'[b].fs = disk[c].fs
    <2>1. b - q.start + p.start \in Extent(p)
        BY <1>5, RangesNest, RangeShifts DEF Extent
    <2>2. b \in DOMAIN disk
        <3>1. q.start + q.size <= DiskSize
            BY <1>1, <1>5, EntryBytes DEF StoreOK
        <3> QED BY <1>1, <1>5, <3>1, SizeAssumption DEF Bytes, StoreOK
    <2> QED BY <1>4, <2>1, <2>2 DEF Copied
<1>9. RawOnly'
    <2>1. pc' = "rawCopy" => Plan' = Plan /\ i' = i
        BY DEF StartRawCopy, FinishRawCopy, GoTo, locals, Plan
    <2> SUFFICES ASSUME pc' = "rawCopy", NEW x \in Original(Plan[i]), CanGrow(x), NEW k \in DOMAIN req.grows
                 PROVE  ~GrownBy(k, x)
        BY <1>1, <2>1, AskedFrame DEF RawOnly, CanGrow, Original
    <2>2. x = p
        BY <1>1, ApartSlots DEF Original, SlotsDistinct
    <2> QED BY <1>3, <2>2
<1>10. \A k \in DOMAIN req.grows : GrownBy(k, p) /\ CanGrow(p) => ContentOf(q)'.length = q.size
    BY <1>3
<1> QED BY <1>1, <1>6, <1>7, <1>8, <1>9, <1>10, CopiedWritten

\* Between runs a filesystem is written where it is.
LEMMA FillOsWrites ==
    ASSUME CallsInv, FillInv, OsWrites
    PROVE  FillInv'
<1>1. StoreOK /\ ApartInv /\ UNCHANGED <<table, req, origin>> /\ RawOnly'
    BY TypeParts DEF OsWrites, plannerVars, RawOnly, CallsInv
<1>2. PICK p \in table, left \in BOOLEAN :
        /\ ContentOf(p).fs = p.guid
        /\ KindOf(p) \in {"ext4", "fat32"}
        /\ disk' = Written(Bytes(p.start, ContentOf(p).length),
                           [ContentOf(p) EXCEPT !.version = latest[p.guid] + 1, !.dirty = @ \/ left])
    BY DEF OsWrites
<1>3. p.guid \in Ids
    <2>1. p.guid \in DOMAIN Kind
        BY <1>2 DEF KindOf
    <2>2. p.guid[1] # "fresh"
        BY <2>1, FilesystemAssumption
    <2> QED BY <1>1, <2>2 DEF StoreOK, TableOK, GuidsKnown
<1>4. /\ ContentOf(p) \in Content /\ ContentOf(p).length \in 1 .. p.size /\ ContentOf(p) = disk[p.start]
      /\ p.start \in Nat /\ p.size \in Nat \ {0} /\ latest \in [Ids -> Nat] /\ p.start \in Extent(p)
    <2>1. p.start \in Nat /\ p.size \in Nat \ {0}
        BY <1>1, EntryBytes DEF StoreOK
    <2> QED BY <1>1, <1>2, <1>3, <2>1, ContentIsWhole, ContentOfKnown DEF Whole, KnownContent, StoreOK, Extent,
            Bytes
<1> DEFINE c == [ContentOf(p) EXCEPT !.version = latest[p.guid] + 1, !.dirty = @ \/ left]
           bytes == Bytes(p.start, ContentOf(p).length)
<1>5. c \in Content /\ c.length = ContentOf(p).length /\ c.fs = ContentOf(p).fs
    <2>1. latest[p.guid] + 1 \in Nat /\ (ContentOf(p).dirty \/ left) \in BOOLEAN
        BY <1>3, <1>4
    <2> QED BY <1>4, <2>1 DEF Content
<1>6. bytes \subseteq Extent(p)
    BY <1>4, RangesNest DEF Extent
<1>7. disk' = Written(bytes, c) /\ bytes = Bytes(p.start, c.length)
    BY <1>2, <1>5
<1> HIDE DEF c, bytes
<1>8. /\ DOMAIN disk' = DOMAIN disk
      /\ \A b \in bytes : disk'[b] = c
      /\ \A b \in DOMAIN disk \ bytes : disk'[b] = disk[b]
    BY <1>1, <1>6, <1>7, WrittenThere DEF Written
<1>9. ContentOf(p)' = c
    BY <1>1, <1>4, <1>5, <1>7, <1>8, ContentWritten
<1>10. \A k \in DOMAIN req.grows : GrownBy(k, p) /\ CanGrow(p) => ContentOf(p)'.length = p.size
    BY <1>5, <1>9 DEF FillInv, GrownFill
<1>11. \A b \in bytes : disk'[b].fs = Junk.fs \/ \E x \in Extent(p) : disk'[b].fs = disk[x].fs
    BY <1>4, <1>5, <1>8
<1> QED BY <1>1, <1>3, <1>6, <1>8, <1>10, <1>11, FillWritten

\* What is to grow is never cut.
LEMMA GrownNotCut ==
    ASSUME SensibleCalls, CallsInv, SettlingInv, pc = "shrinkPartitions",
           NEW k \in DOMAIN req.grows, NEW p \in table, GrownBy(k, p)
    PROVE  ShrunkEntry(p) = p
<1>1. LocalsTypeOK
    BY TypeParts DEF CallsInv, RunOK
<1>2. ASSUME NEW m \in Shrinks(p) PROVE FALSE
    <2>1. m \in DOMAIN Plan /\ InPlace(Plan[m]) /\ p \in Original(Plan[m])
        BY DEF Shrinks, Original
    <2>2. Exact(Plan[m])
        BY <1>1, <2>1, PlanParts DEF SettlingInv, ItemsExact
    <2> QED BY <2>1, <2>2, GrownByOne DEF Exact
<1> QED BY <1>2 DEF ShrunkEntry

LEMMA FillShrinkPartitions ==
    ASSUME SensibleCalls, CallsInv, SettlingInv, FillInv, ShrinkPartitions
    PROVE  FillInv'
<1>1. /\ pc = "shrinkPartitions" /\ UNCHANGED <<req, origin, disk>> /\ table' = {ShrunkEntry(p) : p \in table}
      /\ StoreOK /\ ApartInv /\ RawOnly'
    BY ShrinkWrites, TypeParts DEF ShrinkPartitions, Commit, Exit, Restart, environment, CallsInv, RawOnly
<1>2. \A p \in table : ShrunkEntry(p).guid = p.guid
    BY <1>1, ShrunkFits DEF CallsInv
<1>3. \A k \in DOMAIN req.grows : \A p \in table' : GrownBy(k, p) => p \in table
    <2> SUFFICES ASSUME NEW k \in DOMAIN req.grows, NEW p \in table, GrownBy(k, ShrunkEntry(p))
                 PROVE  ShrunkEntry(p) = p
        BY <1>1
    <2>1. GrownBy(k, p)
        BY <1>2 DEF GrownBy
    <2> QED BY <1>1, <2>1, GrownNotCut
<1>4. \A q \in table : q.guid \notin Ids => ShrunkEntry(q) = q
    BY <1>1, CopiesKeepSize
<1>5. \A q : q.guid \notin Ids => (q \in table' <=> q \in table)
    BY <1>1, <1>2, <1>4
<1>6. \A p : ContentOf(p)' = ContentOf(p)
    BY <1>1, SameDisk
<1>7. GrownFill' /\ CopiesFill'
    BY <1>1, <1>3, <1>5, <1>6, AskedFrame DEF FillInv, GrownFill, CopiesFill, CanGrow
<1>8. NoStrays'
    <2> SUFFICES ASSUME NEW k \in DOMAIN req.grows, NEW p \in table', NEW b \in DOMAIN disk,
                        Growing(k, p), disk[b].fs = p.guid, b \notin Extent(p)
                 PROVE  \E q \in table' : q.guid \notin Ids /\ q.name = Alternate(p.name) /\ b \in Extent(q)
        BY <1>1, AskedFrame, GrowingFrame DEF NoStrays
    <2>1. p \in table
        BY <1>3 DEF Growing
    <2> QED BY <1>5, <2>1 DEF FillInv, NoStrays
<1> QED BY <1>1, <1>7, <1>8 DEF FillInv

\* A new copy holds nothing that could be taken for its original's filesystem.
LEMMA FillCreatePartitions ==
    ASSUME SensibleCalls, CallsInv, SettlingInv, FillInv, CreatePartitions
    PROVE  FillInv'
<1>1. /\ pc = "createPartitions" /\ UNCHANGED <<req, origin, disk>> /\ table \subseteq table' /\ Ids' = Ids
      /\ SoundTable(table, DiskSize)' /\ TypeInv /\ ApartInv /\ StoreOK /\ LocalsTypeOK /\ RawOnly'
    BY ApartCreated, TypeParts DEF CreatePartitions, environment, Commit, Exit, Restart, Ids, CallsInv, RunOK,
        RawOnly
<1>2. ASSUME NEW q \in table', q \notin table
      PROVE  \E k \in DOMAIN req.grows : \E x \in table :
                Growing(k, x) /\ q.name = Alternate(x.name) /\ q.guid \notin Ids
    <2>1. PICK m \in Grown, j \in Moved, x \in table :
            Plan[j] = resizes[m] /\ x.number = resizes[m].original.number /\ q = NewEntry(x, resizes[m])
        BY <1>1, <1>2, CreatedIs
    <2>2. q.name = Alternate(x.name) /\ q.guid = <<"fresh", resizes[m].target.number>>
        BY <2>1, NewEntryParts DEF NewEntry
    <2>3. j \in DOMAIN Plan /\ ~InPlace(Plan[j]) /\ x \in Original(Plan[j])
        BY <2>1 DEF Grown, Original, Moved
    <2>4. Exact(Plan[j])
        BY <1>1, <2>3, PlanParts DEF SettlingInv, ItemsExact
    <2> QED BY <1>1, <2>2, <2>3, <2>4, IdsAreOriginal DEF Exact
<1>3. \A p \in table' : p.guid \in Ids => p \in table
    BY <1>2
<1>4. \A p : ContentOf(p)' = ContentOf(p)
    BY <1>1, SameDisk
<1>5. GrownFill'
    BY <1>1, <1>3, <1>4, AskedFrame DEF FillInv, GrownFill, CanGrow, GrownBy
<1>6. NoStrays'
    <2> SUFFICES ASSUME NEW k \in DOMAIN req.grows, NEW p \in table', NEW b \in DOMAIN disk,
                        Growing(k, p), disk[b].fs = p.guid, b \notin Extent(p)
                 PROVE  \E q \in table' : q.guid \notin Ids /\ q.name = Alternate(p.name) /\ b \in Extent(q)
        BY <1>1, AskedFrame, GrowingFrame DEF NoStrays
    <2>1. p \in table
        BY <1>3 DEF Growing, GrownBy
    <2> QED BY <1>1, <2>1 DEF FillInv, NoStrays
<1>7. CopiesFill'
    <2> SUFFICES ASSUME NEW k \in DOMAIN req.grows, NEW p \in table', NEW q \in table', GrownBy(k, p), CanGrow(p),
                        q.guid \notin Ids, q.name = Alternate(p.name), ContentOf(q).fs = p.guid
                 PROVE  ContentOf(q).length = q.size
        BY <1>1, <1>4, AskedFrame DEF CopiesFill, CanGrow
    <2>1. p \in table /\ p.guid \in Ids
        BY <1>3 DEF GrownBy
    <2>2. CASE q \in table
        BY <2>1, <2>2 DEF FillInv, CopiesFill
    <2>3. CASE q \notin table
        <3>1. PICK m \in DOMAIN req.grows, x \in table : Growing(m, x) /\ q.name = Alternate(x.name)
            BY <1>2, <2>3
        <3>2. x.name \in Label /\ p.name \in Label /\ AboutRequest(x) /\ AboutRequest(p)
            BY <1>1, <2>1, <3>1 DEF StoreOK, TableOK, Entry, AboutRequest, Growing
        <3>3. x = p
            BY <2>1, <3>1, <3>2, AlternateInjective, NamesTellApart
        <3>4. disk[q.start].fs = p.guid
            BY <1>1, <2>1, ContentIsWhole
        <3>5. q.start \in DOMAIN disk /\ q.start \in Extent(q)
            <4>1. TableOK'
                BY <1>1, CreatePartitionsOK, TypePartsNext, PTL, TypeParts DEF StoreOK
            <4>2. q.start \in 0 .. DiskSize - 1 /\ q.size \in Nat \ {0} /\ q.start \in Nat
                BY <1>1, <4>1, SizeAssumption DEF TableOK, TableOnDisk, Entry
            <4> QED BY <1>1, <4>2 DEF StoreOK, Extent, Bytes
        <3>6. PICK y \in table : q.start \in Extent(y)
            BY <2>1, <3>1, <3>3, <3>4, <3>5 DEF FillInv, NoStrays
        <3>7. y \in table' /\ y # q
            BY <1>1, <2>3
        <3> QED BY <1>1, <3>5, <3>6, <3>7 DEF SoundTable
    <2> QED BY <2>2, <2>3
<1> QED BY <1>1, <1>5, <1>6, <1>7 DEF FillInv

\* The copy that takes a partition's place was made, and so it is filled.
LEMMA FillUpdatePartitions ==
    ASSUME SensibleCalls, CallsInv, DataInv(Others), GrowthInv, SettlingInv, FillInv, UpdatePartitions
    PROVE  FillInv'
<1> DEFINE kept == {q \in table : ~Superseded(q)}
<1>1. /\ pc = "updatePartitions" /\ UNCHANGED <<req, origin, disk>> /\ Exit /\ RawOnly'
      /\ table' = {FinalEntry(q) : q \in kept} /\ TypeInv /\ ApartInv /\ IdentityInv /\ StoreOK
    BY TypeParts DEF UpdatePartitions, Commit, Exit, environment, CallsInv, RawOnly
<1>2. \A q \in table : FinalEntry(q).size = q.size /\ FinalEntry(q).start = q.start
    BY <1>1, FinalEntryIs
<1>3. \A q \in table : ContentOf(FinalEntry(q)) = ContentOf(q)
    BY <1>2 DEF ContentOf, Whole
<1>4. \A p : ContentOf(p)' = ContentOf(p)
    BY <1>1, SameDisk
<1>5. GrownFill'
    <2> SUFFICES ASSUME NEW k \in DOMAIN req.grows, NEW q \in kept,
                        GrownBy(k, FinalEntry(q)), CanGrow(FinalEntry(q))
                 PROVE  ContentOf(FinalEntry(q)).length = FinalEntry(q).size
        BY <1>1, <1>4, AskedFrame DEF GrownFill, CanGrow
    <2>1. CASE MovedTo(q) = {}
        <3>1. FinalEntry(q) = q
            BY <1>1, <2>1, FinalEntryIs
        <3> QED BY <3>1 DEF FillInv, GrownFill
    <2>2. CASE MovedTo(q) # {}
        <3>1. PICK p \in table : /\ FinalEntry(q).guid = p.guid
                                 /\ q.guid \notin Ids /\ q.name = Alternate(p.name)
            BY <1>1, <2>2, BecomesOriginal
        <3>2. GrownBy(k, p) /\ CanGrow(p)
            BY <3>1 DEF GrownBy, CanGrow
        <3>3. Growing(k, p)
            BY <3>1, <3>2, CopyOfGrown DEF SettlingInv
        <3>4. PICK m \in Moved : p \in Original(Plan[m])
            BY <1>1, <3>3, GrowingMoves DEF WhileCopying
        <3>5. p.guid \in Others
            BY <3>2 DEF CanGrow
        <3>6. m \in CopiedItems
            BY <1>1 DEF CopiedItems
        <3>7. PICK x \in Relocated(Plan[m]) : ContentOf(x).fs = p.guid
            BY <3>4, <3>5, <3>6 DEF DataInv, CopiesMade
        <3>8. x \in table /\ x.name = Alternate(p.name)
            BY <1>1, <3>4 DEF GrowthInv, CopiesNamed, WhileCopying, Relocated
        <3>9. x = q
            BY <1>1, <3>1, <3>8 DEF IdentityInv, IdentityKept
        <3>10. ContentOf(q).length = q.size
            BY <3>1, <3>2, <3>7, <3>9 DEF FillInv, CopiesFill
        <3> QED BY <1>2, <1>3, <3>10
    <2> QED BY <2>1, <2>2
<1>6. Settled' /\ \A q \in table' : q.guid \in Ids
    BY SettlingUpdatePartitions
<1>7. CopiesFill'
    BY <1>1, <1>6, AskedFrame DEF CopiesFill
<1>8. NoStrays'
    <2> SUFFICES ASSUME NEW k \in DOMAIN req.grows, NEW p \in table', Growing(k, p) PROVE FALSE
        BY <1>1, GrowingFrame DEF NoStrays
    <2>1. p.size = req.grows[k].size
        BY <1>1, <1>6, AskedFrame DEF Settled, Growing
    <2>2. req.grows[k].size \in Int
        BY <1>1, SizeIsInt
    <2> QED BY <2>1, <2>2 DEF Growing
<1> QED BY <1>1, <1>5, <1>7, <1>8 DEF FillInv

\* A disk starts with its filesystems where they are and as large as that.
LEMMA FillInit == DiskInit => FillInv
<1> SUFFICES ASSUME DiskInit PROVE FillInv
    OBVIOUS
<1>1. /\ table = origin /\ pc = "off" /\ StoreOK /\ TypeInv /\ SoundTable(table, DiskSize)
      /\ disk = [b \in 0 .. DiskSize - 1 |->
                    IF \E p \in table : b \in Extent(p)
                    THEN LET p == CHOOSE p \in table : b \in Extent(p)
                         IN Made(p.guid, 1, p.size)
                    ELSE Junk]
    BY DiskTypeInit, ApartInit, TypeParts DEF DiskInit, Init, ApartInv
<1>2. \A p \in table : p.guid \in Ids
    BY <1>1 DEF Ids
<1> DEFINE held(p) == Made(p.guid, 1, p.size)
<1>3. ASSUME NEW p \in table, NEW b \in Extent(p)
      PROVE  b \in DOMAIN disk /\ disk[b] = held(p)
    <2>1. b \in 0 .. DiskSize - 1
        BY <1>1, EntryBytes, SizeAssumption DEF StoreOK, Extent, Bytes
    <2>2. (CHOOSE x \in table : b \in Extent(x)) = p
        BY <1>1 DEF SoundTable
    <2> QED BY <1>1, <2>1, <2>2
<1>4. \A p : held(p).fs = p.guid /\ held(p).length = p.size
    BY DEF Made
<1> HIDE DEF held
<1>5. ASSUME NEW p \in table PROVE ContentOf(p).length = p.size
    <2>1. p.start \in Nat /\ p.size \in Nat \ {0} /\ p.start \in Extent(p)
        BY <1>1, EntryBytes DEF StoreOK, Extent, Bytes
    <2>2. disk[p.start] = held(p)
        BY <1>3, <2>1
    <2>3. Whole(p, held(p))
        BY <1>3, <1>4, <2>1 DEF Whole, Extent
    <2> QED BY <1>4, <2>2, <2>3 DEF ContentOf
<1>6. NoStrays
    <2> SUFFICES ASSUME NEW k \in DOMAIN req.grows, NEW p \in table, NEW b \in DOMAIN disk,
                        Growing(k, p), disk[b].fs = p.guid
                 PROVE  b \in Extent(p)
        BY DEF NoStrays
    <2>1. p.guid # Junk.fs
        BY <1>1, <1>2, IdsAreOriginal DEF Junk, Made
    <2>2. PICK x \in table : b \in Extent(x)
        BY <1>1, <2>1
    <2>3. x.guid = p.guid
        BY <1>3, <1>4, <2>2
    <2> QED BY <1>1, <2>2, <2>3 DEF SoundTable
<1> QED BY <1>1, <1>2, <1>5, <1>6 DEF FillInv, GrownFill, CopiesFill, RawOnly

\* A repair leaves a filesystem as long as it was, and what it may tear is at
\* risk.
LEMMA FillChecks ==
    ASSUME CallsInv, DataInv({}), FillInv, Spared(Others), Spared(Others)', Checking
    PROVE  FillInv'
<1>1. /\ UNCHANGED <<table, req, origin, done, resizes>> /\ RawOnly' /\ pc \in {"check", "repair"}
      /\ pc' = "repair" => i' = i
      /\ StoreOK /\ TypeInv /\ ApartInv
    BY CheckingFrame, TypeParts DEF CallsInv, environment, RawOnly
<1>2. CASE disk' = disk
    BY <1>1, <1>2, FillStays
<1>3. CASE disk' # disk
    <2>1. PICK p \in Original(Plan[i]), c \in Content, n \in Nat :
            /\ i \in DOMAIN Plan /\ p \in table /\ n <= p.size
            /\ disk' = Written(Bytes(p.start, n), c)
            /\ c.fs = disk[p.start].fs /\ c.length <= p.size
            /\ \/ IsBlock /\ Inconsistent(p) /\ c = Repaired(ContentOf(p)) /\ n = c.length
               \/ pc' = "repair"
               \/ pc = "repair"
        <3>1. WriteBackInside
            BY DEF DataInv
        <3> QED BY <1>1, <1>3, <3>1, CheckWrites
    <2>2. p.guid \in Ids /\ p.start \in Nat /\ p.size \in Nat \ {0} /\ p.start \in Extent(p)
        <3>1. p.start \in Nat /\ p.size \in Nat \ {0} /\ p.start \in Extent(p)
            BY <1>1, <2>1, EntryBytes DEF StoreOK, Extent, Bytes
        <3> QED BY <1>1, <2>1, <3>1, SourceIs
    <2>3. Bytes(p.start, n) \subseteq Extent(p)
        BY <2>1, <2>2, RangesNest DEF Extent
    <2>4. /\ DOMAIN disk' = DOMAIN disk
          /\ \A b \in Bytes(p.start, n) : disk'[b] = c
          /\ \A b \in DOMAIN disk \ Bytes(p.start, n) : disk'[b] = disk[b]
        BY <1>1, <2>1, <2>3, WrittenThere DEF Written
    <2>5. \A k \in DOMAIN req.grows : GrownBy(k, p) /\ CanGrow(p) => ContentOf(p)'.length = p.size
        <3> SUFFICES ASSUME NEW k \in DOMAIN req.grows, GrownBy(k, p), CanGrow(p)
                     PROVE  ContentOf(p)'.length = p.size
            OBVIOUS
        <3>1. Others' = Others /\ Plan' = Plan
            BY <1>1, AskedFrame DEF Plan
        <3>2. pc' # "repair" /\ pc # "repair"
            BY <1>1, <2>1, <3>1 DEF CanGrow, Spared, WritingBack, Original
        <3>3. Inconsistent(p) /\ c = Repaired(ContentOf(p)) /\ n = c.length
            BY <2>1, <3>2
        <3>4. c.length = ContentOf(p).length /\ c.length \in 1 .. p.size
            BY <1>1, <2>1, <3>3, RepairedThere
        <3>5. ContentOf(p)' = c
            BY <1>1, <2>1, <2>2, <2>4, <3>3, <3>4, ContentWritten
        <3> QED BY <2>1, <3>4, <3>5 DEF FillInv, GrownFill
    <2>6. \A b \in Bytes(p.start, n) : disk'[b].fs = Junk.fs \/ \E x \in Extent(p) : disk'[b].fs = disk[x].fs
        BY <2>1, <2>2, <2>4
    <2> QED BY <1>1, <2>1, <2>2, <2>3, <2>4, <2>5, <2>6, FillWritten
<1> QED BY <1>2, <1>3

LEMMA FillNext ==
    ASSUME SensibleCalls, MaxChanges = 0, OthersInv, Spared(Others)', DataInv({}), SettlingInv, FillInv,
           [DiskNext]_vars
    PROVE  FillInv'
<1> USE DEF OthersInv
<1>1. CASE ShrinkOnDevice \/ ShrinkWriteBack \/ ShrinkWrittenBack
    BY <1>1, FillShrinks
<1>2. CASE Format \/ Fill
    BY <1>2, FillFormats
<1>3. CASE StartRawCopy \/ FinishRawCopy
    BY <1>3, FillRawCopies
<1>4. CASE ShrinkPartitions
    BY <1>4, FillShrinkPartitions
<1>5. CASE CreatePartitions
    BY <1>5, FillCreatePartitions
<1>6. CASE UpdatePartitions
    BY <1>6, FillUpdatePartitions
<1>7. CASE OsWrites
    BY <1>7, FillOsWrites
<1>8. CASE Planning
    <2>1. UNCHANGED <<table, req, origin, disk>> /\ pc' \in {"classify", "allocate", "planned", "failed"}
        BY <1>8, NextFrame DEF Planning, environment
    <2> QED BY <2>1, FillStays DEF RawOnly
<1>12. CASE Checking
    BY <1>12, FillChecks
<1>9. CASE \/ Abort \/ DryRun \/ Interrupt \/ Execute \/ NextPhase
           \/ KeepFilesystem \/ ShrinkRefused \/ SkipUnmoved \/ SkipMatching \/ CopyUnsupported
    <2>1. UNCHANGED <<table, req, origin, disk>> /\ pc' # "rawCopy"
        BY <1>9 DEF Abort, DryRun, Interrupt, Exit, Execute, NextPhase, Loop, Restart,
            KeepFilesystem, ShrinkRefused, SkipUnmoved, SkipMatching, CopyUnsupported, Copying,
            Advance, GoTo, At, environment
    <2> QED BY <2>1, FillStays DEF RawOnly
<1>10. CASE UNCHANGED vars
    <2>1. UNCHANGED <<table, req, origin, disk, pc, i, done, resizes>>
        BY <1>10 DEF vars, plannerVars, locals, environment
    <2>2. RawOnly'
        BY <2>1, AskedFrame DEF FillInv, RawOnly, CanGrow, Original, Plan
    <2> QED BY <2>1, <2>2, FillStays
<1>11. ~ChangeRequest
    BY DEF ChangeRequest, CallsInv, TypeInv, DiskTypeOK
<1> QED BY <1>1, <1>2, <1>3, <1>4, <1>5, <1>6, <1>7, <1>8, <1>9, <1>10, <1>11, <1>12
        DEF DiskNext, Run, Checking

\* Who asks for no repairs in an image file has nothing that grows at risk.
LEMMA GrownSpared ==
    ASSUME SensibleCalls, RepairsInPlace, CallsInv, NEW k \in DOMAIN req.grows, NEW p \in table, GrownBy(k, p)
    PROVE  p.guid \in Others
<1>1. ~Offered(p) /\ p.guid \in Ids
    BY GrownByOne DEF GrownBy
<1>2. Before(p.guid) \in origin /\ Before(p.guid).guid = p.guid
    BY <1>1, NamedAsBefore DEF CallsInv
<1>3. IsBlock \/ ~req.fixErrors
    BY DEF RepairsInPlace, CallsInv, TypeInv, DiskTypeOK
<1>4. ~AtRisk(Before(p.guid))
    BY <1>1, <1>3 DEF AtRisk, MayShrink, MayRepair, Offered
<1> QED BY <1>2, <1>4 DEF Others

\* What such a caller finds on a finished disk.
LEMMA FinishedIsDelivered ==
    ASSUME SensibleCalls, RepairsInPlace, WholeSectorsAsked, CallsInv, SettlingInv, FillInv
    PROVE  FinishedDelivers
<1> SUFFICES ASSUME finished PROVE /\ {p.guid : p \in table} = Ids
                                   /\ \A k \in DOMAIN req.grows : Delivered(req.grows[k], req.grows[k].size)
    BY DEF FinishedDelivers
<1>1. StoreOK /\ Settled /\ AllNamed /\ IdentityKept
    BY TypeParts DEF CallsInv, IdentityInv, SettlingInv, FinishedSettled, GrowsThere
<1>2. ASSUME NEW q \in table PROVE q.guid \in Ids
    <2> SUFFICES ASSUME q.guid \notin Ids PROVE FALSE
        OBVIOUS
    <2>1. PICK k \in DOMAIN req.grows, p \in table : Growing(k, p)
        BY DEF SettlingInv, CopiesExact
    <2>2. p.size = req.grows[k].size /\ req.grows[k].size \in Int /\ p.size < req.grows[k].size
        BY <1>1, <2>1, SizeIsInt DEF Settled, Growing
    <2> QED BY <2>2
<1>3. {p.guid : p \in table} = Ids
    BY <1>1, <1>2 DEF IdentityKept
<1>4. ASSUME NEW k \in DOMAIN req.grows PROVE Delivered(req.grows[k], req.grows[k].size)
    <2>1. PICK g \in Ids : Matches(req.grows[k], Before(g))
        BY <1>1 DEF AllNamed
    <2>2. PICK p : p = Now(g)
        OBVIOUS
    <2>3. p \in table /\ p.guid = g
        BY <1>1, <2>2 DEF IdentityKept, Now
    <2>4. GrownBy(k, p)
        BY <2>1, <2>3 DEF GrownBy
    <2>5. p.size = req.grows[k].size /\ Align(req.grows[k].size) = req.grows[k].size
        BY <1>1, <2>3, <2>4 DEF Settled, WholeSectorsAsked, StoreOK
    <2>6. Kind[g] \in {"ext4", "fat32"} => ContentOf(p).length = p.size
        BY <2>3, <2>4, GrownSpared DEF FillInv, GrownFill, CanGrow
    <2> QED BY <2>1, <2>2, <2>5, <2>6 DEF Delivered
<1> QED BY <1>3, <1>4

\* Everything these proofs say of a step, and that is inductive.
FinishInv ==
    /\ OthersInv
    /\ DataInv({})
    /\ SettlingInv
    /\ FillInv

LEMMA FinishInit ==
    ASSUME GrowsOnly
    PROVE  DiskInit => FinishInv
<1> SUFFICES ASSUME DiskInit PROVE FinishInv
    OBVIOUS
<1> QED BY OthersInit, DataInit, SettlingInit, FillInit DEF FinishInv

LEMMA FinishNext ==
    ASSUME SensibleCalls, MaxChanges = 0, WholeSectorsAsked, FinishInv, [DiskNext]_vars
    PROVE  FinishInv'
<1> USE DEF FinishInv
<1>1. OthersInv'
    BY OthersNext
<1>2. SettlingInv' /\ FillInv'
    BY <1>1, SettlingNext, FillNext DEF OthersInv
<1>3. DataInv({})'
    BY DataNext DEF OthersInv, CallsInv, Spared
<1> QED BY <1>1, <1>2, <1>3

LEMMA FinishInvariant ==
    ASSUME SensibleCalls, GrowsOnly, MaxChanges = 0, WholeSectorsAsked
    PROVE  DiskSpec => []FinishInv
BY FinishInit, FinishNext, PTL DEF DiskSpec

\* No grow is forgotten or carried out by half: every item and every copy gives
\* a partition the size asked for, once all have it there is nothing to do, and
\* a run does not succeed before.
THEOREM GrowsAreSettled ==
    ASSUME SensibleCalls, GrowsOnly, MaxChanges = 0, WholeSectorsAsked
    PROVE  DiskSpec => []SettlingInv
BY FinishInvariant, PTL DEF FinishInv

\* A grown partition and a copy that holds its filesystem are filled by it, and
\* until it moved the filesystem is nowhere else: a copy that was not made yet
\* never passes for one that was.
THEOREM GrownPartitionsAreFilled ==
    ASSUME SensibleCalls, GrowsOnly, MaxChanges = 0, WholeSectorsAsked
    PROVE  DiskSpec => []FillInv
BY FinishInvariant, PTL DEF FinishInv

\* A caller who never asks for less than there is, and repeats his call, finds
\* the table of a finished disk unchanged by every later run: once a run has
\* succeeded everything he named has its size, so that the next one plans nothing.
THEOREM FinishedStaysFinished ==
    ASSUME SensibleCalls, GrowsOnly, MaxChanges = 0, WholeSectorsAsked
    PROVE  DiskSpec => FinishedIsStable
<1>1. SettlingInv /\ [DiskNext]_vars => [finished => UNCHANGED table]_vars
    <2> SUFFICES ASSUME SettlingInv, [DiskNext]_vars, finished PROVE table' = table
        OBVIOUS
    <2>1. Settled /\ SettledIdle
        BY DEF SettlingInv, FinishedSettled
    <2> QED BY <2>1, TableFrame, SettledStill
<1> QED BY <1>1, GrowsAreSettled, PTL DEF DiskSpec, FinishedIsStable

\* A caller who never asks for less than there is, nor for repairs in an image
\* file, and repeats his call until it succeeds, gets what he asked for, whatever
\* stopped the runs in between: each partition he named has its size, its
\* filesystem fills it, and no copy is left.
THEOREM FinishedAlwaysDelivers ==
    ASSUME SensibleCalls, RepairsInPlace, GrowsOnly, MaxChanges = 0, WholeSectorsAsked
    PROVE  DiskSpec => []FinishedDelivers
<1>1. FinishInv => FinishedDelivers
    BY FinishedIsDelivered DEF FinishInv, OthersInv
<1> QED BY <1>1, FinishInvariant, PTL
=============================================================================
