--------------------------- MODULE PlannerProofs ---------------------------
(***************************************************************************)
(* What planning guarantees for every disk size, every sound table and     *)
(* every request.                                                          *)
(***************************************************************************)
EXTENDS Planner, TLAPS, FiniteSetTheorems, WellFoundedInduction

\* Every set of natural numbers has a least one,
LEMMA LeastNatural ==
    ASSUME NEW T \in SUBSET Nat, T # {}
    PROVE  \E m \in T : \A n \in T : m <= n
<1> DEFINE R == OpToRel(<, Nat)
<1>1. IsWellFoundedOn(R, Nat)
    BY NatLessThanWellFounded
<1>2. \A x, y \in Nat : <<x, y>> \in R <=> x < y
    BY DEF OpToRel
<1> HIDE DEF R
<1>3. \E x \in T : \A y \in T : ~ (<<y, x>> \in R)
    BY <1>1, WFMin
<1>4. PICK x \in T : \A y \in T : ~ (<<y, x>> \in R)
    BY <1>3
<1>5. \A y \in T : x <= y
    <2> TAKE y \in T
    <2>1. x \in Nat /\ y \in Nat /\ ~(y < x)
        BY <1>2, <1>4
    <2> QED BY <2>1
<1> QED BY <1>5

\* and every bounded one a greatest.
LEMMA GreatestNatural ==
    ASSUME NEW n \in Nat, NEW S \in SUBSET (0 .. n), S # {}
    PROVE  \E m \in S : \A k \in S : k <= m
<1> DEFINE T == {n - k : k \in S}
<1>1. T \in SUBSET Nat /\ T # {}
    <2>1. \A k \in S : n - k \in Nat
        OBVIOUS
    <2> QED BY <2>1
<1>2. PICK x \in T : \A y \in T : x <= y
    BY <1>1, LeastNatural
<1>3. PICK m \in S : x = n - m
    OBVIOUS
<1>4. \A k \in S : n - m <= n - k
    BY <1>2, <1>3
<1> QED BY <1>3, <1>4
-----------------------------------------------------------------------------
\* The items the planner builds are well formed.
LEMMA ItemTypes ==
    ASSUME NEW p \in Entry, NEW alt \in Entry, NEW size \in Int
    PROVE  Pending(p, size) \in Item /\ Existing(p, alt) \in Item
BY DEF Pending, Existing, Item, Data, Source, Target, Entry

LEMMA ItemFields ==
    ASSUME NEW item \in Item
    PROVE  /\ item.original.number \in Nat /\ item.original.start \in Nat
           /\ item.original.size \in Nat /\ item.original.size > 0
           /\ item.target.number \in Nat /\ item.target.start \in Int
           /\ item.target.size \in Int
BY DEF Item, Source, Target

LEMMA RoundUpType == ASSUME NEW n \in Int PROVE RoundUp(n) \in Int
<1>1. GB \in Nat /\ GB > 0
    BY SizeAssumption
<1>2. n \div GB \in Int /\ (-n) \div GB \in Int
    BY <1>1, SMT
<1>3. Gigabytes(n) \in Int
    BY <1>2 DEF Gigabytes
<1> QED BY <1>1, <1>3, SMT DEF RoundUp

LEMMA ShrinkItemType ==
    ASSUME NEW p \in Entry, total \in Int
    PROVE  ShrinkItem(p) \in Item
BY RoundUpType DEF ShrinkItem, Item, Data, Source, Target, Entry

\* The slot numbers of a finite table are finitely many.
LEMMA NumbersFinite ==
    ASSUME NEW t \in SUBSET Entry, IsFiniteSet(t)
    PROVE  IsFiniteSet({p.number : p \in t}) /\ {p.number : p \in t} \subseteq Nat
<1> DEFINE N == {p.number : p \in t}
           f == [p \in t |-> p.number]
<1>1. f \in Surjection(t, N)
    BY DEF Surjection
<1>2. IsFiniteSet(N)
    BY <1>1, FS_Surjection
<1>3. N \subseteq Nat
    BY DEF Entry
<1> QED BY <1>2, <1>3

LEMMA BeginLayoutTypes ==
    ASSUME TypeOK, NEW items \in Seq(Item), BeginLayout(items), retried' \in BOOLEAN
    PROVE  TypeOK'
<1>1. free' \subseteq Int
    BY SizeAssumption, SMT DEF BeginLayout
<1>2. taken' \subseteq Nat /\ IsFiniteSet(taken')
    BY NumbersFinite DEF BeginLayout, TypeOK, LocalsTypeOK
<1>3. resizes' \in Seq(Item)
    BY DEF BeginLayout
<1> QED BY <1>1, <1>2, <1>3 DEF BeginLayout, TypeOK, LocalsTypeOK

\* Laying out one item keeps it an item.
LEMMA SettleTypes ==
    ASSUME TypeOK, LayingOut, NEW start \in Int, NEW number \in Nat, Settle(start, number)
    PROVE  i' \in Nat \ {0} /\ resizes' \in Seq(Item)
<1>1. todo[i] \in Item
    BY DEF TypeOK, LocalsTypeOK, LayingOut
<1>2. [todo[i] EXCEPT !.target = [number |-> number, start |-> start, size |-> @.size]] \in Item
    BY <1>1 DEF Item, Target
<1>3. resizes' \in Seq(Item)
    <2> DEFINE settled == [todo[i] EXCEPT !.target =
                              [number |-> number, start |-> start, size |-> @.size]]
    <2>1. settled \in Item
        BY <1>2
    <2>2. resizes' = Append(resizes, settled)
        BY DEF Settle
    <2> HIDE DEF settled
    <2> QED BY <2>1, <2>2 DEF TypeOK, LocalsTypeOK
<1>4. i' \in Nat \ {0}
    BY DEF Settle, TypeOK, LocalsTypeOK
<1> QED BY <1>3, <1>4

LEMMA TypeInit == Init => TypeOK
<1> SUFFICES ASSUME Init PROVE TypeOK
    OBVIOUS
<1>1. table \subseteq Entry /\ IsFiniteSet(table)
    BY LayoutAssumption DEF Init
<1>2. taken \subseteq Nat /\ IsFiniteSet(taken)
    BY FS_EmptySet DEF Init, InitLocals
<1>3. \A s : s = <<>> => s \in Seq(Item)
    OBVIOUS
<1>4. done \in Seq(Item) /\ todo \in Seq(Item) /\ resizes \in Seq(Item)
    BY <1>3 DEF Init, InitLocals
<1>5. i \in Nat \ {0} /\ total \in Int /\ free \subseteq Int
    BY DEF Init, InitLocals
<1>6. retried \in BOOLEAN /\ pc \in {"off", "classify", "allocate", "planned", "failed"}
    BY DEF Init, InitLocals
<1> QED BY <1>1, <1>2, <1>4, <1>5, <1>6 DEF Init, TypeOK, LocalsTypeOK

LEMMA TypeNext == TypeOK /\ [Next]_plannerVars => TypeOK'
<1> SUFFICES ASSUME TypeOK, [Next]_plannerVars PROVE TypeOK'
    OBVIOUS
<1> USE DEF TypeOK, LocalsTypeOK
<1>1. CASE Discover
    BY <1>1 DEF Discover, locals
<1>2. CASE NotDiscovered
    BY <1>2 DEF NotDiscovered, locals
<1>3. CASE SkipSatisfied
    BY <1>3 DEF SkipSatisfied, Classifying
<1>4. CASE ReuseRelocated
    <2> PICK p \in table : \E alt \in LastNamed(table, Alternate(p.name)) :
            Classifying(p) /\ done' = Append(done, Existing(p, alt)) /\ UNCHANGED <<todo, total>>
        BY <1>4 DEF ReuseRelocated
    <2>1. PICK alt \in LastNamed(table, Alternate(p.name)) :
            Classifying(p) /\ done' = Append(done, Existing(p, alt)) /\ UNCHANGED <<todo, total>>
        OBVIOUS
    <2>2. Existing(p, alt) \in Item
        BY ItemTypes DEF LastNamed
    <2> QED BY <2>1, <2>2 DEF Classifying
<1>5. CASE QueuePending
    <2>1. PICK p \in table :
            /\ Classifying(p)
            /\ todo' = Append(todo, Pending(p, req.grows[i].size))
            /\ total' = total + req.grows[i].size
            /\ UNCHANGED done
        BY <1>5 DEF QueuePending
    <2>2. req.grows[i].size \in Int
        <3>1. req.grows \in Seq(Change) /\ i \in 1 .. Len(req.grows)
            BY <2>1, RequestAssumption DEF Classifying, Request
        <3>2. req.grows[i] \in Change
            BY <3>1
        <3> QED BY <3>2 DEF Change
    <2>3. Pending(p, req.grows[i].size) \in Item
        BY <2>2, ItemTypes
    <2> QED BY <2>1, <2>2, <2>3 DEF Classifying
<1>6. CASE NothingPending
    BY <1>6 DEF NothingPending, locals
<1>7. CASE FirstAttempt
    BY <1>7, BeginLayoutTypes DEF FirstAttempt
<1>8. CASE LayOutShrink
    <2>1. todo[i] \in Item
        BY <1>8 DEF LayOutShrink, LayingOut
    <2>2. i' \in Nat \ {0} /\ resizes' \in Seq(Item)
        BY <1>8, <2>1, SettleTypes, ItemFields DEF LayOutShrink
    <2>3. Freed(todo[i]) \subseteq Int
        BY <2>1, ItemFields DEF Freed
    <2>4. free' \subseteq Int
        BY <1>8, <2>3 DEF LayOutShrink
    <2> QED BY <1>8, <2>2, <2>4 DEF LayOutShrink, Settle
<1>9. CASE LayOutGrow
    <2>1. PICK start \in Fits(todo[i].target.size), number \in 1 .. (Cardinality(taken) + 1) :
            /\ Settle(start, number)
            /\ free' = free \ Bytes(start, todo[i].target.size)
            /\ taken' = taken \cup {number}
        BY <1>9 DEF LayOutGrow, GiveSpace
    <2>2. start \in Int /\ number \in Nat
        BY FS_CardinalityType DEF Fits
    <2>3. i' \in Nat \ {0} /\ resizes' \in Seq(Item)
        BY <1>9, <2>1, <2>2, SettleTypes DEF LayOutGrow
    <2>4. taken' \subseteq Nat /\ IsFiniteSet(taken')
        BY <2>1, <2>2, FS_AddElement
    <2> QED BY <2>1, <2>3, <2>4 DEF Settle
<1>10. CASE LayoutComplete
    BY <1>10 DEF LayoutComplete, locals
<1>11. CASE RetryWithShrink
    <2>1. PICK p \in FirstMatch(table, req.shrink) : BeginLayout(<<ShrinkItem(p)>> \o todo)
        BY <1>11 DEF RetryWithShrink, Retry
    <2>2. <<ShrinkItem(p)>> \o todo \in Seq(Item)
        BY ShrinkItemType DEF FirstMatch
    <2> QED BY <1>11, <2>1, <2>2, BeginLayoutTypes DEF RetryWithShrink, Retry
<1>12. CASE InsufficientSpace
    BY <1>12 DEF InsufficientSpace, GiveUp, locals
<1>13. CASE UNCHANGED plannerVars
    BY <1>13 DEF plannerVars, locals
<1> QED BY <1>1, <1>2, <1>3, <1>4, <1>5, <1>6, <1>7, <1>8, <1>9, <1>10, <1>11, <1>12, <1>13 DEF Next

\* The variables of the planner keep their types: every item laid out has an
\* original on the disk's table and integer geometry, whatever the request.
THEOREM TypeCorrect == Spec => []TypeOK
BY TypeInit, TypeNext, PTL DEF Spec
-----------------------------------------------------------------------------
\* Laying out an item appends it, with its place, to what was laid out before.
LEMMA SettleAppends ==
    ASSUME TypeOK, InStep, LayingOut, NEW start \in Int, NEW number \in Nat, Settle(start, number)
    PROVE  /\ i \in 1 .. Len(todo) /\ todo[i] \in Item
           /\ DOMAIN resizes = 1 .. (i - 1) /\ DOMAIN resizes' = 1 .. i
           /\ \A k \in 1 .. (i - 1) : resizes'[k] = resizes[k]
           /\ resizes'[i].original = todo[i].original
           /\ resizes'[i].target.number = number
           /\ resizes'[i].target.start = start
           /\ resizes'[i].target.size = todo[i].target.size
<1> DEFINE e == [todo[i] EXCEPT !.target =
                    [number |-> number, start |-> start, size |-> @.size]]
<1>1. i \in 1 .. Len(todo) /\ todo \in Seq(Item) /\ todo[i] \in Item
    BY DEF TypeOK, LocalsTypeOK, LayingOut
<1>2. Len(resizes) = i - 1 /\ resizes \in Seq(Item)
    BY DEF TypeOK, LocalsTypeOK, InStep, LayingOut
<1>3. resizes' = Append(resizes, e)
    BY DEF Settle
<1>4. e.original = todo[i].original
      /\ e.target.number = number /\ e.target.start = start
      /\ e.target.size = todo[i].target.size
    BY <1>1 DEF Item
<1> HIDE DEF e
<1>5. DOMAIN resizes' = 1 .. i /\ DOMAIN resizes = 1 .. (i - 1)
    BY <1>1, <1>2, <1>3
<1>6. resizes'[i] = e /\ \A k \in 1 .. (i - 1) : resizes'[k] = resizes[k]
    BY <1>1, <1>2, <1>3
<1> QED BY <1>1, <1>4, <1>5, <1>6

LEMMA SettleInStep ==
    ASSUME TypeOK, InStep, LayingOut, NEW start \in Int, NEW number \in Nat, Settle(start, number)
    PROVE  InStep'
<1>0. /\ DOMAIN resizes = 1 .. (i - 1) /\ DOMAIN resizes' = 1 .. i
      /\ \A k \in 1 .. (i - 1) : resizes'[k] = resizes[k]
      /\ resizes'[i].original = todo[i].original
      /\ resizes'[i].target.size = todo[i].target.size
    BY SettleAppends
<1>1. todo' = todo /\ table' = table /\ pc' = "allocate" /\ pc = "allocate" /\ i' = i + 1
    BY DEF Settle, LayingOut
<1>2. resizes' \in Seq(Item) /\ i \in Nat \ {0} /\ todo \in Seq(Item)
    BY SettleTypes DEF TypeOK, LocalsTypeOK
<1>3. Len(resizes') = i
    BY <1>0, <1>2
<1>4. \A k \in DOMAIN resizes' :
          resizes'[k].original = todo[k].original /\ resizes'[k].target.size = todo[k].target.size
    <2> SUFFICES ASSUME NEW k \in 1 .. i
                 PROVE  /\ resizes'[k].original = todo[k].original
                        /\ resizes'[k].target.size = todo[k].target.size
        BY <1>0
    <2>1. CASE k = i
        BY <2>1, <1>0
    <2>2. CASE k # i
        <3>1. k \in DOMAIN resizes /\ resizes'[k] = resizes[k]
            BY <2>2, <1>0, <1>2
        <3> QED BY <3>1 DEF InStep
    <2> QED BY <2>1, <2>2
<1>5. i <= Len(todo)
    BY DEF LayingOut
<1>6. \A k \in DOMAIN todo : \E p \in table : todo[k].original = Data(p)
    BY DEF InStep
<1> QED BY <1>1, <1>2, <1>3, <1>4, <1>5, <1>6 DEF InStep

\* The items are about entries of the table, whatever step planning takes, and
\* what was laid out are the first of them.
LEMMA InStepClassify ==
    ASSUME TypeOK, InStep, NEW p \in table, Classifying(p),
           \/ UNCHANGED todo
           \/ \E size \in Int : todo' = Append(todo, Pending(p, size))
    PROVE  InStep'
<1>1. resizes' = <<>> /\ free' = {} /\ pc' = "classify" /\ table' = table
    BY DEF InStep, Classifying
<1>2. \A k \in DOMAIN todo' : \E q \in table : todo'[k].original = Data(q)
    <2>1. todo \in Seq(Item)
        BY DEF TypeOK, LocalsTypeOK
    <2>2. \A k \in DOMAIN todo : \E q \in table : todo[k].original = Data(q)
        BY DEF InStep
    <2>3. CASE UNCHANGED todo
        BY <2>2, <2>3
    <2>4. CASE \E size \in Int : todo' = Append(todo, Pending(p, size))
        <3>1. PICK size \in Int : todo' = Append(todo, Pending(p, size))
            BY <2>4
        <3>2. Pending(p, size).original = Data(p)
            BY DEF Pending
        <3> QED BY <2>1, <2>2, <3>1, <3>2
    <2> QED BY <2>3, <2>4
<1>3. Len(resizes') <= Len(todo')
    <2>1. todo \in Seq(Item)
        BY DEF TypeOK, LocalsTypeOK
    <2> QED BY <1>1, <2>1
<1> QED BY <1>1, <1>2, <1>3 DEF InStep

LEMMA InStepNext ==
    ASSUME TypeOK, InStep, [Next]_plannerVars
    PROVE  InStep'
<1>1. CASE Discover \/ NotDiscovered \/ NothingPending \/ LayoutComplete \/ InsufficientSpace
           \/ UNCHANGED plannerVars
    BY <1>1 DEF InStep, Discover, NotDiscovered, NothingPending, LayoutComplete, InsufficientSpace,
                GiveUp, plannerVars, locals
<1>2. CASE SkipSatisfied
    BY <1>2, InStepClassify DEF SkipSatisfied
<1>3. CASE ReuseRelocated
    BY <1>3, InStepClassify DEF ReuseRelocated
<1>4. CASE QueuePending
    <2>1. PICK p \in table :
            /\ Classifying(p)
            /\ todo' = Append(todo, Pending(p, req.grows[i].size))
        BY <1>4 DEF QueuePending
    <2>2. req.grows[i].size \in Int
        <3>1. req.grows \in Seq(Change) /\ i \in 1 .. Len(req.grows)
            BY <2>1, RequestAssumption DEF Classifying, Request, TypeOK, LocalsTypeOK
        <3>2. req.grows[i] \in Change
            BY <3>1
        <3> QED BY <3>2 DEF Change
    <2> QED BY <2>1, <2>2, InStepClassify
<1>5. CASE FirstAttempt
    BY <1>5 DEF FirstAttempt, BeginLayout, InStep
<1>6. CASE LayOutShrink
    <2>1. todo[i] \in Item
        BY <1>6 DEF LayOutShrink, LayingOut, TypeOK, LocalsTypeOK
    <2> QED BY <1>6, <2>1, ItemFields, SettleInStep DEF LayOutShrink
<1>7. CASE LayOutGrow
    <2>1. PICK start \in Fits(todo[i].target.size), number \in 1 .. (Cardinality(taken) + 1) :
            Settle(start, number)
        BY <1>7 DEF LayOutGrow, GiveSpace
    <2>2. start \in Int /\ number \in Nat
        BY FS_CardinalityType DEF Fits, TypeOK, LocalsTypeOK
    <2> QED BY <1>7, <2>1, <2>2, SettleInStep DEF LayOutGrow
<1>8. CASE RetryWithShrink
    <2>1. PICK p \in FirstMatch(table, req.shrink) : BeginLayout(<<ShrinkItem(p)>> \o todo)
        BY <1>8 DEF RetryWithShrink, Retry
    <2>2. p \in table /\ p \in Entry /\ todo \in Seq(Item)
        BY DEF FirstMatch, TypeOK, LocalsTypeOK
    <2>3. ShrinkItem(p) \in Item /\ ShrinkItem(p).original = Data(p)
        BY <2>2, ShrinkItemType DEF ShrinkItem, TypeOK, LocalsTypeOK
    <2> DEFINE items == <<ShrinkItem(p)>> \o todo
    <2>4. items \in Seq(Item)
        BY <2>2, <2>3
    <2>5. \A k \in DOMAIN items : \E q \in table : items[k].original = Data(q)
        <3>1. \A k \in DOMAIN todo : \E q \in table : todo[k].original = Data(q)
            BY DEF InStep
        <3>2. \A k \in DOMAIN items : items[k] = ShrinkItem(p) \/ \E m \in DOMAIN todo : items[k] = todo[m]
            BY <2>2
        <3> QED BY <2>2, <2>3, <3>1, <3>2
    <2> HIDE DEF items
    <2> QED BY <2>1, <2>4, <2>5 DEF BeginLayout, InStep, items
<1> QED BY <1>1, <1>2, <1>3, <1>4, <1>5, <1>6, <1>7, <1>8 DEF Next
-----------------------------------------------------------------------------
\* With nothing laid out every entry keeps all its bytes and nothing is grown.
LEMMA NothingLaidOut ==
    ASSUME resizes = <<>>
    PROVE  Grown = {} /\ \A p : Remaining(p) = Extent(p)
BY DEF Grown, Remaining

LEMMA SafeInit == Init => PlanInv
<1> SUFFICES ASSUME Init PROVE PlanInv
    OBVIOUS
<1>1. TypeOK /\ SoundTable(table, DiskSize)
    BY TypeInit, LayoutAssumption DEF Init
<1>2. resizes = <<>> /\ todo = <<>> /\ free = {} /\ pc = "off"
    BY DEF Init, InitLocals
<1>3. InStep
    BY <1>2 DEF InStep
<1>4. SpaceAccounted
    BY <1>2, NothingLaidOut DEF SpaceAccounted
<1> QED BY <1>1, <1>3, <1>4 DEF PlanInv

\* A step that leaves the locals alone and enters no loop keeps the invariant.
LEMMA SafeControl ==
    ASSUME PlanInv, TypeOK', InStep', UNCHANGED <<table, locals>>, pc' = "allocate" => pc = "allocate"
    PROVE  PlanInv'
<1>1. SoundTable(table, DiskSize)'
    BY DEF PlanInv, SoundTable, Extent, Bytes
<1>2. SpaceAccounted'
    <2>1. /\ Grown' = Grown /\ OncePerPartition' = OncePerPartition
          /\ ShrinkLeavesRoom' = ShrinkLeavesRoom
          /\ \A p : Remaining(p)' = Remaining(p)
          /\ \A k : PlacedApart(k)' = PlacedApart(k)
        BY DEF Grown, OncePerPartition, ShrinkLeavesRoom, Remaining, PlacedApart, locals
    <2> QED BY <2>1 DEF PlanInv, SpaceAccounted, locals
<1> QED BY <1>1, <1>2 DEF PlanInv

\* Sorting the requested grows lays nothing out.
LEMMA SafeClassify ==
    ASSUME PlanInv, TypeOK', InStep', NEW p \in table, Classifying(p)
    PROVE  PlanInv'
<1>1. SoundTable(table, DiskSize)'
    BY DEF PlanInv, SoundTable, Extent, Bytes, Classifying
<1>2. resizes' = <<>> /\ free' = {} /\ pc' = "classify"
    BY DEF PlanInv, InStep, Classifying
<1>3. Grown' = {}
    BY <1>2 DEF Grown
<1>4. SpaceAccounted'
    BY <1>2, <1>3 DEF SpaceAccounted
<1> QED BY <1>1, <1>4 DEF PlanInv

\* The complement of the partitions is free space nobody owns.
LEMMA SafeBeginLayout ==
    ASSUME PlanInv, TypeOK', InStep', NEW items \in Seq(Item), BeginLayout(items)
    PROVE  PlanInv'
<1>1. SoundTable(table, DiskSize)'
    BY DEF PlanInv, SoundTable, Extent, Bytes, BeginLayout
<1>2. SpaceAccounted'
    <2>1. Grown' = {} /\ \A p : Remaining(p)' = Extent(p)
        BY DEF BeginLayout, Grown, Remaining
    <2>2. free' \subseteq 1 .. (DiskSize - 1)
        BY DEF BeginLayout
    <2>3. \A p \in table : Extent(p) \cap free' = {}
        BY DEF BeginLayout
    <2>4. \A p \in table : p.number \in taken'
        BY DEF BeginLayout
    <2> QED BY <2>1, <2>2, <2>3, <2>4 DEF SpaceAccounted, BeginLayout
<1> QED BY <1>1, <1>2 DEF PlanInv

\* An in-place shrink frees bytes of its own partition only, and no earlier
\* item freed any of them.
LEMMA ShrinkFreesOwn ==
    ASSUME PlanInv, LayingOut, OncePerPartition, ShrinkLeavesRoom,
           NEW q \in table, todo[i].original = Data(q)
    PROVE  /\ Freed(todo[i]) \subseteq Extent(q)
           /\ Remaining(q) = Extent(q)
<1>1. todo[i] \in Item /\ i \in DOMAIN todo /\ todo \in Seq(Item)
    BY DEF PlanInv, TypeOK, LocalsTypeOK, LayingOut
<1>2. todo[i].target.size >= 1
    BY <1>1 DEF ShrinkLeavesRoom
<1>3. todo[i].original.start = q.start /\ todo[i].original.size = q.size
    BY DEF Data
<1>4. Freed(todo[i]) \subseteq Extent(q)
    <2>1. q.start \in Nat /\ q.size \in Nat /\ todo[i].target.size \in Int
        BY <1>1, ItemFields DEF PlanInv, TypeOK, LocalsTypeOK, Entry
    <2> QED BY <2>1, <1>2, <1>3 DEF Freed, Extent, Bytes
<1>5. \A k \in DOMAIN resizes : resizes[k].original # Data(q)
    <2> SUFFICES ASSUME NEW k \in DOMAIN resizes PROVE resizes[k].original # Data(q)
        OBVIOUS
    <2>1. resizes[k].original = todo[k].original /\ k \in DOMAIN todo /\ k # i
        BY <1>1 DEF PlanInv, InStep, TypeOK, LocalsTypeOK, LayingOut
    <2> QED BY <1>1, <2>1 DEF OncePerPartition
<1>6. Remaining(q) = Extent(q)
    BY <1>5 DEF Remaining
<1> QED BY <1>4, <1>6

LEMMA SafeLayOutShrink ==
    ASSUME PlanInv, TypeOK', InStep', LayOutShrink
    PROVE  PlanInv'
<1> DEFINE item == todo[i]
<1>1. PICK q \in table : item.original = Data(q)
    BY DEF PlanInv, TypeOK, LocalsTypeOK, InStep, LayOutShrink, LayingOut
<1>2. LayingOut /\ InPlace(item) /\ free' = free \cup Freed(item) /\ taken' = taken
      /\ Settle(item.original.start, item.original.number)
    BY DEF LayOutShrink
<1>3. item \in Item
    BY <1>2, SettleAppends DEF PlanInv, TypeOK, LocalsTypeOK, LayingOut
<1>4. item.original.start \in Int /\ item.original.number \in Nat
    BY <1>3, ItemFields
<1>5. /\ DOMAIN resizes = 1 .. (i - 1) /\ DOMAIN resizes' = 1 .. i
      /\ \A k \in 1 .. (i - 1) : resizes'[k] = resizes[k]
      /\ resizes'[i].original = item.original
      /\ resizes'[i].target.size = item.target.size
      /\ i \in Nat \ {0}
    BY <1>2, <1>4, SettleAppends DEF PlanInv, TypeOK, LocalsTypeOK
<1>6. table' = table /\ todo' = todo /\ pc' = pc
    BY <1>2 DEF Settle
<1>7. SoundTable(table, DiskSize)'
    BY <1>6 DEF PlanInv, SoundTable, Extent, Bytes
<1>9. Grown' = Grown
    <2>1. i \notin Grown'
        BY <1>2, <1>5 DEF Grown, InPlace
    <2> QED BY <1>5, <2>1 DEF Grown
<1>10. Freed(resizes'[i]) = Freed(item) /\ InPlace(resizes'[i])
    BY <1>2, <1>5 DEF Freed, InPlace
<1>11. \A p \in table : Remaining(p)' \subseteq Remaining(p)
    BY <1>5, <1>6 DEF Remaining
<1>12. Remaining(q)' \cap Freed(item) = {}
    <2>1. item.original.start = q.start
        BY <1>1 DEF Data
    <2>2. \A b \in Remaining(q)' : b < q.start + item.target.size
        BY <1>1, <1>5, <1>10 DEF Remaining
    <2>3. \A b \in Freed(item) : b >= q.start + item.target.size
        BY <1>3, <1>4, <2>1, ItemFields DEF Freed
    <2>4. \A b \in Freed(item) : b \in Int /\ q.start + item.target.size \in Int
        BY <1>3, <1>4, <2>1, ItemFields DEF Freed
    <2> QED BY <2>2, <2>3, <2>4
<1>13. SpaceAccounted'
    <2> SUFFICES ASSUME OncePerPartition', ShrinkLeavesRoom'
                 PROVE  /\ free' \subseteq 1 .. (DiskSize - 1)
                        /\ \A p \in table : /\ Remaining(p)' \cap free' = {}
                                            /\ pc = "allocate" => p.number \in taken
                        /\ \A k \in Grown : /\ PlacedApart(k)'
                                            /\ Extent(resizes[k].target) \cap free' = {}
                                            /\ resizes[k].target.number \in taken
        <3>1. \A k \in Grown : resizes'[k] = resizes[k]
            BY <1>5 DEF Grown
        <3> QED BY <1>2, <1>6, <1>9, <3>1 DEF SpaceAccounted, Extent, Bytes
    <2>1. OncePerPartition /\ ShrinkLeavesRoom
        BY <1>6 DEF OncePerPartition, ShrinkLeavesRoom
    <2>2. Freed(item) \subseteq Extent(q) /\ Remaining(q) = Extent(q)
        BY <1>1, <1>2, <2>1, ShrinkFreesOwn
    <2>3. /\ free \subseteq 1 .. (DiskSize - 1)
          /\ \A p \in table : Remaining(p) \cap free = {} /\ (pc = "allocate" => p.number \in taken)
          /\ \A k \in Grown : /\ PlacedApart(k)
                              /\ Extent(resizes[k].target) \cap free = {}
                              /\ resizes[k].target.number \in taken
        BY <2>1 DEF PlanInv, SpaceAccounted
    <2>4. free' \subseteq 1 .. (DiskSize - 1)
        <3>1. /\ q.start \in Nat /\ q.size \in Nat /\ q.start + q.size <= DiskSize
              /\ item.original.start = q.start /\ item.original.size = q.size
            BY <1>1 DEF PlanInv, TypeOK, LocalsTypeOK, SoundTable, Entry, Data
        <3>2. item.target.size \in Int /\ item.target.size >= 1
            BY <1>2, <1>3, <2>1, ItemFields DEF ShrinkLeavesRoom, LayingOut, PlanInv, TypeOK, LocalsTypeOK
        <3>3. Freed(item) \subseteq 1 .. (DiskSize - 1)
            BY <3>1, <3>2, SizeAssumption DEF Freed
        <3> QED BY <1>2, <2>3, <3>3
    <2>5. \A p \in table : Remaining(p)' \cap free' = {}
        <3> SUFFICES ASSUME NEW p \in table PROVE Remaining(p)' \cap free' = {}
            OBVIOUS
        <3>1. Remaining(p)' \cap free = {}
            BY <1>11, <2>3
        <3>2. Remaining(p)' \cap Freed(item) = {}
            <4>1. CASE p = q
                BY <1>12, <4>1
            <4>2. CASE p # q
                <5>1. Extent(p) \cap Extent(q) = {}
                    BY <4>2 DEF PlanInv, SoundTable
                <5>2. Remaining(p)' \subseteq Extent(p)
                    BY <1>11 DEF Remaining
                <5> QED BY <2>2, <5>1, <5>2
            <4> QED BY <4>1, <4>2
        <3> QED BY <1>2, <3>1, <3>2
    <2>6. ASSUME NEW k \in Grown
          PROVE  PlacedApart(k)' /\ Extent(resizes[k].target) \cap free' = {}
        <3>1. PlacedApart(k) /\ \A m \in Grown : resizes'[m] = resizes[m]
            BY <1>5, <2>3 DEF Grown
        <3>2. \A p \in table : Extent(resizes[k].target) \cap Remaining(p)' = {}
            BY <1>11, <3>1 DEF PlacedApart
        <3>3. PlacedApart(k)'
            BY <1>6, <1>9, <3>1, <3>2 DEF PlacedApart
        <3>4. Extent(resizes[k].target) \cap Freed(item) = {}
            BY <2>2, <3>1 DEF PlacedApart
        <3> QED BY <1>2, <2>3, <3>3, <3>4
    <2> QED BY <2>3, <2>4, <2>5, <2>6
<1> QED BY <1>7, <1>13 DEF PlanInv

LEMMA SafeLayOutGrow ==
    ASSUME PlanInv, TypeOK', InStep', LayOutGrow
    PROVE  PlanInv'
<1> DEFINE item == todo[i]
           size == item.target.size
<1>1. LayingOut /\ ~InPlace(item)
    BY DEF LayOutGrow
<1>2. PICK start \in Fits(size), number \in 1 .. (Cardinality(taken) + 1) :
        /\ number \notin taken
        /\ Settle(start, number)
        /\ free' = free \ Bytes(start, size)
        /\ taken' = taken \cup {number}
    BY DEF LayOutGrow, GiveSpace
<1>3. start \in Int /\ number \in Nat /\ Bytes(start, size) \subseteq free
    BY FS_CardinalityType DEF Fits, PlanInv, TypeOK, LocalsTypeOK
<1>4. /\ i \in Nat \ {0} /\ DOMAIN resizes = 1 .. (i - 1) /\ DOMAIN resizes' = 1 .. i
      /\ \A k \in 1 .. (i - 1) : resizes'[k] = resizes[k]
      /\ resizes'[i].original = item.original
      /\ resizes'[i].target.number = number
      /\ resizes'[i].target.start = start
      /\ resizes'[i].target.size = size
    BY <1>1, <1>2, <1>3, SettleAppends DEF PlanInv, TypeOK, LocalsTypeOK
<1>5. table' = table /\ todo' = todo /\ pc' = pc
    BY <1>2 DEF Settle
<1>6. SoundTable(table, DiskSize)'
    BY <1>5 DEF PlanInv, SoundTable, Extent, Bytes
<1>8. ~InPlace(resizes'[i]) /\ Extent(resizes'[i].target) = Bytes(start, size)
    BY <1>1, <1>4 DEF InPlace, Extent
<1>9. Grown' = Grown \cup {i} /\ i \notin Grown
    BY <1>4, <1>8 DEF Grown
<1>10. \A p \in table : Remaining(p)' = Remaining(p)
    BY <1>4, <1>5, <1>8 DEF Remaining
<1>11. \A k \in Grown : resizes'[k] = resizes[k]
    BY <1>4 DEF Grown
<1>12. SpaceAccounted'
    <2> SUFFICES ASSUME OncePerPartition', ShrinkLeavesRoom'
                 PROVE  /\ free' \subseteq 1 .. (DiskSize - 1)
                        /\ \A p \in table : /\ Remaining(p)' \cap free' = {}
                                            /\ pc = "allocate" => p.number \in taken'
                        /\ \A k \in Grown' : /\ PlacedApart(k)'
                                             /\ Extent(resizes'[k].target) \cap free' = {}
                                             /\ resizes'[k].target.number \in taken'
        BY <1>5 DEF SpaceAccounted, Extent, Bytes
    <2>1. OncePerPartition /\ ShrinkLeavesRoom
        BY <1>5 DEF OncePerPartition, ShrinkLeavesRoom
    <2>2. /\ free \subseteq 1 .. (DiskSize - 1)
          /\ \A p \in table : Remaining(p) \cap free = {} /\ p.number \in taken
          /\ \A k \in Grown : /\ PlacedApart(k)
                              /\ Extent(resizes[k].target) \cap free = {}
                              /\ resizes[k].target.number \in taken
        BY <1>1, <2>1 DEF PlanInv, SpaceAccounted, LayingOut
    <2> PICK n : n = i
        OBVIOUS
    <2>3. PlacedApart(n)'
        <3>1. Extent(resizes'[i].target) \subseteq 1 .. (DiskSize - 1)
            BY <1>3, <1>8, <2>2
        <3>2. \A p \in table : /\ Extent(resizes'[i].target) \cap Remaining(p)' = {}
                               /\ resizes'[i].target.number # p.number
            BY <1>2, <1>3, <1>4, <1>8, <1>10, <2>2
        <3>3. \A m \in Grown : /\ Extent(resizes'[i].target) \cap Extent(resizes'[m].target) = {}
                               /\ resizes'[i].target.number # resizes'[m].target.number
            BY <1>2, <1>3, <1>4, <1>8, <1>11, <2>2
        <3> QED BY <1>5, <1>9, <3>1, <3>2, <3>3 DEF PlacedApart
    <2>4. ASSUME NEW k \in Grown PROVE PlacedApart(k)'
        <3>1. PlacedApart(k) /\ resizes'[k] = resizes[k]
            BY <1>11, <2>2
        <3>2. \A p \in table : Extent(resizes'[k].target) \cap Remaining(p)' = {}
            BY <1>10, <3>1 DEF PlacedApart
        <3>3. Extent(resizes'[k].target) \cap Extent(resizes'[i].target) = {}
            BY <1>3, <1>8, <2>2, <3>1
        <3>4. resizes'[k].target.number # resizes'[i].target.number
            BY <1>2, <1>4, <2>2, <3>1
        <3> QED BY <1>5, <1>9, <1>11, <3>1, <3>2, <3>3, <3>4 DEF PlacedApart
    <2>5. \A k \in Grown' : /\ Extent(resizes'[k].target) \cap free' = {}
                            /\ resizes'[k].target.number \in taken'
        BY <1>2, <1>4, <1>8, <1>9, <1>11, <2>2
    <2>6. \A k \in Grown' : PlacedApart(k)'
        BY <1>9, <2>3, <2>4
    <2> QED BY <1>2, <1>10, <2>2, <2>5, <2>6
<1> QED BY <1>6, <1>12 DEF PlanInv

LEMMA SafeNext == PlanInv /\ [Next]_plannerVars => PlanInv'
<1> SUFFICES ASSUME PlanInv, [Next]_plannerVars PROVE PlanInv'
    OBVIOUS
<1>0. TypeOK' /\ InStep'
    BY TypeNext, InStepNext DEF PlanInv
<1>1. CASE Discover
    BY <1>0, <1>1, SafeControl DEF Discover
<1>2. CASE NotDiscovered
    BY <1>0, <1>2, SafeControl DEF NotDiscovered
<1>3. CASE SkipSatisfied
    BY <1>0, <1>3, SafeClassify DEF SkipSatisfied
<1>4. CASE ReuseRelocated
    BY <1>0, <1>4, SafeClassify DEF ReuseRelocated
<1>5. CASE QueuePending
    BY <1>0, <1>5, SafeClassify DEF QueuePending
<1>6. CASE NothingPending
    BY <1>0, <1>6, SafeControl DEF NothingPending
<1>7. CASE FirstAttempt
    BY <1>0, <1>7, SafeBeginLayout DEF FirstAttempt, PlanInv, TypeOK, LocalsTypeOK
<1>8. CASE LayOutShrink
    BY <1>0, <1>8, SafeLayOutShrink
<1>9. CASE LayOutGrow
    BY <1>0, <1>9, SafeLayOutGrow
<1>10. CASE LayoutComplete
    BY <1>0, <1>10, SafeControl DEF LayoutComplete
<1>11. CASE RetryWithShrink
    <2>1. PICK p \in FirstMatch(table, req.shrink) : BeginLayout(<<ShrinkItem(p)>> \o todo)
        BY <1>11 DEF RetryWithShrink, Retry
    <2>2. <<ShrinkItem(p)>> \o todo \in Seq(Item)
        BY ShrinkItemType DEF FirstMatch, PlanInv, TypeOK, LocalsTypeOK
    <2> QED BY <1>0, <2>1, <2>2, SafeBeginLayout
<1>12. CASE InsufficientSpace
    BY <1>0, <1>12, SafeControl DEF InsufficientSpace, GiveUp
<1>13. CASE UNCHANGED plannerVars
    BY <1>0, <1>13, SafeControl DEF plannerVars
<1> QED BY <1>1, <1>2, <1>3, <1>4, <1>5, <1>6, <1>7, <1>8, <1>9, <1>10, <1>11, <1>12, <1>13 DEF Next

\* A finished plan gives every relocated partition bytes and a slot of its own,
\* whatever the disk, the table, the GB that shrinks are rounded to, and the
\* request: calculateResizes and planResizes keep PlanInv, whose conjuncts say
\* that the free space never holds a byte somebody owns.
THEOREM PlanSafe == Spec => []PlanIsSafe
<1>1. PlanInv => PlanIsSafe
    BY DEF PlanInv, SpaceAccounted, PlanIsSafe
<1> QED BY <1>1, SafeInit, SafeNext, PTL DEF Spec

\* At every step of a layout the free space and the free slots are disjoint
\* from all that the entries keep and all that was handed out.
THEOREM FreeSpaceAccounted == Spec => []SpaceAccounted
<1>1. PlanInv => SpaceAccounted
    BY DEF PlanInv
<1> QED BY <1>1, SafeInit, SafeNext, PTL DEF Spec
-----------------------------------------------------------------------------
\* What ShrinkMakesRoom rests on: the pending sizes add up to total, and from
\* the shrink on one run of free bytes has room for all that are left, however
\* the rest of the free space is broken up. Sums(f, m) says that f[k] is the sum
\* of the sizes of the items after the first m, up to the k-th.
AllPositive == \A k \in DOMAIN req.grows : req.grows[k].size > 0
Sums(f, m) ==
    /\ f \in [m .. Len(todo) -> Int]
    /\ f[m] = 0 /\ f[Len(todo)] = total
    /\ \A k \in m + 1 .. Len(todo) :
          todo[k].target.size > 0 /\ f[k] = f[k - 1] + todo[k].target.size
    /\ \A k \in m .. Len(todo) : f[k] <= total
RoomFrom(n) == \E s \in Int : Bytes(s, n) \subseteq free
FreeBounded == \E lo \in Int : \A b \in free : lo <= b
RoomAfterShrink ==
    /\ Len(todo) >= 1 /\ total > 0
    /\ todo[1].target.size = todo[1].original.size - RoundUp(total)
    /\ \E f : Sums(f, 1) /\ (i >= 2 => RoomFrom(total - f[i - 1]))
RoomInv ==
    AllPositive =>
        /\ FreeBounded
        /\ pc \in {"off", "classify"} => ~retried
        /\ ~retried /\ pc \in {"off", "classify", "allocate"} => \E f : Sums(f, 0)
        /\ retried => pc # "failed"
        /\ retried /\ pc = "allocate" => RoomAfterShrink

\* Rounding up does not round down.
LEMMA RoundUpBounds == ASSUME NEW n \in Int, n > 0 PROVE RoundUp(n) >= n
<1>1. GB \in Nat /\ GB > 0
    BY SizeAssumption
<1>2. n \div GB \in Int /\ n < (n \div GB + 1) * GB
    BY <1>1, SMT
<1>3. Gigabytes(n) = n \div GB
    BY DEF Gigabytes
<1> QED BY <1>1, <1>2, <1>3 DEF RoundUp

\* Every free byte is in a run that has a head.
LEMMA RunHasHead ==
    ASSUME NEW F \in SUBSET Int, NEW lo \in Int, \A b \in F : lo <= b, NEW s \in F
    PROVE  \E t \in F : t <= s /\ t - 1 \notin F /\ t .. s \subseteq F
<1> DEFINE S == {n \in 0 .. s - lo : s - n \in F /\ s - n .. s \subseteq F}
<1>1. s - lo \in Nat
    OBVIOUS
<1>2. 0 \in S
    BY <1>1
<1>3. PICK m \in S : \A k \in S : k <= m
    <2> HIDE DEF S
    <2>1. S \in SUBSET (0 .. s - lo)
        BY DEF S
    <2> QED BY <1>1, <1>2, <2>1, GreatestNatural
<1>4. m \in Nat /\ s - m \in F /\ s - m .. s \subseteq F
    OBVIOUS
<1>5. s - m - 1 \notin F
    <2> SUFFICES ASSUME s - m - 1 \in F PROVE FALSE
        OBVIOUS
    <2>1. s - (m + 1) \in F /\ lo <= s - (m + 1)
        BY <1>4
    <2>2. s - (m + 1) .. s \subseteq F
        BY <1>4, <2>1
    <2>3. m + 1 \in S
        BY <1>4, <2>1, <2>2
    <2> QED BY <1>3, <1>4, <2>3
<1> QED BY <1>4, <1>5

\* A run of n bytes has room for any size up to n,
LEMMA RoomFits ==
    ASSUME free \subseteq Int, FreeBounded, NEW n \in Int, RoomFrom(n), NEW size \in Int, 0 < size, size <= n
    PROVE  Fits(size) # {}
<1>1. PICK lo \in Int : \A b \in free : lo <= b
    BY DEF FreeBounded
<1>2. PICK s \in Int : Bytes(s, n) \subseteq free
    BY DEF RoomFrom
<1>3. s \in free
    BY <1>2 DEF Bytes
<1>4. PICK t \in free : t <= s /\ t - 1 \notin free /\ t .. s \subseteq free
    BY <1>1, <1>3, RunHasHead
<1>5. Bytes(t, size) \subseteq t .. s \cup Bytes(s, n)
    BY <1>4 DEF Bytes
<1> QED BY <1>2, <1>4, <1>5 DEF Fits

\* and taking the head of some run leaves room for what the size leaves of n.
LEMMA RoomLeft ==
    ASSUME free \subseteq Int, NEW n \in Int, RoomFrom(n), NEW size \in Int, 0 < size, size <= n,
           NEW t \in Fits(size), free' = free \ Bytes(t, size)
    PROVE  RoomFrom(n - size)'
<1>1. PICK s \in Int : Bytes(s, n) \subseteq free
    BY DEF RoomFrom
<1>2. t \in Int /\ t - 1 \notin free
    BY DEF Fits
<1>3. CASE t > s
    <2>1. t - 1 \notin Bytes(s, n)
        BY <1>1, <1>2
    <2>2. t >= s + n
        BY <1>2, <1>3, <2>1 DEF Bytes
    <2>3. Bytes(s, n - size) \subseteq Bytes(s, n) /\ Bytes(s, n - size) \cap Bytes(t, size) = {}
        BY <1>2, <2>2 DEF Bytes
    <2> QED BY <1>1, <2>3 DEF RoomFrom
<1>4. CASE t <= s
    <2>1. s + size \in Int /\ Bytes(s + size, n - size) \subseteq Bytes(s, n)
        BY <1>1 DEF Bytes
    <2>2. Bytes(s + size, n - size) \cap Bytes(t, size) = {}
        BY <1>2, <1>4 DEF Bytes
    <2> QED BY <1>1, <2>1, <2>2 DEF RoomFrom
<1> QED BY <1>1, <1>2, <1>3, <1>4

\* Steps that do not touch what the invariant is about.
LEMMA RoomFrame ==
    ASSUME RoomInv, UNCHANGED <<req, todo, total, free, retried>>,
           \/ pc' = pc /\ i' = i
           \/ pc' = "planned"
           \/ pc \in {"off", "classify"} /\ pc' \in {"classify", "failed"}
    PROVE  RoomInv'
BY DEF RoomInv, AllPositive, FreeBounded, RoomAfterShrink, RoomFrom, Sums

LEMMA RoomQueues ==
    ASSUME TypeOK, RoomInv, QueuePending
    PROVE  RoomInv'
<1> SUFFICES ASSUME AllPositive PROVE RoomInv'
    BY DEF RoomInv, AllPositive, QueuePending, Classifying
<1>1. PICK p \in table :
        /\ Classifying(p)
        /\ todo' = Append(todo, Pending(p, req.grows[i].size))
        /\ total' = total + req.grows[i].size
    BY DEF QueuePending
<1> DEFINE n == Len(todo)
           size == req.grows[i].size
<1>2. /\ todo \in Seq(Item) /\ n \in Nat /\ total \in Int /\ i \in DOMAIN req.grows /\ size \in Int
      /\ pc = "classify" /\ UNCHANGED <<pc, req, retried, free>>
    <2>1. req.grows \in Seq(Change) /\ i \in Nat \ {0} /\ i <= Len(req.grows)
        BY <1>1, RequestAssumption DEF TypeOK, LocalsTypeOK, Classifying, Request
    <2>2. i \in DOMAIN req.grows /\ req.grows[i] \in Change
        BY <2>1
    <2> QED BY <1>1, <2>2 DEF Change, TypeOK, LocalsTypeOK, Classifying
<1>3. size > 0
    BY <1>2 DEF AllPositive
<1>4. ~retried
    BY <1>2 DEF RoomInv
<1>5. PICK f : Sums(f, 0)
    BY <1>2, <1>4 DEF RoomInv
<1>6. /\ Len(todo') = n + 1 /\ todo'[n + 1].target.size = size
      /\ \A k \in 1 .. n : todo'[k] = todo[k]
    BY <1>1, <1>2 DEF Pending
<1>7. total' = total + size
    BY <1>1
<1> HIDE DEF size, n
<1>8. /\ f \in [0 .. n -> Int] /\ f[0] = 0 /\ f[n] = total
      /\ \A k \in 1 .. n : todo[k].target.size > 0 /\ f[k] = f[k - 1] + todo[k].target.size
      /\ \A k \in 0 .. n : f[k] <= total
    BY <1>5 DEF Sums, n
<1>9. PICK g : g \in [0 .. n + 1 -> Int] /\ g[0] = 0 /\ g[n + 1] = total + size /\ \A k \in 0 .. n : g[k] = f[k]
    <2> DEFINE h == [k \in 0 .. n + 1 |-> IF k <= n THEN f[k] ELSE total + size]
    <2>1. h \in [0 .. n + 1 -> Int] /\ h[0] = 0 /\ h[n + 1] = total + size /\ \A k \in 0 .. n : h[k] = f[k]
        BY <1>2, <1>8
    <2> QED BY <2>1
<1>10. ASSUME NEW k \in 0 + 1 .. n + 1
       PROVE  todo'[k].target.size > 0 /\ g[k] = g[k - 1] + todo'[k].target.size
    <2>1. CASE k = n + 1
        <3>1. n \in 0 .. n /\ k - 1 = n
            BY <1>2, <2>1
        <3>2. g[k - 1] = total /\ g[k] = total + size /\ todo'[k].target.size = size
            BY <1>6, <1>8, <1>9, <2>1, <3>1
        <3> QED BY <1>3, <3>2
    <2>2. CASE k # n + 1
        <3>1. k \in 1 .. n /\ k - 1 \in 0 .. n /\ k \in 0 .. n
            BY <1>2, <2>2
        <3> QED BY <1>6, <1>8, <1>9, <3>1
    <2> QED BY <2>1, <2>2
<1>11. ASSUME NEW k \in 0 .. n + 1 PROVE g[k] <= total + size
    <2>1. CASE k = n + 1
        BY <1>2, <1>9, <2>1
    <2>2. CASE k # n + 1
        <3>1. k \in 0 .. n /\ f[k] \in Int
            BY <1>2, <1>8, <2>2
        <3> QED BY <1>2, <1>3, <1>8, <1>9, <3>1
    <2> QED BY <2>1, <2>2
<1>12. Sums(g, 0)'
    BY <1>6, <1>7, <1>9, <1>10, <1>11 DEF Sums
<1>13. \E h : Sums(h, 0)'
    BY <1>12
<1>14. FreeBounded'
    BY <1>2 DEF RoomInv, FreeBounded
<1> QED BY <1>2, <1>4, <1>13, <1>14 DEF RoomInv

\* At first all bytes outside the partitions are free.
LEMMA FreeStartsBounded == ASSUME NEW items, BeginLayout(items) PROVE FreeBounded'
<1>1. \A b \in free' : 1 <= b
    BY SizeAssumption DEF BeginLayout
<1> QED BY <1>1 DEF FreeBounded

LEMMA RoomFirst ==
    ASSUME TypeOK, RoomInv, FirstAttempt
    PROVE  RoomInv'
<1>1. UNCHANGED <<req, todo, total, retried>> /\ pc = "classify" /\ pc' = "allocate" /\ FreeBounded'
    BY FreeStartsBounded DEF FirstAttempt, BeginLayout
<1> QED BY <1>1 DEF RoomInv, AllPositive, Sums

\* The shrink partition is put in front of the items that found no room.
LEMMA RoomRetries ==
    ASSUME TypeOK, RoomInv, RetryWithShrink
    PROVE  RoomInv'
<1> SUFFICES ASSUME AllPositive PROVE RoomInv'
    BY DEF RoomInv, AllPositive, RetryWithShrink, Retry, BeginLayout
<1>1. PICK p \in FirstMatch(table, req.shrink) : BeginLayout(<<ShrinkItem(p)>> \o todo)
    BY DEF RetryWithShrink, Retry
<1>2. /\ ~retried /\ retried' /\ pc = "allocate" /\ pc' = "allocate" /\ i <= Len(todo) /\ i' = 1
      /\ UNCHANGED <<req, total>> /\ FreeBounded'
    BY <1>1, FreeStartsBounded DEF RetryWithShrink, Retry, NoRoom, LayingOut, BeginLayout
<1>3. /\ todo \in Seq(Item) /\ Len(todo) \in Nat /\ Len(todo) >= 1 /\ total \in Int
      /\ p \in Entry /\ RoundUp(total) \in Int
    <2>1. todo \in Seq(Item) /\ total \in Int /\ i \in Nat /\ i >= 1 /\ p \in Entry
        BY DEF TypeOK, LocalsTypeOK, FirstMatch
    <2> QED BY <1>2, <2>1, RoundUpType
<1>4. PICK f : Sums(f, 0)
    BY <1>2 DEF RoomInv
<1> DEFINE n == Len(todo)
<1>5. /\ Len(todo') = n + 1 /\ todo'[1] = ShrinkItem(p)
      /\ \A k \in 2 .. n + 1 : todo'[k] = todo[k - 1]
    <2>1. todo' = <<ShrinkItem(p)>> \o todo
        BY <1>1 DEF BeginLayout
    <2> QED BY <1>3, <2>1
<1> HIDE DEF n
<1>6. /\ n \in Nat /\ n >= 1
      /\ f \in [0 .. n -> Int] /\ f[0] = 0 /\ f[n] = total
      /\ \A k \in 1 .. n : todo[k].target.size > 0 /\ f[k] = f[k - 1] + todo[k].target.size
      /\ \A k \in 0 .. n : f[k] <= total
    BY <1>3, <1>4 DEF Sums, n
<1>7. PICK g : g \in [1 .. n + 1 -> Int] /\ g[1] = 0 /\ g[n + 1] = total /\ \A k \in 1 .. n + 1 : g[k] = f[k - 1]
    <2> DEFINE h == [k \in 1 .. n + 1 |-> f[k - 1]]
    <2>1. h \in [1 .. n + 1 -> Int] /\ h[1] = 0 /\ h[n + 1] = total /\ \A k \in 1 .. n + 1 : h[k] = f[k - 1]
        BY <1>6
    <2> QED BY <2>1
<1>8. ASSUME NEW k \in 2 .. n + 1
      PROVE  todo'[k].target.size > 0 /\ g[k] = g[k - 1] + todo'[k].target.size
    <2>1. k - 1 \in 1 .. n /\ k \in 1 .. n + 1 /\ k - 1 \in 1 .. n + 1
        BY <1>6
    <2> QED BY <1>5, <1>6, <1>7, <2>1
<1>9. ASSUME NEW k \in 1 .. n + 1 PROVE g[k] <= total
    <2>1. k - 1 \in 0 .. n
        BY <1>6
    <2> QED BY <1>6, <1>7, <2>1
<1>10. Sums(g, 1)'
    BY <1>2, <1>5, <1>7, <1>8, <1>9 DEF Sums
<1>11. total > 0
    <2>1. 1 \in 1 .. n /\ 1 \in 0 .. n /\ 1 - 1 = 0
        BY <1>6
    <2>2. todo[1].target.size \in Int
        BY <1>3, ItemFields
    <2> QED BY <1>3, <1>6, <2>1, <2>2
<1>12. Len(todo') >= 1 /\ todo'[1].target.size = todo'[1].original.size - RoundUp(total')
    <2>1. RoundUp(total') = RoundUp(total)
        BY <1>2
    <2> QED BY <1>5, <1>6, <2>1 DEF ShrinkItem, Data
<1>13. RoomAfterShrink'
    BY <1>2, <1>10, <1>11, <1>12 DEF RoomAfterShrink
<1> QED BY <1>2, <1>13 DEF RoomInv

\* What the next item takes of the sum, as long as there is a next item.
LEMMA NextTakes ==
    ASSUME TypeOK, LayingOut, RoomAfterShrink
    PROVE  /\ todo[i] \in Item /\ todo[i].target.size \in Int /\ i \in Nat \ {0} /\ total \in Int
           /\ \E f : /\ Sums(f, 1)
                     /\ i = 1 => f[i] = 0
                     /\ i >= 2 =>
                           /\ f[i] \in Int /\ f[i - 1] \in Int /\ f[i] <= total
                           /\ todo[i].target.size > 0 /\ f[i] = f[i - 1] + todo[i].target.size
                           /\ RoomFrom(total - f[i - 1])
<1>1. todo \in Seq(Item) /\ i \in Nat \ {0} /\ i <= Len(todo) /\ total \in Int
    BY DEF TypeOK, LocalsTypeOK, LayingOut
<1>2. todo[i] \in Item
    BY <1>1
<1>3. PICK f : Sums(f, 1) /\ (i >= 2 => RoomFrom(total - f[i - 1]))
    BY DEF RoomAfterShrink
<1>4. f[1] = 0
    BY <1>3 DEF Sums
<1>5. ASSUME i >= 2
      PROVE  /\ f[i] \in Int /\ f[i - 1] \in Int /\ f[i] <= total
             /\ todo[i].target.size > 0 /\ f[i] = f[i - 1] + todo[i].target.size
    <2>1. i \in 1 + 1 .. Len(todo) /\ i \in 1 .. Len(todo) /\ i - 1 \in 1 .. Len(todo)
        BY <1>1, <1>5
    <2> QED BY <1>3, <2>1 DEF Sums
<1> QED BY <1>1, <1>2, <1>3, <1>4, <1>5, ItemFields

LEMMA RoomSettles ==
    ASSUME RoomInv, AllPositive, LayingOut, NEW start, NEW number, Settle(start, number),
           FreeBounded', RoomAfterShrink => RoomAfterShrink'
    PROVE  RoomInv'
<1>1. UNCHANGED <<req, todo, total, retried, pc>> /\ pc = "allocate"
    BY DEF LayingOut, Settle
<1> QED BY <1>1 DEF RoomInv, Sums

\* What is given back only adds to the room, and the first of it, from the
\* partition that was put in front, is the room for all that follows.
LEMMA RoomShrinks ==
    ASSUME TypeOK, RoomInv, LayOutShrink
    PROVE  RoomInv'
<1> SUFFICES ASSUME AllPositive PROVE RoomInv'
    BY DEF RoomInv, AllPositive, LayOutShrink, Settle
<1>1. /\ LayingOut /\ InPlace(todo[i]) /\ Settle(todo[i].original.start, todo[i].original.number)
      /\ free' = free \cup Freed(todo[i]) /\ i' = i + 1 /\ UNCHANGED <<todo, total>>
    BY DEF LayOutShrink, Settle
<1>2. /\ todo[i] \in Item /\ todo[i].original.start \in Int /\ todo[i].original.size \in Int
      /\ todo[i].target.size \in Int /\ i \in Nat \ {0} /\ free \subseteq Int
    <2>1. todo[i] \in Item /\ i \in Nat \ {0} /\ free \subseteq Int
        BY <1>1 DEF TypeOK, LocalsTypeOK, LayingOut
    <2> QED BY <2>1, ItemFields
<1> DEFINE first == todo[i].original.start + todo[i].target.size
           last == todo[i].original.start + todo[i].original.size - 1
<1>3. FreeBounded'
    <2>1. PICK lo \in Int : \A b \in free : lo <= b
        BY DEF RoomInv, FreeBounded
    <2>2. Freed(todo[i]) = first .. last /\ first \in Int
        BY <1>2 DEF Freed
    <2> HIDE DEF first, last
    <2>3. PICK low \in Int : low <= lo /\ low <= first
        <3>1. CASE lo <= first
            BY <3>1
        <3>2. CASE first <= lo
            BY <2>2, <3>2
        <3> QED BY <2>2, <3>1, <3>2
    <2>4. \A b \in free' : low <= b
        BY <1>1, <1>2, <2>1, <2>2, <2>3
    <2> QED BY <2>4 DEF FreeBounded
<1>4. ASSUME NEW n, RoomFrom(n) PROVE RoomFrom(n)'
    BY <1>1, <1>4 DEF RoomFrom
<1>5. ASSUME RoomAfterShrink PROVE RoomAfterShrink'
    <2>1. PICK f : /\ Sums(f, 1)
                   /\ i = 1 => f[i] = 0
                   /\ i >= 2 => /\ f[i] \in Int /\ f[i - 1] \in Int /\ f[i] <= total
                                /\ todo[i].target.size > 0 /\ f[i] = f[i - 1] + todo[i].target.size
                                /\ RoomFrom(total - f[i - 1])
        BY <1>1, <1>5, NextTakes
    <2>2. Sums(f, 1)' /\ total \in Int /\ total > 0 /\ i' - 1 = i
        BY <1>1, <1>2, <1>5, <2>1 DEF Sums, RoomAfterShrink, TypeOK, LocalsTypeOK
    <2>3. \E s \in Int : Bytes(s, total - f[i]) \subseteq free'
        <3>1. CASE i = 1
            <4>1. todo[i].target.size = todo[i].original.size - RoundUp(total)
                BY <1>5, <3>1 DEF RoomAfterShrink
            <4>2. RoundUp(total) \in Int /\ RoundUp(total) >= total
                BY <2>2, RoundUpType, RoundUpBounds
            <4>3. Bytes(first, total) \subseteq Freed(todo[i])
                BY <1>2, <2>2, <4>1, <4>2 DEF Freed, Bytes
            <4>4. total - f[i] = total
                BY <2>1, <2>2, <3>1
            <4>5. PICK s \in Int : Bytes(s, total) \subseteq free'
                BY <1>1, <1>2, <4>3
            <4> QED BY <4>4, <4>5
        <3>2. CASE i # 1
            <4>1. i >= 2
                BY <1>2, <3>2
            <4>2. PICK s \in Int : Bytes(s, total - f[i - 1]) \subseteq free
                BY <2>1, <4>1 DEF RoomFrom
            <4>3. Bytes(s, total - f[i]) \subseteq Bytes(s, total - f[i - 1])
                BY <1>2, <2>1, <2>2, <4>1 DEF Bytes
            <4> QED BY <1>1, <4>2, <4>3
        <3> QED BY <3>1, <3>2
    <2>4. \E s \in Int : Bytes(s, total' - f[i' - 1]) \subseteq free'
        BY <1>1, <2>2, <2>3
    <2> QED BY <1>1, <1>5, <2>2, <2>4 DEF RoomAfterShrink, RoomFrom
<1> QED BY <1>1, <1>3, <1>5, RoomSettles

\* The item in front shrinks in place, so one that grows comes after it.
LEMMA FirstShrinks ==
    ASSUME TypeOK, LayingOut, RoomAfterShrink, ~InPlace(todo[i])
    PROVE  i >= 2
<1>1. i \in Nat \ {0} /\ todo[i] \in Item /\ total \in Int
    BY NextTakes
<1>2. ASSUME i = 1 PROVE FALSE
    <2>1. todo[i].target.size = todo[i].original.size - RoundUp(total) /\ total > 0
        BY <1>2 DEF RoomAfterShrink
    <2>2. RoundUp(total) \in Int /\ RoundUp(total) >= total
        BY <1>1, <2>1, RoundUpType, RoundUpBounds
    <2>3. todo[i].original.size \in Int
        BY <1>1, ItemFields
    <2> QED BY <1>1, <2>1, <2>2, <2>3 DEF InPlace
<1> QED BY <1>1, <1>2

\* A partition laid out elsewhere takes no more than its share of the room.
LEMMA RoomGrows ==
    ASSUME TypeOK, RoomInv, LayOutGrow
    PROVE  RoomInv'
<1> SUFFICES ASSUME AllPositive PROVE RoomInv'
    BY DEF RoomInv, AllPositive, LayOutGrow, GiveSpace, Settle
<1>0. PICK start \in Fits(todo[i].target.size) : GiveSpace(start)
    BY DEF LayOutGrow
<1>1. PICK number :
        /\ Settle(start, number)
        /\ free' = free \ Bytes(start, todo[i].target.size)
    BY <1>0 DEF GiveSpace
<1>2. LayingOut /\ ~InPlace(todo[i]) /\ i' = i + 1 /\ UNCHANGED <<todo, total>> /\ free \subseteq Int
    BY <1>1 DEF LayOutGrow, Settle, TypeOK, LocalsTypeOK
<1>3. FreeBounded'
    BY <1>1 DEF RoomInv, FreeBounded
<1>4. ASSUME RoomAfterShrink PROVE RoomAfterShrink'
    <2>1. i >= 2
        BY <1>2, <1>4, FirstShrinks
    <2>2. /\ todo[i].target.size \in Int /\ i \in Nat \ {0} /\ total \in Int
          /\ \E f : /\ Sums(f, 1)
                    /\ f[i] \in Int /\ f[i - 1] \in Int /\ f[i] <= total
                    /\ todo[i].target.size > 0 /\ f[i] = f[i - 1] + todo[i].target.size
                    /\ RoomFrom(total - f[i - 1])
        BY <1>2, <1>4, <2>1, NextTakes
    <2>3. PICK f : /\ Sums(f, 1)
                   /\ f[i] \in Int /\ f[i - 1] \in Int /\ f[i] <= total
                   /\ todo[i].target.size > 0 /\ f[i] = f[i - 1] + todo[i].target.size
                   /\ RoomFrom(total - f[i - 1])
        BY <2>2
    <2>4. PICK n \in Int : n = total - f[i - 1]
        BY <2>2, <2>3
    <2>5. PICK size \in Int : size = todo[i].target.size
        BY <2>2
    <2>6. 0 < size /\ size <= n /\ n - size = total - f[i]
        BY <2>2, <2>3, <2>4, <2>5
    <2>7. start \in Fits(size) /\ free' = free \ Bytes(start, size) /\ RoomFrom(n)
        BY <1>1, <2>3, <2>4, <2>5
    <2>8. RoomFrom(n - size)'
        BY <1>2, <2>6, <2>7, RoomLeft
    <2>9. \E s \in Int : Bytes(s, n - size) \subseteq free'
        BY <2>8 DEF RoomFrom
    <2>10. i' - 1 = i /\ total' = total
        BY <1>2, <2>2
    <2>11. \E s \in Int : Bytes(s, total' - f[i' - 1]) \subseteq free'
        BY <2>6, <2>9, <2>10
    <2>12. Sums(f, 1)'
        BY <1>2, <2>3 DEF Sums
    <2> QED BY <1>2, <1>4, <2>11, <2>12 DEF RoomAfterShrink, RoomFrom
<1> QED BY <1>1, <1>2, <1>3, <1>4, RoomSettles

\* With the shrink partition in front no item is left without room.
LEMMA RoomNeverMissing ==
    ASSUME TypeOK, RoomInv, AllPositive, retried, NoRoom
    PROVE  FALSE
<1>1. LayingOut /\ ~InPlace(todo[i]) /\ RoomAfterShrink /\ FreeBounded /\ free \subseteq Int
    BY DEF NoRoom, LayingOut, RoomInv, TypeOK, LocalsTypeOK
<1>2. i >= 2
    BY <1>1, FirstShrinks
<1>3. PICK f : /\ f[i] \in Int /\ f[i - 1] \in Int /\ f[i] <= total
               /\ todo[i].target.size > 0 /\ f[i] = f[i - 1] + todo[i].target.size
               /\ RoomFrom(total - f[i - 1])
    BY <1>1, <1>2, NextTakes
<1>4. todo[i].target.size \in Int /\ total \in Int
    BY <1>1, NextTakes
<1>5. total - f[i - 1] \in Int /\ 0 < todo[i].target.size /\ todo[i].target.size <= total - f[i - 1]
    BY <1>3, <1>4
<1>6. Fits(todo[i].target.size) # {}
    BY <1>1, <1>3, <1>4, <1>5, RoomFits
<1> QED BY <1>6 DEF NoRoom

LEMMA RoomInit == Init => RoomInv
<1> SUFFICES ASSUME Init PROVE RoomInv
    OBVIOUS
<1>1. todo = <<>> /\ total = 0 /\ free = {} /\ retried = FALSE /\ pc = "off" /\ Len(todo) = 0
    BY DEF Init, InitLocals
<1>2. PICK f : f = [k \in 0 .. 0 |-> 0]
    OBVIOUS
<1>3. Sums(f, 0)
    BY <1>1, <1>2 DEF Sums
<1>4. FreeBounded
    BY <1>1 DEF FreeBounded
<1> QED BY <1>1, <1>3, <1>4 DEF RoomInv

LEMMA RoomNext == TypeOK /\ RoomInv /\ [Next]_plannerVars => RoomInv'
<1> SUFFICES ASSUME TypeOK, RoomInv, [Next]_plannerVars PROVE RoomInv'
    OBVIOUS
<1>1. CASE Discover
    BY <1>1, RoomFrame DEF Discover, locals
<1>2. CASE NotDiscovered
    BY <1>2, RoomFrame DEF NotDiscovered, locals
<1>3. CASE SkipSatisfied \/ ReuseRelocated
    <2>1. UNCHANGED <<req, pc, todo, total, free, retried>> /\ pc = "classify"
        BY <1>3 DEF SkipSatisfied, ReuseRelocated, Classifying
    <2> QED BY <2>1, RoomFrame
<1>4. CASE QueuePending
    BY <1>4, RoomQueues
<1>5. CASE NothingPending
    BY <1>5, RoomFrame DEF NothingPending, locals
<1>6. CASE FirstAttempt
    BY <1>6, RoomFirst
<1>7. CASE LayOutShrink
    BY <1>7, RoomShrinks
<1>8. CASE LayOutGrow
    BY <1>8, RoomGrows
<1>9. CASE LayoutComplete
    BY <1>9, RoomFrame DEF LayoutComplete, locals
<1>10. CASE RetryWithShrink
    BY <1>10, RoomRetries
<1>11. CASE InsufficientSpace
    <2>1. NoRoom /\ pc' = "failed" /\ UNCHANGED <<req, todo, total, free, retried>>
        BY <1>11 DEF InsufficientSpace, GiveUp, locals
    <2>2. AllPositive => ~retried
        BY <2>1, RoomNeverMissing
    <2> QED BY <2>1, <2>2 DEF RoomInv, AllPositive, FreeBounded
<1>12. CASE UNCHANGED plannerVars
    BY <1>12, RoomFrame DEF plannerVars, locals
<1> QED BY <1>1, <1>2, <1>3, <1>4, <1>5, <1>6, <1>7, <1>8, <1>9, <1>10, <1>11, <1>12 DEF Next

\* planResizes rounds the shrink up to a GB in integers, (total/GB + 1)*GB, and
\* its second attempt never ends in an InsufficientSpaceError: for every disk,
\* table and GB, and every request for positive sizes, whatever order the items
\* are in and whichever of them shrink in place themselves.
THEOREM ShrinkAlwaysMakesRoom == Spec => []ShrinkMakesRoom
<1>1. TypeOK /\ RoomInv => ShrinkMakesRoom
    BY DEF RoomInv, AllPositive, ShrinkMakesRoom
<1>2. Init => TypeOK /\ RoomInv
    BY TypeInit, RoomInit
<1>3. TypeOK /\ RoomInv /\ [Next]_plannerVars => TypeOK' /\ RoomInv'
    BY TypeNext, RoomNext
<1> QED BY <1>1, <1>2, <1>3, PTL DEF Spec
=============================================================================
