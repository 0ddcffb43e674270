------------------------- MODULE ResizerTypeProofs -------------------------
(***************************************************************************)
(* The types of Resizer's state, for every disk, layout, filesystem and    *)
(* request, and every order of runs, interrupts, outside writes and        *)
(* changes of the request.                                                 *)
(***************************************************************************)
EXTENDS ResizerInvariants, PlannerProofs

\* Rounding down to whole sectors.
LEMMA WholeSectors ==
    ASSUME NEW n \in Int
    PROVE  n \div SectorSize \in Int /\ (n \div SectorSize) * SectorSize <= n
           /\ n < (n \div SectorSize) * SectorSize + SectorSize
BY DiskAssumption, SMT

LEMMA AlignBounds ==
    ASSUME NEW n \in Int
    PROVE  Align(n) \in Int /\ Align(n) <= n /\ n < Align(n) + SectorSize
BY WholeSectors, DiskAssumption DEF Align

LEMMA ProductMonotone ==
    ASSUME NEW a \in Int, NEW b \in Int, a <= b
    PROVE  a * SectorSize <= b * SectorSize
BY DiskAssumption, SMT

LEMMA ProductCancels ==
    ASSUME NEW a \in Int, NEW b \in Int, a * SectorSize < b * SectorSize + SectorSize
    PROVE  a <= b
BY DiskAssumption, SMT

LEMMA AlignMonotone ==
    ASSUME NEW m \in Int, NEW n \in Int, m <= n
    PROVE  Align(m) <= Align(n)
<1> DEFINE a == m \div SectorSize
           b == n \div SectorSize
<1>1. a \in Int /\ b \in Int /\ a * SectorSize <= m /\ n < b * SectorSize + SectorSize
    BY WholeSectors
<1> HIDE DEF a, b
<1>2. a * SectorSize \in Int /\ b * SectorSize \in Int /\ SectorSize \in Int
    BY <1>1, DiskAssumption
<1>3. a * SectorSize < b * SectorSize + SectorSize
    BY <1>1, <1>2
<1>4. a <= b
    BY <1>1, <1>3, ProductCancels
<1>5. a * SectorSize <= b * SectorSize
    BY <1>1, <1>4, ProductMonotone
<1> QED BY <1>5 DEF Align, a, b

\* Two ranges cut to whole sectors fit where both fit before.
LEMMA AlignAdds ==
    ASSUME NEW m \in Int, NEW n \in Int
    PROVE  Align(m) + Align(n) <= Align(m + n)
<1> DEFINE a == m \div SectorSize
           b == n \div SectorSize
           c == (m + n) \div SectorSize
<1>1. /\ a \in Int /\ b \in Int /\ c \in Int
      /\ a * SectorSize <= m /\ b * SectorSize <= n /\ m + n < c * SectorSize + SectorSize
    BY WholeSectors
<1> HIDE DEF a, b, c
<1>2. /\ a * SectorSize \in Int /\ b * SectorSize \in Int /\ c * SectorSize \in Int
      /\ a * SectorSize + b * SectorSize = (a + b) * SectorSize
    BY <1>1, DiskAssumption, SMT
<1>3. (a + b) * SectorSize < c * SectorSize + SectorSize
    BY <1>1, <1>2, DiskAssumption
<1>4. a + b <= c
    BY <1>1, <1>3, ProductCancels
<1>5. (a + b) * SectorSize <= c * SectorSize
    BY <1>1, <1>4, ProductMonotone
<1> QED BY <1>2, <1>5 DEF Align, a, b, c

LEMMA AlignTwice == ASSUME NEW n \in Int PROVE Align(Align(n)) = Align(n)
<1> DEFINE a == n \div SectorSize
           b == (a * SectorSize) \div SectorSize
<1>1. a \in Int /\ a * SectorSize \in Int
    BY WholeSectors, DiskAssumption
<1>2. b \in Int /\ b * SectorSize <= a * SectorSize /\ a * SectorSize < b * SectorSize + SectorSize
    BY <1>1, WholeSectors
<1> HIDE DEF a, b
<1>3. a <= b
    BY <1>1, <1>2, ProductCancels
<1>4. a * SectorSize <= b * SectorSize
    BY <1>1, <1>2, <1>3, ProductMonotone
<1>5. b * SectorSize = a * SectorSize
    BY <1>1, <1>2, <1>4, DiskAssumption
<1> QED BY <1>5 DEF Align, a, b

LEMMA AlignNotNegative == ASSUME NEW n \in Nat PROVE Align(n) \in Nat
<1>1. Align(0) = 0
    BY DiskAssumption, SMT DEF Align
<1> QED BY <1>1, AlignBounds, AlignMonotone

LEMMA MegabyteIsPositive == MB \in Nat /\ MB >= 1 /\ Align(MB) = MB
BY DiskAssumption, SectorAssumption

\* resize2fs works in whole megabytes, so what it accepts is at least one.
LEMMA AtLeastAMegabyte ==
    ASSUME NEW size \in Int, NEW used \in Nat \ {0}, Megabytes(size) >= used
    PROVE  Megabytes(size) \in Nat /\ Megabytes(size) <= size /\ size >= MB
<1>1. /\ size \div MB \in Int /\ Megabytes(size) \in Int
      /\ Megabytes(size) <= size
    BY DiskAssumption, SMT DEF Megabytes
<1>2. size \div MB >= 1
    <2> SUFFICES ASSUME size \div MB <= 0 PROVE FALSE
        BY <1>1
    <2>1. Megabytes(size) <= 0
        BY <1>1, DiskAssumption, SMT DEF Megabytes
    <2> QED BY <1>1, <2>1
<1>3. Megabytes(size) >= MB
    BY <1>1, <1>2, DiskAssumption, SMT DEF Megabytes
<1> QED BY <1>1, <1>3, DiskAssumption

\* The plan is what was done followed by what was laid out.
LEMMA PlanItems ==
    ASSUME NEW d \in Seq(Item), NEW r \in Seq(Item)
    PROVE  /\ d \o r \in Seq(Item)
           /\ DOMAIN (d \o r) = 1 .. (Len(d) + Len(r))
           /\ \A k \in DOMAIN d : k \in DOMAIN (d \o r) /\ (d \o r)[k] = d[k]
           /\ \A k \in DOMAIN r :
                Len(d) + k \in DOMAIN (d \o r) /\ (d \o r)[Len(d) + k] = r[k]
           /\ \A k \in DOMAIN (d \o r) :
                \/ k \in DOMAIN d
                \/ k - Len(d) \in DOMAIN r /\ (d \o r)[k] = r[k - Len(d)]
OBVIOUS
-----------------------------------------------------------------------------
\* Planning leaves the table alone and ends with a plan or a failure.
LEMMA NextFrame ==
    ASSUME Next
    PROVE  /\ UNCHANGED <<table, req>>
           /\ pc \in {"off", "classify", "allocate"}
           /\ pc' \in {"classify", "allocate", "planned", "failed"}
           /\ pc' = "failed" => UNCHANGED <<done, resizes>>
BY DEF Next, locals, Discover, NotDiscovered, SkipSatisfied, ReuseRelocated, QueuePending, Classifying,
       NothingPending, FirstAttempt, BeginLayout, LayOutShrink, LayOutGrow, LayingOut, Settle, GiveSpace,
       LayoutComplete, RetryWithShrink, Retry, InsufficientSpace, GiveUp, NoRoom

\* An item is found done only if an entry is its copy.
LEMMA DoneNext ==
    ASSUME Next
    PROVE  \/ UNCHANGED done
           \/ /\ pc' = "classify"
              /\ \E p, alt \in table : done' = Append(done, Existing(p, alt))
<1>1. CASE ReuseRelocated
    BY <1>1 DEF ReuseRelocated, Classifying, LastNamed
<1>2. CASE ~ReuseRelocated
    BY <1>2 DEF Next, Discover, NotDiscovered, SkipSatisfied, QueuePending, Classifying, locals,
        NothingPending, FirstAttempt, BeginLayout, LayOutShrink, LayOutGrow, LayingOut, Settle, GiveSpace,
        LayoutComplete, RetryWithShrink, Retry, InsufficientSpace, GiveUp, NoRoom
<1> QED BY <1>1, <1>2

LEMMA EntryOnDisk ==
    ASSUME table \subseteq Entry, TableOnDisk, NEW q \in table
    PROVE  /\ q.number \in Nat \ {0} /\ q.start \in Nat /\ q.size \in Nat /\ q.size > 0
           /\ Align(q.size) = q.size /\ Align(q.start) = q.start /\ q.start + q.size <= DiskSize
BY DEF TableOnDisk, Entry

\* Only classifying and laying out touch what was laid out.
LEMMA ResizesNext ==
    ASSUME Next
    PROVE  \/ UNCHANGED <<resizes, free>>
           \/ resizes' = <<>> /\ free' = (1 .. DiskSize - 1) \ UNION {Extent(p) : p \in table}
           \/ LayOutShrink
           \/ LayOutGrow
<1>1. CASE LayOutShrink \/ LayOutGrow
    BY <1>1
<1>2. CASE ~(LayOutShrink \/ LayOutGrow)
    BY <1>2 DEF Next, Discover, NotDiscovered, SkipSatisfied, ReuseRelocated, QueuePending, Classifying,
        locals, NothingPending, FirstAttempt, BeginLayout, LayoutComplete, RetryWithShrink, Retry,
        InsufficientSpace, GiveUp, NoRoom
<1> QED BY <1>1, <1>2

\* What LaidOut says of the items of earlier runs.
LEMMA DoneLaidOutNext ==
    ASSUME TypeOK, TableOnDisk, LaidOut, Next
    PROVE  \A k \in DOMAIN done' :
              /\ done'[k].target.number # 0
              /\ done'[k].target.start >= 0
              /\ Align(done'[k].target.size) > 0
              /\ done'[k].target.start + done'[k].target.size <= DiskSize
<1>1. CASE UNCHANGED done
    BY <1>1 DEF LaidOut
<1>2. ASSUME NEW p \in table, NEW alt \in table, done' = Append(done, Existing(p, alt))
      PROVE  \A k \in DOMAIN done' :
                /\ done'[k].target.number # 0
                /\ done'[k].target.start >= 0
                /\ Align(done'[k].target.size) > 0
                /\ done'[k].target.start + done'[k].target.size <= DiskSize
    <2> DEFINE e == Existing(p, alt)
    <2>1. /\ e.target.number # 0 /\ e.target.start >= 0
          /\ Align(e.target.size) > 0 /\ e.target.start + e.target.size <= DiskSize
        <3>1. /\ alt.number \in Nat \ {0} /\ alt.start \in Nat /\ alt.size > 0
              /\ Align(alt.size) = alt.size /\ alt.start + alt.size <= DiskSize
            BY EntryOnDisk DEF TypeOK
        <3>2. e.target.number = alt.number /\ e.target.start = alt.start /\ e.target.size = alt.size
            BY DEF Existing
        <3> QED BY <3>1, <3>2
    <2>2. done \in Seq(Item)
        BY DEF TypeOK, LocalsTypeOK
    <2> HIDE DEF e
    <2>3. done' = Append(done, e)
        BY <1>2 DEF e
    <2>4. \A k \in DOMAIN done' : done'[k] = e \/ (k \in DOMAIN done /\ done'[k] = done[k])
        BY <2>2, <2>3
    <2> QED BY <2>1, <2>4 DEF LaidOut
<1> QED BY <1>1, <1>2, DoneNext

\* A source fills whole sectors, so whatever is at least as large does.
LEMMA ItemFromTable ==
    ASSUME TypeOK, InStep, TableOnDisk, LayingOut
    PROVE  /\ i \in DOMAIN todo /\ todo[i] \in Item
           /\ Align(todo[i].original.size) = todo[i].original.size
           /\ todo[i].original.start + todo[i].original.size <= DiskSize
<1>1. i \in DOMAIN todo /\ todo[i] \in Item
    BY DEF TypeOK, LocalsTypeOK, LayingOut
<1>2. PICK p \in table : todo[i].original = Data(p)
    BY <1>1 DEF InStep
<1>3. Align(p.size) = p.size /\ p.start + p.size <= DiskSize
    BY EntryOnDisk DEF TypeOK
<1> QED BY <1>1, <1>2, <1>3 DEF Data

\* Laying out one more item at a place on the disk.
LEMMA SettleLaidOut ==
    ASSUME TypeOK, InStep, TableOnDisk, LaidOut, LayingOut,
           NEW start \in Int, NEW number \in Nat \ {0}, Settle(start, number),
           InPlace(todo[i]) => start = todo[i].original.start,
           (\A k \in DOMAIN resizes' : resizes'[k].target.size >= 1) =>
               free' \subseteq 1 .. (DiskSize - 1)
               /\ (~InPlace(todo[i]) => Bytes(start, todo[i].target.size) \subseteq 1 .. (DiskSize - 1))
    PROVE  /\ \A k \in DOMAIN resizes' :
                /\ resizes'[k].target.number # 0
                /\ Align(resizes'[k].original.size) = resizes'[k].original.size
                /\ InPlace(resizes'[k]) => resizes'[k].target.start = resizes'[k].original.start
           /\ (\A k \in DOMAIN resizes' : resizes'[k].target.size >= 1) =>
                /\ free' \subseteq 1 .. (DiskSize - 1)
                /\ \A k \in Grown' : Extent(resizes'[k].target) \subseteq 1 .. (DiskSize - 1)
<1>1. /\ DOMAIN resizes = 1 .. (i - 1) /\ DOMAIN resizes' = 1 .. i /\ i \in Nat \ {0}
      /\ \A k \in 1 .. (i - 1) : resizes'[k] = resizes[k]
      /\ resizes'[i].original = todo[i].original
      /\ resizes'[i].target.number = number
      /\ resizes'[i].target.start = start
      /\ resizes'[i].target.size = todo[i].target.size
    BY SettleAppends DEF TypeOK, LocalsTypeOK
<1>2. Align(resizes'[i].original.size) = resizes'[i].original.size
    BY <1>1, ItemFromTable
<1>3. InPlace(resizes'[i]) <=> InPlace(todo[i])
    BY <1>1 DEF InPlace
<1>4. \A k \in DOMAIN resizes' :
        /\ resizes'[k].target.number # 0
        /\ Align(resizes'[k].original.size) = resizes'[k].original.size
        /\ InPlace(resizes'[k]) => resizes'[k].target.start = resizes'[k].original.start
    <2> SUFFICES ASSUME NEW k \in 1 .. i
                 PROVE  /\ resizes'[k].target.number # 0
                        /\ Align(resizes'[k].original.size) = resizes'[k].original.size
                        /\ InPlace(resizes'[k]) => resizes'[k].target.start = resizes'[k].original.start
        BY <1>1
    <2>1. CASE k = i
        BY <1>1, <1>2, <1>3, <2>1
    <2>2. CASE k # i
        <3>1. k \in DOMAIN resizes /\ resizes'[k] = resizes[k]
            BY <1>1, <2>2
        <3> QED BY <3>1 DEF LaidOut
    <2> QED BY <2>1, <2>2
<1>5. ASSUME \A k \in DOMAIN resizes' : resizes'[k].target.size >= 1
      PROVE  /\ free' \subseteq 1 .. (DiskSize - 1)
             /\ \A k \in Grown' : Extent(resizes'[k].target) \subseteq 1 .. (DiskSize - 1)
    <2>1. \A k \in Grown : Extent(resizes[k].target) \subseteq 1 .. (DiskSize - 1)
        <3>1. \A k \in DOMAIN resizes : resizes[k].target.size >= 1
            BY <1>1, <1>5
        <3> QED BY <3>1 DEF LaidOut
    <2>2. free' \subseteq 1 .. (DiskSize - 1)
        BY <1>5
    <2>3. ASSUME NEW k \in Grown' PROVE Extent(resizes'[k].target) \subseteq 1 .. (DiskSize - 1)
        <3>1. k \in 1 .. i
            BY <1>1 DEF Grown
        <3>2. CASE k = i
            BY <1>1, <1>3, <1>5, <2>3, <3>2 DEF Grown, Extent
        <3>3. CASE k # i
            <4>1. k \in Grown /\ resizes'[k] = resizes[k]
                BY <1>1, <2>3, <3>1, <3>3 DEF Grown
            <4> QED BY <2>1, <4>1
        <3> QED BY <3>2, <3>3
    <2> QED BY <2>2, <2>3
<1> QED BY <1>4, <1>5

LEMMA LaidOutNext ==
    ASSUME TypeOK, InStep, TableOnDisk, LaidOut, Next
    PROVE  LaidOut'
<1>1. ASSUME /\ \A k \in DOMAIN resizes' :
                  /\ resizes'[k].target.number # 0
                  /\ Align(resizes'[k].original.size) = resizes'[k].original.size
                  /\ InPlace(resizes'[k]) => resizes'[k].target.start = resizes'[k].original.start
             /\ (\A k \in DOMAIN resizes' : resizes'[k].target.size >= 1) =>
                  /\ free' \subseteq 1 .. (DiskSize - 1)
                  /\ \A k \in Grown' : Extent(resizes'[k].target) \subseteq 1 .. (DiskSize - 1)
      PROVE  LaidOut'
    BY <1>1, DoneLaidOutNext DEF LaidOut
<1>2. CASE UNCHANGED <<resizes, free>>
    BY <1>1, <1>2 DEF LaidOut, Grown
<1>3. CASE resizes' = <<>> /\ free' = (1 .. DiskSize - 1) \ UNION {Extent(p) : p \in table}
    BY <1>1, <1>3 DEF Grown
<1>4. CASE LayOutShrink
    <2>1. /\ LayingOut /\ InPlace(todo[i])
          /\ Settle(todo[i].original.start, todo[i].original.number)
          /\ free' = free \cup Freed(todo[i])
        BY <1>4 DEF LayOutShrink
    <2>2. /\ todo[i] \in Item /\ todo[i].original.start + todo[i].original.size <= DiskSize
          /\ todo[i].original.start \in Nat /\ todo[i].original.number \in Nat \ {0}
          /\ todo[i].original.size \in Nat /\ todo[i].target.size \in Int
        BY <2>1, ItemFromTable DEF Item, Source, Target
    <2>3. ASSUME \A k \in DOMAIN resizes' : resizes'[k].target.size >= 1
          PROVE  free' \subseteq 1 .. (DiskSize - 1)
        <3>1. /\ i \in DOMAIN resizes' /\ resizes'[i].target.size = todo[i].target.size
              /\ DOMAIN resizes = 1 .. (i - 1) /\ DOMAIN resizes' = 1 .. i /\ i \in Nat \ {0}
              /\ \A k \in 1 .. (i - 1) : resizes'[k] = resizes[k]
            BY <2>1, <2>2, SettleAppends DEF TypeOK, LocalsTypeOK
        <3>2. \A k \in DOMAIN resizes : resizes[k].target.size >= 1
            BY <2>3, <3>1
        <3>3. free \subseteq 1 .. (DiskSize - 1)
            BY <3>2 DEF LaidOut
        <3>4. todo[i].target.size >= 1
            BY <2>3, <3>1
        <3>5. Freed(todo[i]) \subseteq 1 .. (DiskSize - 1)
            BY <2>2, <3>4, SizeAssumption DEF Freed
        <3> QED BY <2>1, <3>3, <3>5
    <2> QED BY <1>1, <2>1, <2>2, <2>3, SettleLaidOut
<1>5. CASE LayOutGrow
    <2>1. PICK start \in Fits(todo[i].target.size), number \in 1 .. (Cardinality(taken) + 1) :
            /\ Settle(start, number)
            /\ free' = free \ Bytes(start, todo[i].target.size)
        BY <1>5 DEF LayOutGrow, GiveSpace
    <2>2. LayingOut /\ ~InPlace(todo[i])
        BY <1>5 DEF LayOutGrow
    <2>3. start \in Int /\ number \in Nat \ {0} /\ Bytes(start, todo[i].target.size) \subseteq free
        BY FS_CardinalityType DEF Fits, TypeOK, LocalsTypeOK
    <2>4. ASSUME \A k \in DOMAIN resizes' : resizes'[k].target.size >= 1
          PROVE  free \subseteq 1 .. (DiskSize - 1)
        <3>1. /\ DOMAIN resizes = 1 .. (i - 1) /\ DOMAIN resizes' = 1 .. i /\ i \in Nat \ {0}
              /\ \A k \in 1 .. (i - 1) : resizes'[k] = resizes[k]
            BY <2>1, <2>2, <2>3, SettleAppends DEF TypeOK, LocalsTypeOK
        <3>2. \A k \in DOMAIN resizes : resizes[k].target.size >= 1
            BY <2>4, <3>1
        <3> QED BY <3>2 DEF LaidOut
    <2> QED BY <1>1, <2>1, <2>2, <2>3, <2>4, SettleLaidOut
<1> QED BY <1>2, <1>3, <1>4, <1>5, ResizesNext

\* The items of earlier runs are about two entries, the original and its copy.
LEMMA ItemsCurrentNext ==
    ASSUME TypeOK, ItemsCurrent, Next
    PROVE  ItemsCurrent'
<1>1. table' = table /\ pc \in BeforeTableWrites
    BY NextFrame DEF BeforeTableWrites
<1>2. InStep'
    BY <1>1, InStepNext DEF ItemsCurrent
<1>3. \A k \in DOMAIN done' : \E p, q \in table :
        /\ done'[k].original = Data(p)
        /\ done'[k].target = [number |-> q.number, start |-> q.start, size |-> q.size]
    <2>1. CASE UNCHANGED done
        BY <1>1, <2>1 DEF ItemsCurrent
    <2>2. ASSUME NEW p \in table, NEW alt \in table, done' = Append(done, Existing(p, alt))
          PROVE  \A k \in DOMAIN done' : \E a, b \in table :
                    /\ done'[k].original = Data(a)
                    /\ done'[k].target = [number |-> b.number, start |-> b.start, size |-> b.size]
        <3> DEFINE e == Existing(p, alt)
        <3>1. e.original = Data(p) /\ e.target = [number |-> alt.number, start |-> alt.start, size |-> alt.size]
            BY DEF Existing
        <3>2. done \in Seq(Item) /\ done' = Append(done, e)
            BY <2>2 DEF TypeOK, LocalsTypeOK
        <3> HIDE DEF e
        <3>3. \A k \in DOMAIN done' : done'[k] = e \/ (k \in DOMAIN done /\ done'[k] = done[k])
            BY <3>2
        <3>4. \A k \in DOMAIN done : \E a, b \in table :
                /\ done[k].original = Data(a)
                /\ done[k].target = [number |-> b.number, start |-> b.start, size |-> b.size]
            BY <1>1 DEF ItemsCurrent
        <3> QED BY <3>1, <3>3, <3>4
    <2> QED BY <2>1, <2>2, DoneNext
<1> QED BY <1>1, <1>2, <1>3 DEF ItemsCurrent

LEMMA PlanParts ==
    ASSUME LocalsTypeOK
    PROVE  /\ Plan \in Seq(Item)
           /\ Len(Plan) = Len(done) + Len(resizes)
           /\ \A k \in DOMAIN done : k \in DOMAIN Plan /\ Plan[k] = done[k]
           /\ \A k \in DOMAIN resizes : Len(done) + k \in DOMAIN Plan /\ Plan[Len(done) + k] = resizes[k]
           /\ \A k \in DOMAIN Plan :
                \/ k \in DOMAIN done /\ Plan[k] = done[k]
                \/ \E m \in DOMAIN resizes : k = Len(done) + m /\ Plan[k] = resizes[m]
<1>1. done \in Seq(Item) /\ resizes \in Seq(Item)
    BY DEF LocalsTypeOK
<1>2. Len(Plan) = Len(done) + Len(resizes)
    BY <1>1 DEF Plan
<1>3. \A k \in DOMAIN done : k \in DOMAIN Plan /\ Plan[k] = done[k]
    BY <1>1, PlanItems DEF Plan
<1>4. \A k \in DOMAIN Plan :
        \/ k \in DOMAIN done /\ Plan[k] = done[k]
        \/ \E m \in DOMAIN resizes : k = Len(done) + m /\ Plan[k] = resizes[m]
    <2> SUFFICES ASSUME NEW k \in DOMAIN Plan
                 PROVE  \/ k \in DOMAIN done
                        \/ \E m \in DOMAIN resizes : k = Len(done) + m /\ Plan[k] = resizes[m]
        BY <1>3
    <2>1. k \in DOMAIN done \/ (k - Len(done) \in DOMAIN resizes /\ Plan[k] = resizes[k - Len(done)])
        BY <1>1, PlanItems DEF Plan
    <2>2. k \in Int /\ Len(done) \in Nat
        BY <1>1 DEF Plan
    <2> QED BY <2>1, <2>2
<1> QED BY <1>1, <1>2, <1>3, <1>4, PlanItems DEF Plan

\* Items about the entries as they are know where their partitions are.
LEMMA PlanSources ==
    ASSUME LocalsTypeOK, ItemsCurrent, pc \in BeforeTableWrites
    PROVE  \A k \in DOMAIN Plan : \E p \in table : Plan[k].original = Data(p)
<1>1. done \in Seq(Item) /\ resizes \in Seq(Item) /\ todo \in Seq(Item)
    BY DEF LocalsTypeOK
<1>2. \A k \in DOMAIN done : \E p \in table : done[k].original = Data(p)
    BY DEF ItemsCurrent
<1>3. \A k \in DOMAIN resizes : \E p \in table : resizes[k].original = Data(p)
    <2>1. \A k \in DOMAIN todo : \E p \in table : todo[k].original = Data(p)
        BY DEF ItemsCurrent, InStep
    <2>2. \A k \in DOMAIN resizes : k \in DOMAIN todo /\ resizes[k].original = todo[k].original
        BY <1>1 DEF ItemsCurrent, InStep
    <2> QED BY <2>1, <2>2
<1> QED BY <1>2, <1>3, PlanParts

LEMMA CurrentIsKnown ==
    ASSUME LocalsTypeOK, ItemsCurrent, pc \in BeforeTableWrites
    PROVE  SourcesKnown
<1>1. \A p : Data(p).number = p.number /\ Data(p).start = p.start
    BY DEF Data
<1> QED BY <1>1, PlanSources DEF SourcesKnown
-----------------------------------------------------------------------------
\* The two halves of TypeInv: the memory of a run, and what is on the disk.
RunOK ==
    /\ pc \in Phases
    /\ LocalsTypeOK
    /\ ItemsCurrent
    /\ SourcesKnown
    /\ LaidOut
    /\ ShrinksChecked
    /\ CursorAtItem
TableOK ==
    /\ table \subseteq Entry /\ IsFiniteSet(table)
    /\ TableOnDisk
    /\ GuidsKnown
StoreOK ==
    /\ TableOK
    /\ req \in Requests
    /\ disk \in [0 .. DiskSize - 1 -> Content]
    /\ ContentsKnown
    /\ finished \in BOOLEAN
    /\ origin \in Layouts
    /\ latest \in [Ids -> Nat]
    /\ interrupts \in 0 .. MaxInterrupts
    /\ writes \in 0 .. MaxWrites
    /\ changes \in 0 .. MaxChanges

LEMMA TypeParts == TypeInv <=> RunOK /\ StoreOK
BY DEF TypeInv, RunOK, StoreOK, TableOK, DiskTypeOK, Ids

LEMMA TypePartsNext == RunOK' /\ StoreOK' => TypeInv'
BY TypeParts, PTL

\* A run that ended holds nothing.
LEMMA IdleIsOK == pc = "off" /\ InitLocals => RunOK
<1> SUFFICES ASSUME pc = "off", InitLocals PROVE RunOK
    OBVIOUS
<1>1. i = 1 /\ done = <<>> /\ todo = <<>> /\ free = {} /\ taken = {} /\ resizes = <<>>
    BY DEF InitLocals
<1>2. LocalsTypeOK
    <2>1. \A s : s = <<>> => s \in Seq(Item)
        OBVIOUS
    <2>2. taken \subseteq Nat /\ IsFiniteSet(taken)
        BY <1>1, FS_EmptySet
    <2>3. done \in Seq(Item) /\ todo \in Seq(Item) /\ resizes \in Seq(Item)
        BY <1>1, <2>1
    <2>4. i \in Nat \ {0} /\ total \in Int /\ free \subseteq Int
        BY DEF InitLocals
    <2>5. retried \in BOOLEAN
        BY DEF InitLocals
    <2> QED BY <2>2, <2>3, <2>4, <2>5 DEF LocalsTypeOK
<1>3. ItemsCurrent
    BY <1>1 DEF ItemsCurrent, InStep
<1>4. SourcesKnown /\ ShrinksChecked
    <2>1. DOMAIN Plan = {}
        BY <1>1 DEF Plan
    <2> QED BY <2>1 DEF SourcesKnown, ShrinksChecked
<1>5. LaidOut
    BY <1>1 DEF LaidOut, Grown
<1> QED BY <1>2, <1>3, <1>4, <1>5 DEF RunOK, Phases, CursorAtItem

LEMMA Exited == Exit => RunOK'
<1>1. Exit => (pc = "off" /\ InitLocals)'
    BY DEF Exit, InitLocals
<1> QED BY <1>1, IdleIsOK, PTL

LEMMA DiskTypeInit == DiskInit => TypeInv
<1> SUFFICES ASSUME DiskInit PROVE TypeInv
    OBVIOUS
<1>1. RunOK
    BY IdleIsOK DEF DiskInit, Init
<1>2. table \in Layouts /\ origin = table /\ table \subseteq Entry /\ IsFiniteSet(table)
    BY LayoutAssumption DEF DiskInit, Init
<1>3. TableOK
    BY <1>2, LayoutAssumption, SectorAssumption DEF TableOK, TableOnDisk, GuidsKnown, Ids, SoundTable
<1>4. disk \in [0 .. DiskSize - 1 -> Content] /\ ContentsKnown
    <2> SUFFICES ASSUME NEW b \in 0 .. DiskSize - 1
                 PROVE  disk[b] \in Content /\ (disk[b].fs \in Ids \/ disk[b].fs = Junk.fs)
        BY DEF DiskInit, ContentsKnown
    <2>1. CASE \E p \in table : b \in Extent(p)
        <3> DEFINE q == CHOOSE p \in table : b \in Extent(p)
        <3>1. q \in table
            BY <2>1
        <3>2. disk[b] = Made(q.guid, 1, q.size)
            BY <2>1 DEF DiskInit
        <3> HIDE DEF q
        <3> QED BY <1>2, <3>1, <3>2 DEF Made, Content, Ids, Entry
    <2>2. CASE ~ \E p \in table : b \in Extent(p)
        <3>1. disk[b] = Junk
            BY <2>2 DEF DiskInit
        <3> QED BY <3>1 DEF Junk, Made, Content, Guid
    <2> QED BY <2>1, <2>2
<1>5. latest \in [Ids -> Nat]
    BY DEF DiskInit, Ids
<1>6. /\ req \in Requests /\ finished \in BOOLEAN /\ origin \in Layouts
      /\ interrupts = 0 /\ writes = 0 /\ changes = 0
    BY <1>2 DEF DiskInit, Init
<1>7. StoreOK
    BY <1>3, <1>4, <1>5, <1>6, DiskAssumption DEF StoreOK
<1> QED BY <1>1, <1>7, TypeParts
-----------------------------------------------------------------------------
\* A step that leaves the table and the plan alone and does not go back to
\* planning keeps what is known of the plan.
LEMMA MovedOn ==
    ASSUME RunOK, UNCHANGED <<table, done, todo, total, retried, free, taken, resizes>>,
           i' \in Nat \ {0}, pc' \in Phases \ {"off", "classify", "allocate"},
           pc' \in BeforeTableWrites => pc \in BeforeTableWrites,
           ShrinksChecked', CursorAtItem'
    PROVE  RunOK'
<1>1. LocalsTypeOK'
    BY DEF RunOK, LocalsTypeOK
<1>2. Plan' = Plan /\ Grown' = Grown
    BY DEF Plan, Grown
<1>3. ItemsCurrent'
    <2>1. InStep => InStep'
        BY DEF InStep
    <2> QED BY <2>1 DEF RunOK, ItemsCurrent
<1>4. SourcesKnown'
    BY <1>2 DEF RunOK, SourcesKnown
<1>5. LaidOut'
    BY <1>2 DEF RunOK, LaidOut
<1> QED BY <1>1, <1>3, <1>4, <1>5 DEF RunOK

\* The phases in which nothing is asked of the shrinks or of the cursor.
LEMMA NothingAsked ==
    ASSUME pc' \notin AfterShrinks \cup {"repair", "shrinkFilesystems", "writeBack"}
    PROVE  ShrinksChecked' /\ CursorAtItem'
BY DEF ShrinksChecked, CursorAtItem, AfterShrinks

\* Going on, past the shrinks or after them, with the plan unchanged.
LEMMA StillChecked ==
    ASSUME RunOK, UNCHANGED <<done, resizes>>, i' \in Nat \ {0}, pc' \in Phases \ {"writeBack"},
           \/ pc \in AfterShrinks
           \/ pc = "check" /\ i' = 1 /\ pc' \notin AfterShrinks
           \/ pc = "shrinkFilesystems" /\ i > Len(Plan)
           \/ /\ pc \in {"shrinkFilesystems", "writeBack"} /\ i' = i + 1 /\ pc' \notin AfterShrinks
              /\ i \in DOMAIN Plan /\ InPlace(Plan[i]) => Plan[i].target.size >= MB
    PROVE  ShrinksChecked'
<1>1. Plan' = Plan /\ Plan \in Seq(Item)
    BY PlanParts DEF RunOK, Plan
<1>2. i \in Nat \ {0}
    BY DEF RunOK, LocalsTypeOK
<1> SUFFICES ASSUME NEW k \in DOMAIN Plan, InPlace(Plan[k]),
                    pc' \in AfterShrinks \/ (pc' = "shrinkFilesystems" /\ k < i')
             PROVE  Plan[k].target.size >= MB
    BY <1>1 DEF ShrinksChecked
<1>3. k \in 1 .. Len(Plan)
    BY <1>1
<1>4. CASE pc \in AfterShrinks
    BY <1>4 DEF RunOK, ShrinksChecked
<1>5. CASE pc = "shrinkFilesystems" /\ i > Len(Plan)
    BY <1>2, <1>3, <1>5 DEF RunOK, ShrinksChecked
<1>6. CASE pc \in {"shrinkFilesystems", "writeBack"} /\ i' = i + 1 /\ k < i'
           /\ (i \in DOMAIN Plan /\ InPlace(Plan[i]) => Plan[i].target.size >= MB)
    BY <1>2, <1>3, <1>6 DEF RunOK, ShrinksChecked
<1> QED BY <1>3, <1>4, <1>5, <1>6
-----------------------------------------------------------------------------
\* What is on the disk when a step changes neither the table nor the origin.
LEMMA StoreKept ==
    ASSUME StoreOK, UNCHANGED <<table, req, origin, latest, interrupts, writes, changes>>,
           finished' \in BOOLEAN,
           disk' \in [0 .. DiskSize - 1 -> Content], ContentsKnown'
    PROVE  StoreOK'
BY DEF StoreOK, TableOK, TableOnDisk, GuidsKnown, Ids

LEMMA StoreUntouched ==
    ASSUME StoreOK, UNCHANGED <<table, req, disk, origin, latest, interrupts, writes, changes>>,
           finished' \in BOOLEAN
    PROVE  StoreOK'
<1>1. disk' \in [0 .. DiskSize - 1 -> Content] /\ ContentsKnown'
    BY DEF StoreOK, ContentsKnown, Ids
<1> QED BY <1>1, StoreKept

\* A content some partition can have: what it is is known.
KnownContent == {c \in Content : c.fs \in Ids \/ c.fs = Junk.fs}

LEMMA EntryBytes ==
    ASSUME TableOK, NEW p \in table
    PROVE  /\ p \in Entry /\ p.start \in Nat /\ p.size \in Nat \ {0}
           /\ p.start + p.size <= DiskSize /\ p.start \in 0 .. DiskSize - 1
           /\ p.number \in Nat \ {0}
<1>1. p.start \in Nat /\ p.size \in Nat \ {0} /\ p.start + p.size <= DiskSize /\ p.number \in Nat \ {0}
    BY DEF TableOK, TableOnDisk, Entry
<1> QED BY <1>1, SizeAssumption DEF TableOK

LEMMA ContentOfKnown ==
    ASSUME StoreOK, NEW p \in table
    PROVE  ContentOf(p) \in KnownContent
<1>1. Junk \in KnownContent
    BY DEF Junk, Made, Content, Guid, KnownContent
<1>2. disk[p.start] \in KnownContent
    BY EntryBytes DEF StoreOK, ContentsKnown, KnownContent
<1> QED BY <1>1, <1>2 DEF ContentOf

LEMMA WrittenKnown ==
    ASSUME StoreOK, NEW bytes, NEW c \in KnownContent, disk' = Written(bytes, c), UNCHANGED origin
    PROVE  disk' \in [0 .. DiskSize - 1 -> Content] /\ ContentsKnown'
<1>1. \A b \in 0 .. DiskSize - 1 : disk[b] \in KnownContent
    BY DEF StoreOK, ContentsKnown, KnownContent
<1>2. disk' = [b \in 0 .. DiskSize - 1 |-> IF b \in bytes THEN c ELSE disk[b]]
    BY DEF Written, StoreOK
<1>3. \A b \in 0 .. DiskSize - 1 : disk'[b] \in KnownContent
    BY <1>1, <1>2
<1>4. Ids' = Ids /\ Junk.fs = Junk.fs
    BY DEF Ids
<1> QED BY <1>2, <1>3, <1>4 DEF KnownContent, ContentsKnown

LEMMA CopiedKnown ==
    ASSUME StoreOK, NEW from \in Nat, NEW to \in Nat, NEW length \in Nat, from + length <= DiskSize,
           disk' = Copied(from, to, length), UNCHANGED origin
    PROVE  disk' \in [0 .. DiskSize - 1 -> Content] /\ ContentsKnown'
<1>1. \A b \in 0 .. DiskSize - 1 : disk[b] \in KnownContent
    BY DEF StoreOK, ContentsKnown, KnownContent
<1>2. disk' = [b \in 0 .. DiskSize - 1 |-> IF b \in Bytes(to, length) THEN disk[b - to + from] ELSE disk[b]]
    BY DEF Copied, StoreOK
<1>3. \A b \in Bytes(to, length) : b - to + from \in 0 .. DiskSize - 1
    BY SizeAssumption DEF Bytes
<1>4. \A b \in 0 .. DiskSize - 1 : disk'[b] \in KnownContent
    BY <1>1, <1>2, <1>3
<1>5. Ids' = Ids
    BY DEF Ids
<1> QED BY <1>2, <1>4, <1>5 DEF KnownContent, ContentsKnown
-----------------------------------------------------------------------------
\* A partition is shrunk by at least a byte and keeps at least a megabyte.
LEMMA ShrunkEntryIs ==
    ASSUME TypeInv, SlotsDistinct, pc = "shrinkPartitions", NEW p \in table
    PROVE  /\ ShrunkEntry(p) \in Entry
           /\ Align(ShrunkEntry(p).size) = ShrunkEntry(p).size
           /\ ShrunkEntry(p).size <= p.size
           /\ \E n \in Nat \ {0} : ShrunkEntry(p) = [p EXCEPT !.size = n]
           /\ \/ ShrunkEntry(p) = p
              \/ \E k \in DOMAIN Plan :
                    /\ InPlace(Plan[k])
                    /\ Plan[k].original.number = p.number
                    /\ ShrunkEntry(p).size = Align(Plan[k].target.size)
<1>1. RunOK /\ StoreOK /\ TableOK /\ LocalsTypeOK
    BY TypeParts DEF RunOK, StoreOK
<1>2. p \in Entry /\ p.size \in Nat \ {0} /\ Align(p.size) = p.size
    BY <1>1 DEF TableOK, TableOnDisk, Entry
<1>3. CASE Shrinks(p) = {}
    <2>1. ShrunkEntry(p) = p
        BY <1>3 DEF ShrunkEntry
    <2>2. p = [p EXCEPT !.size = p.size]
        BY <1>2 DEF Entry
    <2> QED BY <1>2, <2>1, <2>2
<1>4. CASE Shrinks(p) # {}
    <2>1. Plan \in Seq(Item) /\ Shrinks(p) \in SUBSET (0 .. Len(Plan)) /\ Len(Plan) \in Nat
        BY <1>1, PlanParts DEF Shrinks
    <2> DEFINE k == CHOOSE k \in Shrinks(p) : \A m \in Shrinks(p) : m <= k
    <2>2. k \in Shrinks(p)
        <3>1. \E x \in Shrinks(p) : \A m \in Shrinks(p) : m <= x
            BY <1>4, <2>1, GreatestNatural
        <3> QED BY <3>1
    <2>3. ShrunkEntry(p) = [p EXCEPT !.size = Align(Plan[k].target.size)]
        BY <1>4 DEF ShrunkEntry
    <2> HIDE DEF k
    <2>4. k \in DOMAIN Plan /\ InPlace(Plan[k]) /\ Plan[k].original.number = p.number
        BY <2>2 DEF Shrinks
    <2> DEFINE size == Plan[k].target.size
    <2>5. Plan[k] \in Item /\ size \in Int
        BY <2>1, <2>4, ItemFields
    <2>6. size >= MB
        BY <1>1, <2>4 DEF RunOK, ShrinksChecked, AfterShrinks
    <2>7. size < p.size
        <3>1. PICK q \in table : Plan[k].original = Data(q)
            BY <1>1, <2>4, PlanSources DEF RunOK, BeforeTableWrites
        <3>2. q = p
            BY <2>4, <3>1 DEF Data, SlotsDistinct
        <3> QED BY <2>4, <3>1, <3>2 DEF InPlace, Data
    <2>8. Align(size) \in Int /\ Align(size) <= size /\ Align(size) >= MB /\ MB \in Nat /\ MB >= 1
        BY <2>5, <2>6, AlignBounds, AlignMonotone, MegabyteIsPositive
    <2>9. Align(Align(size)) = Align(size)
        BY <2>5, AlignTwice
    <2>10. Align(size) \in Nat \ {0} /\ Align(size) <= p.size
        BY <1>2, <2>5, <2>7, <2>8
    <2> HIDE DEF size
    <2>11. ShrunkEntry(p) \in Entry /\ ShrunkEntry(p).size = Align(size)
        BY <1>2, <2>3, <2>10 DEF Entry, size
    <2> QED BY <2>3, <2>4, <2>9, <2>10, <2>11 DEF size
<1> QED BY <1>3, <1>4

\* A relocated partition gets whole sectors of the disk, and not none.
LEMMA MovedTarget ==
    ASSUME TypeInv, pc \in AfterShrinks, NEW k \in Moved
    PROVE  /\ k \in DOMAIN Plan /\ Plan[k] \in Item
           /\ Plan[k].target.number \in Nat \ {0}
           /\ Plan[k].target.start \in Nat
           /\ Align(Plan[k].target.size) \in Nat \ {0}
           /\ Plan[k].target.start + Plan[k].target.size <= DiskSize
           /\ k \notin DOMAIN done => \E m \in Grown : k = Len(done) + m /\ Plan[k] = resizes[m]
<1>1. RunOK /\ LocalsTypeOK /\ LaidOut
    BY TypeParts DEF RunOK
<1>2. Plan \in Seq(Item) /\ k \in DOMAIN Plan /\ Plan[k].original.start # Plan[k].target.start
    BY <1>1, PlanParts DEF Moved
<1>3. Plan[k] \in Item
    BY <1>2
<1>4. /\ Plan[k].target.number \in Nat /\ Plan[k].target.start \in Int /\ Plan[k].target.size \in Int
      /\ Plan[k].original.size \in Nat /\ Plan[k].original.size > 0
    BY <1>3, ItemFields
<1>5. Align(Plan[k].target.size) \in Int
    BY <1>4, AlignBounds
<1>6. CASE k \in DOMAIN done
    <2>1. Plan[k] = done[k]
        BY <1>1, <1>6, PlanParts
    <2>2. /\ Plan[k].target.number # 0 /\ Plan[k].target.start >= 0
          /\ Align(Plan[k].target.size) > 0
          /\ Plan[k].target.start + Plan[k].target.size <= DiskSize
        BY <1>1, <1>6, <2>1 DEF LaidOut
    <2> QED BY <1>2, <1>3, <1>4, <1>5, <1>6, <2>2
<1>7. ASSUME NEW m \in DOMAIN resizes, k = Len(done) + m, Plan[k] = resizes[m]
      PROVE  /\ m \in Grown
             /\ Plan[k].target.number # 0 /\ Plan[k].target.start >= 0
             /\ Align(Plan[k].target.size) > 0
             /\ Plan[k].target.start + Plan[k].target.size <= DiskSize
    <2>1. /\ Plan[k].target.number # 0
          /\ Align(Plan[k].original.size) = Plan[k].original.size
          /\ ~InPlace(Plan[k])
        BY <1>1, <1>2, <1>7 DEF LaidOut
    <2>2. Plan[k].target.size >= Plan[k].original.size
        BY <1>4, <2>1 DEF InPlace
    <2>3. Align(Plan[k].target.size) > 0
        BY <1>4, <1>5, <2>1, <2>2, AlignMonotone
    <2>4. \A n \in DOMAIN resizes : resizes[n].target.size >= 1
        <3> SUFFICES ASSUME NEW n \in DOMAIN resizes PROVE resizes[n].target.size >= 1
            OBVIOUS
        <3>1. resizes[n] \in Item /\ Len(done) + n \in DOMAIN Plan /\ Plan[Len(done) + n] = resizes[n]
            BY <1>1, PlanParts DEF LocalsTypeOK
        <3>2. resizes[n].target.size \in Int /\ resizes[n].original.size \in Nat /\ resizes[n].original.size > 0
            BY <3>1, ItemFields
        <3>3. CASE InPlace(resizes[n])
            <4>1. resizes[n].target.size >= MB
                BY <1>1, <3>1, <3>3 DEF RunOK, ShrinksChecked
            <4> QED BY <3>2, <4>1, MegabyteIsPositive
        <3>4. CASE ~InPlace(resizes[n])
            BY <3>2, <3>4 DEF InPlace
        <3> QED BY <3>3, <3>4
    <2>5. m \in Grown
        BY <1>7, <2>1 DEF Grown
    <2>6. Extent(Plan[k].target) \subseteq 1 .. (DiskSize - 1)
        BY <1>1, <1>7, <2>4, <2>5 DEF LaidOut
    <2>7. /\ Plan[k].target.start >= 0
          /\ Plan[k].target.start + Plan[k].target.size <= DiskSize
        <3> DEFINE s == Plan[k].target.start
                   z == Plan[k].target.size
        <3>1. s \in Int /\ z \in Int /\ z >= 1 /\ DiskSize \in Nat
            BY <1>4, <2>2, SizeAssumption
        <3>2. s .. (s + z - 1) \subseteq 1 .. (DiskSize - 1)
            BY <2>6 DEF Extent, Bytes
        <3> HIDE DEF s, z
        <3>3. s \in s .. (s + z - 1) /\ s + z - 1 \in s .. (s + z - 1)
            BY <3>1
        <3>4. s \in 1 .. (DiskSize - 1) /\ s + z - 1 \in 1 .. (DiskSize - 1)
            BY <3>2, <3>3
        <3>5. s >= 0 /\ s + z <= DiskSize
            BY <3>1, <3>4
        <3> QED BY <3>5 DEF s, z
    <2> QED BY <2>1, <2>3, <2>5, <2>7
<1>8. \/ k \in DOMAIN done
      \/ \E m \in DOMAIN resizes : k = Len(done) + m /\ Plan[k] = resizes[m]
    BY <1>1, <1>2, PlanParts
<1>9. CASE k \notin DOMAIN done
    BY <1>2, <1>3, <1>4, <1>5, <1>7, <1>8, <1>9
<1> QED BY <1>6, <1>9

\* A sector-aligned range cut to whole sectors does not get longer.
LEMMA AlignedRange ==
    ASSUME NEW start \in Nat, NEW size \in Int, Align(size) \in Nat \ {0}
    PROVE  /\ Align(start) \in Nat
           /\ Align(start) + Align(size) <= start + size
<1>1. Align(start) \in Nat /\ Align(start + size) <= start + size
    BY AlignNotNegative, AlignBounds
<1>2. Align(start) + Align(size) <= Align(start + size)
    BY AlignAdds
<1>3. start + size \in Int
    OBVIOUS
<1>4. Align(start + size) \in Int
    BY <1>3, AlignBounds
<1> QED BY <1>1, <1>2, <1>3, <1>4

LEMMA NewEntryIs ==
    ASSUME TypeInv, pc \in AfterShrinks, NEW p \in table, NEW k \in Moved
    PROVE  LET e == NewEntry(p, Plan[k]) IN
           /\ e \in Entry
           /\ Align(e.start) = e.start /\ Align(e.size) = e.size
           /\ e.start + e.size <= DiskSize
           /\ e.guid[1] = "fresh" /\ e.guid[2] # 0
<1> DEFINE target == Plan[k].target
           e == NewEntry(p, Plan[k])
<1>1. /\ target.number \in Nat \ {0} /\ target.start \in Nat /\ Align(target.size) \in Nat \ {0}
      /\ target.start + target.size <= DiskSize /\ Plan[k] \in Item
    BY MovedTarget
<1>2. target.size \in Int
    BY <1>1, ItemFields
<1>3. p \in Entry
    BY TypeParts DEF StoreOK, TableOK
<1>4. /\ Align(target.start) \in Nat
      /\ Align(target.start) + Align(target.size) <= target.start + target.size
    BY <1>1, <1>2, AlignedRange
<1>5. Align(Align(target.start)) = Align(target.start) /\ Align(Align(target.size)) = Align(target.size)
    BY <1>1, <1>2, AlignTwice
<1>6. Alternate(p.name) \in Label /\ <<"fresh", target.number>> \in Guid
    BY <1>1, <1>3 DEF Entry, Label, Alternate, Guid
<1>7. e = [number |-> target.number, start |-> Align(target.start), size |-> Align(target.size),
           name |-> Alternate(p.name), type |-> "linux", guid |-> <<"fresh", target.number>>,
           attributes |-> p.attributes]
    BY DEF NewEntry
<1>8. Align(target.start) + Align(target.size) <= DiskSize
    BY <1>1, <1>2, <1>4, SizeAssumption
<1> HIDE DEF target, e
<1>9. e \in Entry
    BY <1>1, <1>3, <1>4, <1>6, <1>7, DiskAssumption DEF Entry
<1> QED BY <1>1, <1>5, <1>7, <1>8, <1>9 DEF e

\* The entry an item is about, found by its start, and q with its identity.
OriginalAt(k) == CHOOSE p \in table : p.start = Align(Plan[k].original.start)
Identified(q, p, k) ==
    [q EXCEPT !.name = p.name, !.type = p.type, !.guid = p.guid, !.attributes = p.attributes,
              !.number = IF req.preserveNumbers THEN Plan[k].original.number ELSE @]

\* The final entry keeps its place and takes over an entry's identity.
LEMMA FinalEntryIs ==
    ASSUME TypeInv, NEW q \in table
    PROVE  /\ FinalEntry(q) \in Entry
           /\ FinalEntry(q).start = q.start /\ FinalEntry(q).size = q.size
           /\ \/ MovedTo(q) = {} /\ FinalEntry(q) = q
              \/ \E k \in MovedTo(q) :
                    /\ OriginalAt(k) \in table
                    /\ OriginalAt(k).start = Plan[k].original.start
                    /\ Align(Plan[k].original.start) = Plan[k].original.start
                    /\ FinalEntry(q) = Identified(q, OriginalAt(k), k)
<1>1. RunOK /\ TableOK /\ LocalsTypeOK
    BY TypeParts DEF RunOK, StoreOK
<1>2. q \in Entry
    BY <1>1 DEF TableOK
<1>3. CASE MovedTo(q) = {}
    <2>1. FinalEntry(q) = q
        BY <1>3 DEF FinalEntry
    <2> QED BY <1>2, <1>3, <2>1
<1>4. CASE MovedTo(q) # {}
    <2>1. Plan \in Seq(Item) /\ MovedTo(q) \in SUBSET (0 .. Len(Plan)) /\ Len(Plan) \in Nat
        BY <1>1, PlanParts DEF MovedTo, Moved
    <2> DEFINE k == CHOOSE k \in MovedTo(q) : \A m \in MovedTo(q) : m <= k
               p == OriginalAt(k)
    <2>2. k \in MovedTo(q)
        <3>1. \E x \in MovedTo(q) : \A m \in MovedTo(q) : m <= x
            BY <1>4, <2>1, GreatestNatural
        <3> QED BY <3>1
    <2>3. FinalEntry(q) = Identified(q, p, k)
        BY <1>4 DEF FinalEntry, OriginalAt, Identified
    <2>4. k \in DOMAIN Plan
        BY <2>2 DEF MovedTo, Moved
    <2> HIDE DEF k
    <2>5. PICK x \in table : x.number = Plan[k].original.number /\ x.start = Plan[k].original.start
        BY <1>1, <2>4 DEF RunOK, SourcesKnown
    <2>6. Align(x.start) = x.start
        BY <1>1 DEF TableOK, TableOnDisk
    <2>7. p \in table /\ p.start = Align(Plan[k].original.start)
        BY <2>5, <2>6 DEF OriginalAt
    <2> HIDE DEF p
    <2>8. p \in Entry /\ Plan[k].original.number \in Nat \ {0}
        BY <1>1, <2>5, <2>7 DEF TableOK, Entry
    <2> DEFINE number == IF req.preserveNumbers THEN Plan[k].original.number ELSE q.number
    <2>9. number \in Nat \ {0}
        BY <1>2, <2>8 DEF Entry
    <2>10. FinalEntry(q) =
            [q EXCEPT !.name = p.name, !.type = p.type, !.guid = p.guid, !.attributes = p.attributes,
                      !.number = number]
        BY <1>2, <2>3 DEF Entry, Identified
    <2> HIDE DEF number
    <2>11. /\ FinalEntry(q) \in Entry
           /\ FinalEntry(q).start = q.start /\ FinalEntry(q).size = q.size
        BY <1>2, <2>8, <2>9, <2>10 DEF Entry
    <2>12. p.start = Plan[k].original.start /\ Align(Plan[k].original.start) = Plan[k].original.start
        BY <2>5, <2>6, <2>7
    <2> QED BY <2>2, <2>3, <2>7, <2>11, <2>12 DEF p
<1> QED BY <1>3, <1>4

\* The tables these make are finite.
LEMMA ShrunkFinite == IsFiniteSet(table) => IsFiniteSet({ShrunkEntry(p) : p \in table})
<1> DEFINE S == {ShrunkEntry(p) : p \in table}
           f == [p \in table |-> ShrunkEntry(p)]
<1>1. f \in Surjection(table, S)
    BY DEF Surjection
<1> QED BY <1>1, FS_Surjection

LEMMA FinalFinite ==
    IsFiniteSet(table) => IsFiniteSet({FinalEntry(p) : p \in {q \in table : ~Superseded(q)}})
<1> DEFINE T == {q \in table : ~Superseded(q)}
           S == {FinalEntry(p) : p \in T}
           f == [p \in T |-> FinalEntry(p)]
<1>1. f \in Surjection(T, S)
    BY DEF Surjection
<1>2. IsFiniteSet(table) => IsFiniteSet(T)
    BY FS_Subset
<1> QED BY <1>1, <1>2, FS_Surjection

LEMMA CreatedFinite ==
    ASSUME IsFiniteSet(table), LocalsTypeOK, NEW new \in SUBSET (table \X Moved)
    PROVE  IsFiniteSet(table \cup {NewEntry(x[1], Plan[x[2]]) : x \in new})
<1> DEFINE S == {NewEntry(x[1], Plan[x[2]]) : x \in new}
           f == [x \in new |-> NewEntry(x[1], Plan[x[2]])]
<1>1. IsFiniteSet(Moved)
    <2>1. Moved \in SUBSET (1 .. Len(Plan)) /\ Len(Plan) \in Nat
        BY PlanParts DEF Moved
    <2>2. IsFiniteSet(1 .. Len(Plan))
        BY <2>1, FS_Interval
    <2> QED BY <2>1, <2>2, FS_Subset
<1>2. IsFiniteSet(new)
    BY <1>1, FS_Product, FS_Subset
<1>3. f \in Surjection(new, S)
    BY DEF Surjection
<1>4. IsFiniteSet(S)
    BY <1>2, <1>3, FS_Surjection
<1> QED BY <1>4, FS_Union
-----------------------------------------------------------------------------
\* A new table of well-formed entries.
LEMMA NewTableOK ==
    ASSUME StoreOK, UNCHANGED origin, IsFiniteSet(table'),
           \A p \in table' :
              /\ p \in Entry
              /\ Align(p.start) = p.start /\ Align(p.size) = p.size /\ p.start + p.size <= DiskSize
              /\ p.guid \in Ids \/ (p.guid[1] = "fresh" /\ p.guid[2] # 0)
    PROVE  TableOK'
BY DEF TableOK, TableOnDisk, GuidsKnown, Ids

LEMMA ShrunkTableOK ==
    ASSUME TypeInv, SlotsDistinct, pc = "shrinkPartitions", UNCHANGED origin,
           table' = {ShrunkEntry(p) : p \in table}
    PROVE  TableOK'
<1>1. StoreOK /\ TableOK
    BY TypeParts DEF StoreOK
<1>2. IsFiniteSet(table')
    BY <1>1, ShrunkFinite DEF TableOK
<1>3. ASSUME NEW e \in table'
      PROVE  /\ e \in Entry
             /\ Align(e.start) = e.start /\ Align(e.size) = e.size /\ e.start + e.size <= DiskSize
             /\ e.guid \in Ids \/ (e.guid[1] = "fresh" /\ e.guid[2] # 0)
    <2>1. PICK p \in table : e = ShrunkEntry(p)
        OBVIOUS
    <2>2. PICK n \in Nat \ {0} : e = [p EXCEPT !.size = n]
        BY <2>1, ShrunkEntryIs
    <2>3. e \in Entry /\ Align(e.size) = e.size /\ e.size <= p.size
        BY <2>1, ShrunkEntryIs
    <2>4. p \in Entry
        BY <1>1 DEF TableOK
    <2>5. e.start = p.start /\ e.guid = p.guid /\ e.size = n
        BY <2>2, <2>4 DEF Entry
    <2>6. Align(p.start) = p.start /\ p.start + p.size <= DiskSize
        BY <1>1 DEF TableOK, TableOnDisk
    <2>7. p.guid \in Ids \/ (p.guid[1] = "fresh" /\ p.guid[2] # 0)
        BY <1>1 DEF TableOK, GuidsKnown
    <2>8. e.start + e.size <= DiskSize
        <3>1. p.start \in Nat /\ p.size \in Nat /\ e.size \in Nat /\ DiskSize \in Nat
            BY <2>3, <2>4, SizeAssumption DEF Entry
        <3> QED BY <2>3, <2>5, <2>6, <3>1
    <2> QED BY <2>3, <2>5, <2>6, <2>7, <2>8
<1> QED BY <1>1, <1>2, <1>3, NewTableOK

LEMMA CreatedTableOK ==
    ASSUME TypeInv, pc = "createPartitions", UNCHANGED origin, NEW new \in SUBSET (table \X Moved),
           table' = table \cup {NewEntry(x[1], Plan[x[2]]) : x \in new}
    PROVE  TableOK'
<1>1. StoreOK /\ TableOK /\ LocalsTypeOK /\ pc \in AfterShrinks
    BY TypeParts DEF StoreOK, RunOK, AfterShrinks
<1>2. IsFiniteSet(table')
    BY <1>1, CreatedFinite DEF TableOK
<1>3. ASSUME NEW e \in table'
      PROVE  /\ e \in Entry
             /\ Align(e.start) = e.start /\ Align(e.size) = e.size /\ e.start + e.size <= DiskSize
             /\ e.guid \in Ids \/ (e.guid[1] = "fresh" /\ e.guid[2] # 0)
    <2>1. CASE e \in table
        BY <1>1, <2>1 DEF TableOK, TableOnDisk, GuidsKnown
    <2>2. CASE e \in {NewEntry(x[1], Plan[x[2]]) : x \in new}
        <3>1. PICK x \in new : e = NewEntry(x[1], Plan[x[2]])
            BY <2>2
        <3>2. x[1] \in table /\ x[2] \in Moved
            BY <3>1
        <3> QED BY <1>1, <3>1, <3>2, NewEntryIs
    <2> QED BY <2>1, <2>2
<1> QED BY <1>1, <1>2, <1>3, NewTableOK

LEMMA FinalTableOK ==
    ASSUME TypeInv, UNCHANGED origin,
           table' = {FinalEntry(p) : p \in {q \in table : ~Superseded(q)}}
    PROVE  TableOK'
<1>1. StoreOK /\ TableOK
    BY TypeParts DEF StoreOK
<1>2. IsFiniteSet(table')
    BY <1>1, FinalFinite DEF TableOK
<1>3. ASSUME NEW e \in table'
      PROVE  /\ e \in Entry
             /\ Align(e.start) = e.start /\ Align(e.size) = e.size /\ e.start + e.size <= DiskSize
             /\ e.guid \in Ids \/ (e.guid[1] = "fresh" /\ e.guid[2] # 0)
    <2>1. PICK q \in table : e = FinalEntry(q)
        OBVIOUS
    <2>2. e \in Entry /\ e.start = q.start /\ e.size = q.size /\ q \in Entry
        BY <1>1, <2>1, FinalEntryIs DEF TableOK
    <2>3. \E p \in table : e.guid = p.guid
        <3>1. CASE FinalEntry(q) = q
            BY <2>1, <3>1
        <3>2. ASSUME NEW k \in MovedTo(q), OriginalAt(k) \in table,
                     FinalEntry(q) = Identified(q, OriginalAt(k), k)
              PROVE  \E x \in table : e.guid = x.guid
            <4>1. e.guid = OriginalAt(k).guid
                BY <2>1, <2>2, <3>2 DEF Entry, Identified
            <4> QED BY <3>2, <4>1
        <3> QED BY <3>1, <3>2, FinalEntryIs
    <2>4. Align(e.start) = e.start /\ Align(e.size) = e.size /\ e.start + e.size <= DiskSize
        BY <1>1, <2>2 DEF TableOK, TableOnDisk
    <2>5. e.guid \in Ids \/ (e.guid[1] = "fresh" /\ e.guid[2] # 0)
        BY <1>1, <2>3 DEF TableOK, GuidsKnown
    <2> QED BY <2>2, <2>4, <2>5
<1> QED BY <1>1, <1>2, <1>3, NewTableOK
-----------------------------------------------------------------------------
LEMMA CurrentIsKnownNext ==
    (LocalsTypeOK /\ ItemsCurrent /\ pc \in BeforeTableWrites => SourcesKnown)'
<1>1. LocalsTypeOK /\ ItemsCurrent /\ pc \in BeforeTableWrites => SourcesKnown
    BY CurrentIsKnown
<1> QED BY <1>1, PTL

\* Planning keeps the types, and asks nothing new.
LEMMA PlanningOK ==
    ASSUME TypeInv, Planning
    PROVE  TypeInv'
<1>1. RunOK /\ StoreOK /\ TableOK /\ Next
    BY TypeParts DEF StoreOK, Planning
<1>2. /\ UNCHANGED <<table, req>> /\ pc \in {"off", "classify", "allocate"}
      /\ pc' \in {"classify", "allocate", "planned", "failed"}
      /\ pc' = "failed" => UNCHANGED <<done, resizes>>
    BY <1>1, NextFrame
<1>3. TypeOK
    BY <1>1, <1>2 DEF TypeOK, RunOK, StoreOK, TableOK
<1>4. TypeOK'
    BY <1>1, <1>3, TypeNext
<1>5. ItemsCurrent' /\ LaidOut'
    BY <1>1, <1>2, <1>3, ItemsCurrentNext, LaidOutNext DEF RunOK, ItemsCurrent, TableOK, BeforeTableWrites
<1>6. LocalsTypeOK' /\ pc' \in Phases
    BY <1>2, <1>4 DEF TypeOK, Phases
<1>7. SourcesKnown'
    <2>1. CASE pc' = "failed"
        BY <1>1, <1>2, <2>1 DEF RunOK, SourcesKnown, Plan
    <2>2. CASE pc' \in BeforeTableWrites
        BY <1>5, <1>6, <2>2, CurrentIsKnownNext
    <2> QED BY <1>2, <2>1, <2>2 DEF BeforeTableWrites
<1>8. ShrinksChecked' /\ CursorAtItem'
    BY <1>2, NothingAsked DEF AfterShrinks
<1>9. StoreOK'
    BY <1>1, <1>2, StoreUntouched DEF Planning, environment, StoreOK
<1>10. RunOK'
    BY <1>5, <1>6, <1>7, <1>8 DEF RunOK
<1> QED BY <1>9, <1>10, TypePartsNext

\* Between the phases nothing but the cursor changes.
LEMMA ControlOK ==
    ASSUME TypeInv, Abort \/ DryRun \/ Execute \/ NextPhase
    PROVE  TypeInv'
<1>1. RunOK /\ StoreOK
    BY TypeParts
<1>2. StoreOK'
    BY <1>1, StoreUntouched DEF Abort, DryRun, Execute, NextPhase, environment, StoreOK
<1>3. Abort \/ DryRun => RunOK'
    BY Exited DEF Abort, DryRun
<1>4. ASSUME Execute PROVE RunOK'
    <2>1. /\ UNCHANGED <<table, done, todo, total, retried, free, taken, resizes>>
          /\ pc = "planned" /\ pc' = "check" /\ i' = 1
        BY <1>4 DEF Execute, Restart
    <2> QED BY <1>1, <2>1, MovedOn, NothingAsked DEF AfterShrinks, BeforeTableWrites, Phases
<1>5. ASSUME NextPhase PROVE RunOK'
    <2>1. /\ UNCHANGED <<table, done, todo, total, retried, free, taken, resizes>>
          /\ i > Len(Plan) /\ i' = 1
          /\ \/ pc = "check" /\ pc' = "shrinkFilesystems"
             \/ pc = "shrinkFilesystems" /\ pc' = "shrinkPartitions"
             \/ pc = "copyFilesystems" /\ pc' = "updatePartitions"
        BY <1>5 DEF NextPhase, Loop, Restart
    <2>2. ShrinksChecked'
        BY <1>1, <2>1, StillChecked DEF AfterShrinks, Phases
    <2>3. CursorAtItem'
        BY <2>1 DEF CursorAtItem
    <2> QED BY <1>1, <2>1, <2>2, <2>3, MovedOn DEF BeforeTableWrites, Phases
<1>6. RunOK'
    BY <1>3, <1>4, <1>5
<1> QED BY <1>2, <1>6, TypePartsNext

LEMMA AdvancedOK ==
    ASSUME TypeInv, pc \in Phases \ {"off", "classify", "allocate", "writeBack"}, pc' = pc, i' = i + 1,
           UNCHANGED <<table, done, todo, total, retried, free, taken, resizes>>,
           pc \notin {"repair", "fill", "rawCopy"},
           pc = "shrinkFilesystems" =>
               (i \in DOMAIN Plan /\ InPlace(Plan[i]) => Plan[i].target.size >= MB)
    PROVE  RunOK'
<1>1. RunOK /\ i' \in Nat \ {0}
    BY TypeParts DEF RunOK, LocalsTypeOK
<1>2. CursorAtItem'
    BY DEF CursorAtItem
<1>3. ShrinksChecked'
    <2>1. CASE pc \in AfterShrinks \cup {"shrinkFilesystems"}
        BY <1>1, <2>1, StillChecked DEF AfterShrinks
    <2>2. CASE pc \notin AfterShrinks \cup {"shrinkFilesystems"}
        BY <2>2, NothingAsked
    <2> QED BY <2>1, <2>2
<1> QED BY <1>1, <1>2, <1>3, MovedOn

LEMMA FailedOK ==
    ASSUME TypeInv, GoTo("failed"), UNCHANGED table
    PROVE  RunOK'
<1>1. RunOK /\ i' \in Nat \ {0}
    BY TypeParts DEF RunOK, LocalsTypeOK, GoTo, locals
<1> QED BY <1>1, MovedOn, NothingAsked DEF GoTo, locals, Phases, AfterShrinks, BeforeTableWrites

\* A repair changes neither what a filesystem is nor its length.
LEMMA RepairedKnown ==
    ASSUME StoreOK, NEW p \in table
    PROVE  Repaired(ContentOf(p)) \in KnownContent
<1>1. ContentOf(p) \in KnownContent
    BY ContentOfKnown
<1> QED BY <1>1 DEF Repaired, KnownContent, Content

\* A check that writes puts a repaired filesystem where it was.
LEMMA RepairedOK ==
    ASSUME StoreOK, NEW p \in table, NEW bytes, disk' = Written(bytes, Repaired(ContentOf(p))),
           UNCHANGED <<table, req, finished, environment>>
    PROVE  StoreOK'
<1>1. disk' \in [0 .. DiskSize - 1 -> Content] /\ ContentsKnown'
    BY RepairedKnown, WrittenKnown DEF environment
<1> QED BY <1>1, StoreKept DEF environment, StoreOK

LEMMA CheckPassesOK ==
    ASSUME TypeInv, CheckPasses
    PROVE  TypeInv'
<1>1. StoreOK
    BY TypeParts
<1>2. StoreOK'
    BY <1>1, StoreUntouched DEF CheckPasses, environment, StoreOK
<1>3. RunOK'
    BY AdvancedOK DEF CheckPasses, At, Advance, Phases
<1> QED BY <1>2, <1>3, TypePartsNext

LEMMA CheckFailsOK ==
    ASSUME TypeInv, CheckFails
    PROVE  TypeInv'
<1>1. StoreOK
    BY TypeParts
<1>2. PICK p \in table :
        disk' = disk \/ disk' = Written(Bytes(p.start, ContentOf(p).length), Repaired(ContentOf(p)))
    BY DEF CheckFails, Original
<1>3. UNCHANGED <<table, req, finished, environment>>
    BY DEF CheckFails
<1>4. StoreOK'
    BY <1>1, <1>2, <1>3, RepairedOK, StoreUntouched DEF environment, StoreOK
<1>5. RunOK'
    BY FailedOK DEF CheckFails
<1> QED BY <1>4, <1>5, TypePartsNext

LEMMA RepairOnDeviceOK ==
    ASSUME TypeInv, RepairOnDevice
    PROVE  TypeInv'
<1>1. StoreOK
    BY TypeParts
<1>2. PICK p \in table :
        /\ At("check")
        /\ disk' = Written(Bytes(p.start, ContentOf(p).length), Repaired(ContentOf(p)))
    BY DEF RepairOnDevice, Repairing
<1>3. UNCHANGED <<table, req, finished, environment>> /\ Advance
    BY DEF RepairOnDevice
<1>4. StoreOK'
    BY <1>1, <1>2, <1>3, RepairedOK
<1>5. RunOK'
    BY <1>2, <1>3, AdvancedOK DEF At, Advance, Phases
<1> QED BY <1>4, <1>5, TypePartsNext

LEMMA RepairWriteBackOK ==
    ASSUME TypeInv, RepairWriteBack
    PROVE  TypeInv'
<1>1. RunOK /\ StoreOK
    BY TypeParts
<1>2. PICK p \in table :
        /\ At("check")
        /\ \E bytes : disk' = Written(bytes, Repaired(ContentOf(p)))
    BY DEF RepairWriteBack, Repairing
<1>3. UNCHANGED <<table, req, finished, environment>> /\ GoTo("repair")
    BY DEF RepairWriteBack
<1>4. StoreOK'
    BY <1>1, <1>2, <1>3, RepairedOK
<1>5. /\ pc = "check" /\ i \in DOMAIN Plan /\ Plan' = Plan /\ pc' = "repair" /\ i' = i /\ i \in Nat \ {0}
      /\ UNCHANGED <<table, done, todo, total, retried, free, taken, resizes>>
    BY <1>1, <1>2, <1>3, PlanParts DEF At, GoTo, locals, Plan, RunOK, LocalsTypeOK
<1>6. ShrinksChecked' /\ CursorAtItem'
    BY <1>5 DEF ShrinksChecked, CursorAtItem, AfterShrinks
<1>7. RunOK'
    BY <1>1, <1>5, <1>6, MovedOn DEF Phases, BeforeTableWrites
<1> QED BY <1>4, <1>7, TypePartsNext

LEMMA RepairWrittenBackOK ==
    ASSUME TypeInv, RepairWrittenBack
    PROVE  TypeInv'
<1>1. RunOK /\ StoreOK /\ TableOK
    BY TypeParts DEF StoreOK
<1>2. PICK p \in table : disk' = Written(Bytes(p.start, disk[p.start].length), disk[p.start])
    BY DEF RepairWrittenBack, Original
<1>3. /\ pc = "repair" /\ pc' = "check" /\ i' = i + 1
      /\ UNCHANGED <<table, req, done, todo, total, retried, free, taken, resizes, finished, environment>>
    BY DEF RepairWrittenBack
<1>4. i' \in Nat \ {0}
    BY <1>1, <1>3 DEF RunOK, LocalsTypeOK
<1>5. StoreOK'
    <2>1. disk[p.start] \in KnownContent
        BY <1>1, EntryBytes DEF StoreOK, ContentsKnown, KnownContent
    <2>2. disk' \in [0 .. DiskSize - 1 -> Content] /\ ContentsKnown'
        BY <1>1, <1>2, <1>3, <2>1, WrittenKnown DEF environment
    <2> QED BY <1>1, <1>3, <2>2, StoreKept DEF environment, StoreOK
<1>6. RunOK'
    BY <1>1, <1>3, <1>4, NothingAsked, MovedOn DEF Phases, BeforeTableWrites, AfterShrinks
<1> QED BY <1>5, <1>6, TypePartsNext

\* The steps of checkSourceFilesystems.
Checking == CheckPasses \/ RepairOnDevice \/ RepairWriteBack \/ RepairWrittenBack \/ CheckFails

\* None of them changes more than the disk, the phase and the cursor.
LEMMA CheckingFrame ==
    ASSUME Checking
    PROVE  /\ UNCHANGED <<table, req, finished, environment>>
           /\ UNCHANGED <<done, todo, total, retried, free, taken, resizes>>
           /\ \/ pc = "check" /\ pc' = "check" /\ i' = i + 1 /\ i <= Len(Plan)
              \/ pc = "check" /\ pc' = "repair" /\ i' = i /\ i <= Len(Plan) /\ ~IsBlock /\ req.fixErrors
              \/ pc = "repair" /\ pc' = "check" /\ i' = i + 1
              \/ pc = "check" /\ pc' = "failed" /\ i' = i
BY DEF Checking, CheckPasses, RepairOnDevice, RepairWriteBack, RepairWrittenBack, Repairing, CheckFails,
    At, Advance, GoTo, locals

LEMMA CheckOK ==
    ASSUME TypeInv, Checking
    PROVE  TypeInv'
BY CheckPassesOK, CheckFailsOK, RepairOnDeviceOK, RepairWriteBackOK, RepairWrittenBackOK DEF Checking
-----------------------------------------------------------------------------
\* What resize2fs accepts is at least a megabyte, on a filesystem of the disk.
LEMMA SupportedIs ==
    ASSUME TypeInv, NEW p \in table, NEW k \in DOMAIN Plan, ShrinkSupported(p, Plan[k])
    PROVE  /\ Plan[k].target.size >= MB
           /\ Shrunk(p, Plan[k]) \in KnownContent
<1>1. RunOK /\ StoreOK /\ LocalsTypeOK
    BY TypeParts DEF RunOK
<1>2. Plan[k] \in Item /\ Plan[k].target.size \in Int
    BY <1>1, PlanParts, ItemFields
<1>3. ContentOf(p).fs \in DOMAIN Kind
    BY DEF ShrinkSupported, KindOf
<1>4. Used[ContentOf(p).fs] \in Nat \ {0}
    BY <1>3, FilesystemAssumption
<1>5. Megabytes(Plan[k].target.size) >= Used[ContentOf(p).fs]
    BY DEF ShrinkSupported
<1>6. Plan[k].target.size >= MB /\ Megabytes(Plan[k].target.size) \in Nat
    BY <1>2, <1>4, <1>5, AtLeastAMegabyte
<1>7. ContentOf(p) \in KnownContent
    BY <1>1, ContentOfKnown
<1> QED BY <1>6, <1>7 DEF Shrunk, KnownContent, Content

\* Every step of shrinkFilesystems that writes puts a known content on the disk.
LEMMA ShrinkOnDeviceOK ==
    ASSUME TypeInv, ShrinkOnDevice
    PROVE  TypeInv'
<1>1. RunOK /\ StoreOK
    BY TypeParts
<1>2. PICK p \in table :
        /\ ShrinkSupported(p, Plan[i])
        /\ disk' = Written(Bytes(p.start, Shrunk(p, Plan[i]).length), Shrunk(p, Plan[i]))
    BY DEF ShrinkOnDevice, Original
<1>3. /\ pc = "shrinkFilesystems" /\ i <= Len(Plan) /\ Advance
      /\ UNCHANGED <<table, req, finished, environment>>
    BY DEF ShrinkOnDevice, At
<1>4. i \in DOMAIN Plan
    BY <1>1, <1>3, PlanParts DEF RunOK, LocalsTypeOK
<1>5. StoreOK'
    <2>1. disk' \in [0 .. DiskSize - 1 -> Content] /\ ContentsKnown'
        BY <1>1, <1>2, <1>3, <1>4, SupportedIs, WrittenKnown DEF environment
    <2> QED BY <1>1, <1>3, <2>1, StoreKept DEF environment, StoreOK
<1>6. RunOK'
    BY <1>2, <1>3, <1>4, SupportedIs, AdvancedOK DEF Advance, Phases
<1> QED BY <1>5, <1>6, TypePartsNext

LEMMA ShrinkWriteBackOK ==
    ASSUME TypeInv, ShrinkWriteBack
    PROVE  TypeInv'
<1>1. RunOK /\ StoreOK
    BY TypeParts
<1>2. PICK p \in table :
        /\ ShrinkSupported(p, Plan[i])
        /\ \E bytes : disk' = Written(bytes, Shrunk(p, Plan[i]))
    BY DEF ShrinkWriteBack, Original
<1>3. /\ pc = "shrinkFilesystems" /\ i <= Len(Plan) /\ GoTo("writeBack")
      /\ UNCHANGED <<table, req, finished, environment>>
    BY DEF ShrinkWriteBack, At
<1>4. i \in DOMAIN Plan /\ i \in Nat \ {0}
    BY <1>1, <1>3, PlanParts DEF RunOK, LocalsTypeOK
<1>5. StoreOK'
    <2>1. disk' \in [0 .. DiskSize - 1 -> Content] /\ ContentsKnown'
        BY <1>1, <1>2, <1>3, <1>4, SupportedIs, WrittenKnown DEF environment
    <2> QED BY <1>1, <1>3, <2>1, StoreKept DEF environment, StoreOK
<1>6. Plan' = Plan /\ UNCHANGED <<table, done, todo, total, retried, free, taken, resizes>> /\ i' = i
      /\ pc' = "writeBack"
    BY <1>3 DEF GoTo, locals, Plan
<1>7. Plan[i].target.size >= MB
    BY <1>2, <1>4, SupportedIs
<1>8. ShrinksChecked' /\ CursorAtItem'
    BY <1>1, <1>3, <1>4, <1>6, <1>7 DEF ShrinksChecked, CursorAtItem, RunOK, AfterShrinks
<1>9. RunOK'
    BY <1>1, <1>3, <1>4, <1>6, <1>8, MovedOn DEF Phases, BeforeTableWrites
<1> QED BY <1>5, <1>9, TypePartsNext

LEMMA ShrinkWrittenBackOK ==
    ASSUME TypeInv, ShrinkWrittenBack
    PROVE  TypeInv'
<1>1. RunOK /\ StoreOK /\ TableOK
    BY TypeParts DEF StoreOK
<1>2. PICK p \in table : disk' = Written(Bytes(p.start, disk[p.start].length), disk[p.start])
    BY DEF ShrinkWrittenBack, Original
<1>3. /\ pc = "writeBack" /\ pc' = "shrinkFilesystems" /\ i' = i + 1
      /\ UNCHANGED <<table, req, done, todo, total, retried, free, taken, resizes, finished, environment>>
    BY DEF ShrinkWrittenBack
<1>4. i \in DOMAIN Plan /\ i \in Nat \ {0}
    BY <1>1, <1>3 DEF RunOK, LocalsTypeOK, CursorAtItem
<1>5. StoreOK'
    <2>1. disk[p.start] \in KnownContent
        BY <1>1, EntryBytes DEF StoreOK, ContentsKnown, KnownContent
    <2>2. disk' \in [0 .. DiskSize - 1 -> Content] /\ ContentsKnown'
        BY <1>1, <1>2, <1>3, <2>1, WrittenKnown DEF environment
    <2> QED BY <1>1, <1>3, <2>2, StoreKept DEF environment, StoreOK
<1>6. InPlace(Plan[i]) => Plan[i].target.size >= MB
    BY <1>1, <1>3, <1>4 DEF RunOK, ShrinksChecked
<1>7. ShrinksChecked'
    BY <1>1, <1>3, <1>4, <1>6, StillChecked DEF Phases, AfterShrinks
<1>8. CursorAtItem'
    BY <1>3 DEF CursorAtItem
<1>9. RunOK'
    BY <1>1, <1>3, <1>4, <1>7, <1>8, MovedOn DEF Phases, BeforeTableWrites
<1> QED BY <1>5, <1>9, TypePartsNext

LEMMA ShrinkStepsOK ==
    ASSUME TypeInv,
           KeepFilesystem \/ ShrinkRefused \/ ShrinkOnDevice \/ ShrinkWriteBack \/ ShrinkWrittenBack
    PROVE  TypeInv'
<1>1. RunOK /\ StoreOK
    BY TypeParts
<1>2. ASSUME KeepFilesystem \/ ShrinkRefused PROVE TypeInv'
    <2>1. StoreOK'
        BY <1>1, <1>2, StoreUntouched DEF KeepFilesystem, ShrinkRefused, environment, StoreOK
    <2>2. KeepFilesystem => RunOK'
        BY AdvancedOK DEF KeepFilesystem, At, Advance, Phases
    <2>3. ShrinkRefused => RunOK'
        BY FailedOK DEF ShrinkRefused
    <2> QED BY <1>2, <2>1, <2>2, <2>3, TypePartsNext
<1> QED BY <1>2, ShrinkOnDeviceOK, ShrinkWriteBackOK, ShrinkWrittenBackOK
-----------------------------------------------------------------------------
\* A table write leaves the bytes of the disk alone.
LEMMA CommittedOK ==
    ASSUME StoreOK, TableOK', UNCHANGED <<req, disk, environment>>, finished' \in BOOLEAN
    PROVE  StoreOK'
BY DEF StoreOK, ContentsKnown, Ids, environment

\* Once the run goes on with a new table in which its sources are still there.
LEMMA RestartedOK ==
    ASSUME RunOK, pc \in AfterShrinks, NEW phase \in AfterShrinks \ {"shrinkPartitions", "fill", "rawCopy"},
           Restart(phase), SourcesKnown'
    PROVE  RunOK'
<1>1. /\ pc' = phase /\ i' = 1 /\ Plan' = Plan /\ Grown' = Grown
      /\ UNCHANGED <<done, todo, total, retried, free, taken, resizes>>
    BY DEF Restart, Plan, Grown
<1>2. LocalsTypeOK'
    BY <1>1 DEF RunOK, LocalsTypeOK
<1>3. ItemsCurrent' /\ CursorAtItem'
    BY <1>1 DEF ItemsCurrent, CursorAtItem, BeforeTableWrites, AfterShrinks
<1>4. LaidOut'
    BY <1>1 DEF RunOK, LaidOut
<1>5. ShrinksChecked'
    BY <1>1 DEF RunOK, ShrinksChecked, AfterShrinks
<1> QED BY <1>1, <1>2, <1>3, <1>4, <1>5 DEF RunOK, Phases, AfterShrinks

LEMMA ShrinkPartitionsOK ==
    ASSUME TypeInv, SlotsDistinct, ShrinkPartitions
    PROVE  TypeInv'
<1>1. RunOK /\ StoreOK /\ TableOK /\ pc = "shrinkPartitions" /\ pc \in AfterShrinks
      /\ UNCHANGED <<req, disk, environment>>
    BY TypeParts DEF StoreOK, ShrinkPartitions, AfterShrinks
<1>2. CASE Restart("createPartitions") /\ UNCHANGED <<table, finished>>
    <2>1. SourcesKnown'
        BY <1>1, <1>2 DEF Restart, RunOK, SourcesKnown, Plan
    <2>2. RunOK'
        BY <1>1, <1>2, <2>1, RestartedOK DEF AfterShrinks
    <2>3. StoreOK'
        BY <1>1, <1>2, StoreUntouched DEF environment, StoreOK
    <2> QED BY <2>2, <2>3, TypePartsNext
<1>3. CASE Commit({ShrunkEntry(p) : p \in table}, Restart("createPartitions") /\ UNCHANGED finished)
    <2>1. table' = {ShrunkEntry(p) : p \in table} /\ UNCHANGED finished
        BY <1>3 DEF Commit
    <2>2. TableOK'
        BY <1>1, <2>1, ShrunkTableOK DEF environment
    <2>3. StoreOK'
        BY <1>1, <2>1, <2>2, CommittedOK DEF StoreOK
    <2>4. ASSUME Restart("createPartitions") PROVE RunOK'
        <3>1. \A p \in table : ShrunkEntry(p) \in table'
                /\ ShrunkEntry(p).number = p.number /\ ShrunkEntry(p).start = p.start
            BY <1>1, <2>1, ShrunkEntryIs DEF TableOK, Entry
        <3>2. SourcesKnown'
            BY <1>1, <2>4, <3>1 DEF Restart, RunOK, SourcesKnown, Plan
        <3> QED BY <1>1, <2>4, <3>2, RestartedOK DEF AfterShrinks
    <2>5. RunOK'
        BY <1>3, <2>4, Exited DEF Commit
    <2> QED BY <2>3, <2>5, TypePartsNext
<1> QED BY <1>2, <1>3 DEF ShrinkPartitions

LEMMA CreatePartitionsOK ==
    ASSUME TypeInv, CreatePartitions
    PROVE  TypeInv'
<1> DEFINE new == {x \in table \X Moved :
                      x[1].number = Plan[x[2]].original.number /\ ~HasAlternate(x[1])}
<1>1. /\ RunOK /\ StoreOK /\ pc = "createPartitions" /\ pc \in AfterShrinks
      /\ UNCHANGED <<req, disk, environment>>
      /\ Commit(table \cup {NewEntry(x[1], Plan[x[2]]) : x \in new},
                Restart("copyFilesystems") /\ UNCHANGED finished)
    BY TypeParts DEF CreatePartitions, AfterShrinks
<1>2. new \in SUBSET (table \X Moved)
    OBVIOUS
<1> HIDE DEF new
<1>3. table' = table \cup {NewEntry(x[1], Plan[x[2]]) : x \in new} /\ UNCHANGED finished
    BY <1>1 DEF Commit
<1>4. TableOK'
    BY <1>1, <1>2, <1>3, CreatedTableOK DEF environment
<1>5. StoreOK'
    BY <1>1, <1>3, <1>4, CommittedOK DEF StoreOK
<1>6. ASSUME Restart("copyFilesystems") PROVE RunOK'
    <2>1. SourcesKnown'
        BY <1>1, <1>3, <1>6 DEF Restart, RunOK, SourcesKnown, Plan
    <2> QED BY <1>1, <1>6, <2>1, RestartedOK DEF AfterShrinks
<1>7. RunOK'
    BY <1>1, <1>6, Exited DEF Commit
<1> QED BY <1>5, <1>7, TypePartsNext

LEMMA UpdatePartitionsOK ==
    ASSUME TypeInv, UpdatePartitions
    PROVE  TypeInv'
<1>1. /\ StoreOK
      /\ UNCHANGED <<req, disk, environment>>
      /\ Commit({FinalEntry(p) : p \in {q \in table : ~Superseded(q)}}, Exit /\ finished' = TRUE)
    BY TypeParts DEF UpdatePartitions
<1>2. table' = {FinalEntry(p) : p \in {q \in table : ~Superseded(q)}}
    BY <1>1 DEF Commit
<1>3. finished' \in BOOLEAN
    BY <1>1 DEF Commit, StoreOK
<1>4. TableOK'
    BY <1>1, <1>2, FinalTableOK DEF environment
<1>5. StoreOK'
    BY <1>1, <1>3, <1>4, CommittedOK
<1>6. RunOK'
    BY <1>1, Exited DEF Commit
<1> QED BY <1>5, <1>6, TypePartsNext
-----------------------------------------------------------------------------
\* Going on with the copies.
LEMMA CopyingOn ==
    ASSUME TypeInv, pc \in {"copyFilesystems", "fill", "rawCopy"},
           UNCHANGED <<table, done, todo, total, retried, free, taken, resizes>>,
           \/ pc' = "copyFilesystems" /\ i' = i + 1
           \/ pc' \in {"fill", "rawCopy"} /\ i' = i /\ i <= Len(Plan)
    PROVE  RunOK'
<1>1. RunOK /\ i \in Nat \ {0} /\ i' \in Nat \ {0} /\ LocalsTypeOK
    BY TypeParts DEF RunOK, LocalsTypeOK
<1>2. Plan' = Plan /\ Plan \in Seq(Item)
    BY <1>1, PlanParts DEF Plan
<1>3. CursorAtItem'
    BY <1>1, <1>2 DEF CursorAtItem
<1>4. ShrinksChecked'
    BY <1>1, StillChecked DEF AfterShrinks, Phases
<1> QED BY <1>1, <1>3, <1>4, MovedOn DEF BeforeTableWrites, Phases

LEMMA FormatOK ==
    ASSUME TypeInv, Format
    PROVE  TypeInv'
<1>1. RunOK /\ StoreOK /\ TableOK
    BY TypeParts DEF StoreOK
<1>2. PICK p \in table, q \in table : disk' = Written(Extent(q), Empty(ContentOf(p).fs, q.size))
    BY DEF Format
<1>3. /\ pc = "copyFilesystems" /\ i <= Len(Plan) /\ GoTo("fill")
      /\ UNCHANGED <<table, req, finished, environment>>
    BY DEF Format, Copying, At
<1>4. Empty(ContentOf(p).fs, q.size) \in KnownContent
    BY <1>1, ContentOfKnown, EntryBytes DEF KnownContent, Content, Empty, Made
<1>5. disk' \in [0 .. DiskSize - 1 -> Content] /\ ContentsKnown'
    BY <1>1, <1>2, <1>3, <1>4, WrittenKnown DEF environment
<1>6. StoreOK'
    BY <1>1, <1>3, <1>5, StoreKept DEF environment, StoreOK
<1>7. RunOK'
    BY <1>3, CopyingOn DEF GoTo, locals
<1> QED BY <1>6, <1>7, TypePartsNext

LEMMA FillOK ==
    ASSUME TypeInv, Fill
    PROVE  TypeInv'
<1>1. RunOK /\ StoreOK /\ TableOK
    BY TypeParts DEF StoreOK
<1>2. PICK p \in table, q \in table : disk' = Written(Extent(q), Filled(p, q))
    BY DEF Fill, Original, Relocated
<1>3. /\ pc = "fill" /\ pc' = "copyFilesystems" /\ i' = i + 1
      /\ UNCHANGED <<table, req, done, todo, total, retried, free, taken, resizes, finished, environment>>
    BY DEF Fill
<1>4. Filled(p, q) \in KnownContent
    BY <1>1, ContentOfKnown, EntryBytes DEF KnownContent, Content, Filled, Made
<1>5. disk' \in [0 .. DiskSize - 1 -> Content] /\ ContentsKnown'
    BY <1>1, <1>2, <1>3, <1>4, WrittenKnown DEF environment
<1>6. StoreOK'
    BY <1>1, <1>3, <1>5, StoreKept DEF environment, StoreOK
<1>7. RunOK'
    BY <1>3, CopyingOn
<1> QED BY <1>6, <1>7, TypePartsNext

LEMMA StartRawCopyOK ==
    ASSUME TypeInv, StartRawCopy
    PROVE  TypeInv'
<1>1. RunOK /\ StoreOK /\ TableOK
    BY TypeParts DEF StoreOK
<1>2. PICK p \in table, q \in table : \E n \in 0 .. p.size - 1 : disk' = Copied(p.start, q.start, n)
    BY DEF StartRawCopy
<1>3. PICK n \in 0 .. p.size - 1 : disk' = Copied(p.start, q.start, n)
    BY <1>2
<1>4. /\ pc = "copyFilesystems" /\ i <= Len(Plan) /\ GoTo("rawCopy")
      /\ UNCHANGED <<table, req, finished, environment>>
    BY DEF StartRawCopy, Copying, At
<1>5. p.start \in Nat /\ q.start \in Nat /\ n \in Nat /\ p.start + n <= DiskSize
    BY <1>1, EntryBytes, SizeAssumption
<1>6. disk' \in [0 .. DiskSize - 1 -> Content] /\ ContentsKnown'
    BY <1>1, <1>3, <1>4, <1>5, CopiedKnown DEF environment
<1>7. StoreOK'
    BY <1>1, <1>4, <1>6, StoreKept DEF environment, StoreOK
<1>8. RunOK'
    BY <1>4, CopyingOn DEF GoTo, locals
<1> QED BY <1>7, <1>8, TypePartsNext

LEMMA FinishRawCopyOK ==
    ASSUME TypeInv, FinishRawCopy
    PROVE  TypeInv'
<1>1. RunOK /\ StoreOK /\ TableOK
    BY TypeParts DEF StoreOK
<1>2. PICK p \in table, q \in table : disk' = Copied(p.start, q.start, p.size)
    BY DEF FinishRawCopy, Original, Relocated
<1>3. /\ pc = "rawCopy" /\ pc' = "copyFilesystems" /\ i' = i + 1
      /\ UNCHANGED <<table, req, done, todo, total, retried, free, taken, resizes, finished, environment>>
    BY DEF FinishRawCopy
<1>4. p.start \in Nat /\ q.start \in Nat /\ p.size \in Nat /\ p.start + p.size <= DiskSize
    BY <1>1, EntryBytes
<1>5. disk' \in [0 .. DiskSize - 1 -> Content] /\ ContentsKnown'
    BY <1>1, <1>2, <1>3, <1>4, CopiedKnown DEF environment
<1>6. StoreOK'
    BY <1>1, <1>3, <1>5, StoreKept DEF environment, StoreOK
<1>7. RunOK'
    BY <1>3, CopyingOn
<1> QED BY <1>6, <1>7, TypePartsNext

LEMMA CopyStepsOK ==
    ASSUME TypeInv,
           SkipUnmoved \/ SkipMatching \/ Format \/ Fill \/ StartRawCopy \/ FinishRawCopy \/ CopyUnsupported
    PROVE  TypeInv'
<1>1. RunOK /\ StoreOK
    BY TypeParts
<1>2. ASSUME SkipUnmoved \/ SkipMatching \/ CopyUnsupported PROVE TypeInv'
    <2>1. UNCHANGED <<table, req, disk, finished, environment>>
        BY <1>2 DEF SkipUnmoved, SkipMatching, CopyUnsupported
    <2>2. StoreOK'
        BY <1>1, <2>1, StoreUntouched DEF environment, StoreOK
    <2>3. SkipUnmoved \/ SkipMatching => RunOK'
        BY <2>1, CopyingOn DEF SkipUnmoved, SkipMatching, Copying, At, Advance
    <2>4. CopyUnsupported => RunOK'
        BY <2>1, FailedOK DEF CopyUnsupported
    <2> QED BY <1>2, <2>2, <2>3, <2>4, TypePartsNext
<1> QED BY <1>2, FormatOK, FillOK, StartRawCopyOK, FinishRawCopyOK
-----------------------------------------------------------------------------
\* What is not a step of a run leaves the plan and the table alone.
LEMMA RunKept ==
    ASSUME RunOK, UNCHANGED <<table, pc, locals>>
    PROVE  RunOK'
<1>1. Plan' = Plan /\ Grown' = Grown
    BY DEF Plan, Grown, locals
<1>2. LocalsTypeOK' /\ LaidOut' /\ SourcesKnown' /\ ShrinksChecked' /\ CursorAtItem'
    BY <1>1 DEF RunOK, LocalsTypeOK, LaidOut, SourcesKnown, ShrinksChecked, CursorAtItem, locals
<1>3. ItemsCurrent'
    BY DEF RunOK, ItemsCurrent, InStep, locals
<1> QED BY <1>2, <1>3 DEF RunOK

LEMMA InterruptOK ==
    ASSUME TypeInv, Interrupt
    PROVE  TypeInv'
<1>1. StoreOK
    BY TypeParts
<1>2. interrupts' \in 0 .. MaxInterrupts
    BY <1>1, DiskAssumption DEF Interrupt, StoreOK
<1>3. StoreOK'
    BY <1>1, <1>2 DEF StoreOK, TableOK, TableOnDisk, GuidsKnown, ContentsKnown, Ids, Interrupt
<1> QED BY <1>3, Exited, TypePartsNext DEF Interrupt

\* The operating system writes to filesystems that were there from the start.
LEMMA OsWritesOK ==
    ASSUME TypeInv, OsWrites
    PROVE  TypeInv'
<1>1. RunOK /\ StoreOK /\ TableOK
    BY TypeParts DEF StoreOK
<1> DEFINE touched(p, left) ==
              [ContentOf(p) EXCEPT !.version = latest[p.guid] + 1, !.dirty = @ \/ left]
<1>2. PICK p \in table, left \in BOOLEAN :
        /\ ContentOf(p).fs = p.guid
        /\ disk' = Written(Bytes(p.start, ContentOf(p).length), touched(p, left))
        /\ latest' = [latest EXCEPT ![p.guid] = @ + 1]
    BY DEF OsWrites
<1>3. UNCHANGED <<plannerVars, finished, origin, interrupts, changes>> /\ writes' = writes + 1
      /\ writes < MaxWrites
    BY DEF OsWrites
<1>4. ContentOf(p) \in KnownContent
    BY <1>1, ContentOfKnown
<1>5. p.guid \in Ids /\ p.guid \in Guid
    <2>1. p.guid \in Ids \/ p.guid = <<"fresh", 0>>
        BY <1>2, <1>4 DEF KnownContent, Junk, Made
    <2>2. p.guid \in Ids \/ (p.guid[1] = "fresh" /\ p.guid[2] # 0)
        BY <1>1 DEF TableOK, GuidsKnown
    <2>3. p.guid \in Guid
        BY <1>1, EntryBytes DEF Entry
    <2> QED BY <2>1, <2>2, <2>3
<1>6. latest[p.guid] \in Nat /\ latest' \in [Ids -> Nat]
    BY <1>1, <1>2, <1>5 DEF StoreOK
<1>7. touched(p, left) \in KnownContent
    <2>1. latest[p.guid] + 1 \in Nat /\ (ContentOf(p).dirty \/ left) \in BOOLEAN
        BY <1>6
    <2>2. \A v \in Nat, d \in BOOLEAN :
            [ContentOf(p) EXCEPT !.version = v, !.dirty = d] \in KnownContent
        BY <1>4 DEF KnownContent, Content
    <2> QED BY <2>1, <2>2
<1> HIDE DEF touched
<1>8. disk' \in [0 .. DiskSize - 1 -> Content] /\ ContentsKnown'
    BY <1>1, <1>2, <1>3, <1>7, WrittenKnown
<1>9. writes' \in 0 .. MaxWrites /\ Ids' = Ids
    BY <1>1, <1>3, DiskAssumption DEF StoreOK, Ids
<1>10. TableOK'
    BY <1>1, <1>3, <1>9 DEF TableOK, TableOnDisk, GuidsKnown, plannerVars
<1>11. StoreOK'
    BY <1>1, <1>3, <1>6, <1>8, <1>9, <1>10 DEF StoreOK, plannerVars
<1>12. RunOK'
    BY <1>1, <1>3, RunKept DEF plannerVars
<1> QED BY <1>11, <1>12, TypePartsNext

LEMMA ChangeRequestOK ==
    ASSUME TypeInv, ChangeRequest
    PROVE  TypeInv'
<1>1. RunOK /\ StoreOK
    BY TypeParts
<1>2. changes' \in 0 .. MaxChanges /\ req' \in Requests
    BY <1>1, DiskAssumption DEF ChangeRequest, StoreOK
<1>3. finished' \in BOOLEAN
    BY DEF ChangeRequest
<1>4. StoreOK'
    BY <1>1, <1>2, <1>3 DEF StoreOK, TableOK, TableOnDisk, GuidsKnown, ContentsKnown, Ids, ChangeRequest
<1>5. RunOK'
    BY <1>1, RunKept DEF ChangeRequest
<1> QED BY <1>4, <1>5, TypePartsNext

LEMMA StutterOK ==
    ASSUME TypeInv, UNCHANGED vars
    PROVE  TypeInv'
<1>1. RunOK /\ StoreOK
    BY TypeParts
<1>2. RunOK'
    BY <1>1, RunKept DEF vars, plannerVars
<1>3. StoreOK'
    BY <1>1, StoreUntouched DEF vars, plannerVars, environment, StoreOK
<1> QED BY <1>2, <1>3, TypePartsNext

LEMMA DiskTypeNext == TypeInv /\ SlotsDistinct /\ [DiskNext]_vars => TypeInv'
<1> SUFFICES ASSUME TypeInv, SlotsDistinct, [DiskNext]_vars PROVE TypeInv'
    OBVIOUS
<1>1. CASE Planning
    BY <1>1, PlanningOK
<1>2. CASE Abort \/ DryRun \/ Execute \/ NextPhase
    BY <1>2, ControlOK
<1>3. CASE Checking
    BY <1>3, CheckOK
<1>4. CASE KeepFilesystem \/ ShrinkRefused \/ ShrinkOnDevice \/ ShrinkWriteBack \/ ShrinkWrittenBack
    BY <1>4, ShrinkStepsOK
<1>5. CASE ShrinkPartitions
    BY <1>5, ShrinkPartitionsOK
<1>6. CASE CreatePartitions
    BY <1>6, CreatePartitionsOK
<1>7. CASE SkipUnmoved \/ SkipMatching \/ Format \/ Fill \/ StartRawCopy \/ FinishRawCopy
           \/ CopyUnsupported
    BY <1>7, CopyStepsOK
<1>8. CASE UpdatePartitions
    BY <1>8, UpdatePartitionsOK
<1>9. CASE Interrupt \/ OsWrites \/ ChangeRequest
    BY <1>9, InterruptOK, OsWritesOK, ChangeRequestOK
<1>10. CASE UNCHANGED vars
    BY <1>10, StutterOK
<1> QED BY <1>1, <1>2, <1>3, <1>4, <1>5, <1>6, <1>7, <1>8, <1>9, <1>10 DEF DiskNext, Run, Checking

\* On a disk whose table has one entry in each slot, which is all a GPT has room
\* for, the entries, the bytes of the disk, the plan of the run and its cursor
\* keep their types, through every run, interrupt and outside write: what
\* createPartitions writes are entries on the disk of at least a sector, a shrunk
\* partition keeps at least a megabyte, and a filesystem copied byte by byte is
\* read from the disk only.
THEOREM DiskTypeCorrect == DiskSpec /\ []SlotsDistinct => []DiskTypeOK
<1>1. TypeInv => DiskTypeOK
    BY DEF TypeInv
<1> QED BY <1>1, DiskTypeInit, DiskTypeNext, PTL DEF DiskSpec
=============================================================================
