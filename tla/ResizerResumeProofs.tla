------------------------ MODULE ResizerResumeProofs ------------------------
(***************************************************************************)
(* Resumed runs agree with the interrupted ones, and all of them together  *)
(* implement the abstract resize: the partition offered shrinks once,      *)
(* because the room that made is still there, and is enough, for every     *)
(* later attempt, and the grown partitions move at one moment.             *)
(***************************************************************************)
EXTENDS ResizerFinishProofs

\* What the k-th grow still needs, and the sums of the first n.
Share(k) == IF \E p \in table : Growing(k, p) THEN req.grows[k].size ELSE 0
SumsTo(h, n) ==
    /\ h \in [0 .. n -> Int]
    /\ h[0] = 0
    /\ \A k \in 1 .. n : h[k] = h[k - 1] + Share(k)

\* A run of n bytes that no entry has.
FreeBytes == (1 .. DiskSize - 1) \ UNION {Extent(p) : p \in table}
Vacant(n) == \E s \in Int : Bytes(s, n) \subseteq FreeBytes

WasShrunk == \E p \in table : Offered(p) /\ p \notin origin

\* While there are no copies the pending sizes are those the grows need.
SumKnown ==
    NoCopies =>
        /\ pc = "classify" =>
              i <= Len(req.grows) + 1 /\ \E h : SumsTo(h, i - 1) /\ h[i - 1] = total
        /\ pc \in BeforeTableWrites \ {"off", "classify"} =>
              \E h : SumsTo(h, Len(req.grows)) /\ h[Len(req.grows)] = total

\* Once the partition offered has been shrunk there is room for all of them,
RoomHeld ==
    WasShrunk /\ NoCopies /\ ~Settled =>
        \E h : /\ SumsTo(h, Len(req.grows))
               /\ Vacant(h[Len(req.grows)])
               /\ pc = "classify" => total = h[i - 1]

\* also while they are being laid out.
RoomKept ==
    pc = "allocate" /\ ~retried /\ WasShrunk /\ NoCopies =>
        \E f : Sums(f, 0) /\ RoomFrom(total - f[i - 1])
PlanRoom == pc \in {"off", "classify", "allocate"} => RoomInv

\* The invariant of resumed runs, with SettlingInv.
RoomyInv ==
    /\ ResumeInv
    /\ SumKnown
    /\ RoomHeld
    /\ RoomKept
    /\ PlanRoom

\* What the invariants say of the table and the request only stays as it is
\* when these do.
LEMMA TableSame ==
    ASSUME UNCHANGED <<table, req, origin>>
    PROVE  /\ NoCopies' <=> NoCopies
           /\ Settled' <=> Settled
           /\ WasShrunk' <=> WasShrunk
           /\ UnmovedKept => UnmovedKept'
           /\ CopiedTogether => CopiedTogether'
           /\ \A k, p : Growing(k, p)' <=> Growing(k, p)
           /\ \A h, n : SumsTo(h, n)' <=> SumsTo(h, n)
           /\ \A n : Vacant(n)' <=> Vacant(n)
<1>1. \A k, p : (Growing(k, p)' <=> Growing(k, p)) /\ (GrownBy(k, p)' <=> GrownBy(k, p))
    BY AskedFrame, GrowingFrame
<1>2. \A p : Offered(p)' <=> Offered(p)
    BY AskedFrame
<1>3. Settled' <=> Settled
    BY <1>1 DEF Settled
<1>4. \A k : Share(k)' = Share(k)
    BY <1>1 DEF Share
<1>5. NoCopies' <=> NoCopies
    BY DEF NoCopies, Ids
<1>6. UnmovedKept => UnmovedKept'
    BY <1>2, <1>3 DEF UnmovedKept, Ids, Before
<1>7. CopiedTogether => CopiedTogether'
    BY <1>1, <1>5 DEF CopiedTogether, HasAlternate
<1>8. \A n : Vacant(n)' <=> Vacant(n)
    BY DEF Vacant, FreeBytes
<1>9. \A h, n : SumsTo(h, n)' <=> SumsTo(h, n)
    BY <1>4 DEF SumsTo
<1>10. WasShrunk' <=> WasShrunk
    BY <1>2 DEF WasShrunk
<1> QED BY <1>1, <1>3, <1>5, <1>6, <1>7, <1>8, <1>9, <1>10

LEMMA CutSame ==
    ASSUME UNCHANGED <<table, origin, total>>, retried => retried', NEW item, CutOnce(item)
    PROVE  CutOnce(item)'
BY DEF CutOnce, Original, InPlace, RoundUp, Gigabytes

\* Room for nothing is there at the start of a run.
Idle == pc = "off" /\ InitLocals
LEMMA RoomIdle == ASSUME Idle PROVE RoomInv
<1>1. todo = <<>> /\ total = 0 /\ free = {} /\ retried = FALSE /\ pc = "off" /\ Len(todo) = 0
    BY DEF Idle, InitLocals
<1>2. PICK f : f = [k \in 0 .. 0 |-> 0]
    OBVIOUS
<1>3. Sums(f, 0)
    BY <1>1, <1>2 DEF Sums
<1>4. FreeBounded
    BY <1>1 DEF FreeBounded
<1> QED BY <1>1, <1>3, <1>4 DEF RoomInv

LEMMA RoomyExited ==
    ASSUME Exit, UnmovedKept', CopiedTogether', RoomHeld'
    PROVE  RoomyInv'
<1>1. /\ pc' = "off" /\ todo' = <<>> /\ total' = 0 /\ free' = {} /\ retried' = FALSE
      /\ done' = <<>> /\ resizes' = <<>>
    BY DEF Exit
<1>2. RoomInv'
    <2>1. Idle'
        BY DEF Idle, InitLocals, Exit
    <2> QED BY <2>1, RoomIdle, PTL
<1>3. CutsOnce'
    BY <1>1 DEF CutsOnce
<1>4. NothingQueued'
    BY <1>1 DEF NothingQueued
<1> QED BY <1>1, <1>2, <1>3, <1>4 DEF RoomyInv, ResumeInv, SumKnown, RoomKept, PlanRoom

LEMMA RoomyEnds ==
    ASSUME RoomyInv, Exit, UNCHANGED <<table, req, origin>>
    PROVE  RoomyInv'
<1>1. pc' = "off"
    BY DEF Exit
<1>2. UnmovedKept' /\ CopiedTogether'
    BY TableSame DEF RoomyInv, ResumeInv
<1>3. RoomHeld'
    <2> SUFFICES ASSUME WasShrunk', NoCopies', ~Settled'
                 PROVE  \E h : SumsTo(h, Len(req.grows))' /\ Vacant(h[Len(req.grows)])'
        BY <1>1 DEF RoomHeld
    <2>1. PICK h : SumsTo(h, Len(req.grows)) /\ Vacant(h[Len(req.grows)])
        BY TableSame DEF RoomyInv, RoomHeld
    <2> QED BY <2>1, TableSame
<1> QED BY <1>2, <1>3, RoomyExited

\* After planning a run keeps its plan until the table is written.
LEMMA RoomyStays ==
    ASSUME RoomyInv, UNCHANGED <<table, req, origin, done, todo, total, retried, resizes>>,
           pc \notin {"off", "classify", "allocate"}, pc' \notin {"off", "classify", "allocate"},
           pc' \in BeforeTableWrites => pc \in BeforeTableWrites
    PROVE  RoomyInv'
<1>1. UnmovedKept' /\ CopiedTogether'
    BY TableSame DEF RoomyInv, ResumeInv
<1>2. NothingQueued'
    BY TableSame DEF RoomyInv, ResumeInv, NothingQueued
<1>3. CutsOnce'
    BY CutSame DEF RoomyInv, ResumeInv, CutsOnce
<1>4. SumKnown'
    BY TableSame DEF RoomyInv, SumKnown
<1>5. RoomHeld'
    BY TableSame DEF RoomyInv, RoomHeld
<1> QED BY <1>1, <1>2, <1>3, <1>4, <1>5 DEF RoomyInv, ResumeInv, RoomKept, PlanRoom

LEMMA RoomyUntouched ==
    ASSUME RoomyInv, UNCHANGED <<table, req, origin, pc, locals>>
    PROVE  RoomyInv'
<1>1. UNCHANGED <<i, done, todo, total, retried, free, resizes>>
    BY DEF locals
<1>2. UnmovedKept' /\ CopiedTogether'
    BY TableSame DEF RoomyInv, ResumeInv
<1>3. NothingQueued'
    BY <1>1, TableSame DEF RoomyInv, ResumeInv, NothingQueued
<1>4. CutsOnce'
    BY <1>1, CutSame DEF RoomyInv, ResumeInv, CutsOnce
<1>5. SumKnown'
    BY <1>1, TableSame DEF RoomyInv, SumKnown
<1>6. RoomHeld'
    BY <1>1, TableSame DEF RoomyInv, RoomHeld
<1>7. RoomKept'
    BY <1>1, TableSame DEF RoomyInv, RoomKept, Sums, RoomFrom
<1>8. PlanRoom'
    BY <1>1, RoomFrame DEF RoomyInv, PlanRoom
<1> QED BY <1>2, <1>3, <1>4, <1>5, <1>6, <1>7, <1>8 DEF RoomyInv, ResumeInv
-----------------------------------------------------------------------------
\* Every size asked for is positive, as it is no less than there is.
LEMMA PositiveAsked ==
    ASSUME CallsInv, GrowthInv, SettlingInv, pc \notin {"off", "failed"}
    PROVE  AllPositive
<1> SUFFICES ASSUME NEW k \in DOMAIN req.grows PROVE req.grows[k].size > 0
    BY DEF AllPositive
<1>1. PICK g \in Ids : Matches(req.grows[k], Before(g))
    BY DEF SettlingInv, GrowsThere, AllNamed
<1>2. PICK p \in table : p.guid = g
    BY DEF CallsInv, IdentityInv, IdentityKept
<1>3. p.size <= req.grows[k].size
    BY <1>1, <1>2 DEF GrowthInv, SizesAsked, GrownBy
<1>4. p.size \in Nat \ {0} /\ req.grows[k].size \in Int
    BY TypeParts, SizeIsInt DEF CallsInv, StoreOK, TableOK, Entry
<1> QED BY <1>3, <1>4

\* A partition that planResizes finds too small is one that is to grow.
LEMMA ToGrow ==
    ASSUME SensibleCalls, CallsInv, GrowthInv, NEW p, Classifying(p), ~Satisfied(p)
    PROVE  /\ i \in DOMAIN req.grows /\ i \in 1 .. Len(req.grows) /\ pc = "classify" /\ pc' = "classify"
           /\ p \in table /\ p \in Chosen /\ Growing(i, p)
           /\ req.grows[i].size \in Int /\ p.size \in Nat \ {0} /\ p.size < req.grows[i].size
<1>1. TypeOK /\ StoreOK
    <2>1. pc = "classify"
        BY DEF Classifying
    <2> QED BY <2>1, TypeParts DEF CallsInv, TypeOK, StoreOK, TableOK, RunOK, LocalsTypeOK
<1>2. /\ i \in DOMAIN req.grows /\ p \in FirstMatch(table, req.grows[i])
      /\ pc = "classify" /\ pc' = "classify" /\ req.grows[i].size \in Int
    BY <1>1, NextGrow DEF Classifying
<1>3. p \in table /\ GrownBy(i, p)
    BY <1>2, GrowNames
<1>4. p \in Chosen
    BY <1>2, ChosenIs DEF Requested
<1>5. p.size \in Nat \ {0} /\ p.size <= req.grows[i].size /\ p.size # req.grows[i].size
    BY <1>1, <1>2, <1>3 DEF StoreOK, TableOK, Entry, GrowthInv, SizesAsked, Satisfied
<1>6. i \in 1 .. Len(req.grows)
    BY <1>1, <1>2 DEF Classifying, TypeOK, LocalsTypeOK
<1> QED BY <1>2, <1>3, <1>4, <1>5, <1>6 DEF Growing

\* It is queued if it has no copy, and then nothing has one.
LEMMA QueuedWithoutCopies ==
    ASSUME SensibleCalls, CallsInv, GrowthInv, CopiedTogether, NEW p, Classifying(p), ~Satisfied(p),
           LastNamed(table, Alternate(p.name)) = {}
    PROVE  NoCopies
<1> SUFFICES ASSUME ~NoCopies PROVE FALSE
    OBVIOUS
<1>1. p \in Chosen /\ Growing(i, p) /\ i \in DOMAIN req.grows /\ p \in table /\ pc = "classify"
    BY ToGrow
<1>2. PICK q \in table : q.name = Alternate(p.name)
    BY <1>1 DEF CopiedTogether, HasAlternate
<1>3. q.guid \notin Ids
    BY <1>1, <1>2, SensibleNames DEF LabelsApart
<1>4. \A x \in table : x.name = q.name => x = q
    BY <1>3 DEF CallsInv, IdentityInv, IdentityKept
<1>5. q.number \in Nat
    BY TypeParts DEF CallsInv, StoreOK, TableOK, Entry
<1>6. q \in LastNamed(table, Alternate(p.name))
    BY <1>2, <1>4, <1>5 DEF LastNamed
<1> QED BY <1>6

\* An item planned to grow has more than there is.
LEMMA CopyIsThere ==
    ASSUME SensibleCalls, CallsInv, GrowthInv, SettlingInv, NEW p, Classifying(p), ~Satisfied(p),
           NEW alt \in LastNamed(table, Alternate(p.name))
    PROVE  alt.guid \notin Ids /\ ~InPlace(Existing(p, alt)) /\ ~NoCopies
<1>1. /\ i \in DOMAIN req.grows /\ p \in Chosen /\ p \in table /\ Growing(i, p) /\ pc = "classify"
      /\ req.grows[i].size \in Int /\ p.size \in Nat \ {0} /\ p.size < req.grows[i].size
    BY ToGrow
<1>2. alt \in table /\ alt.name = Alternate(p.name) /\ alt.guid \notin Ids
    BY <1>1, SensibleNames DEF LastNamed, LabelsApart
<1>3. alt.size = req.grows[i].size
    BY <1>1, <1>2, CopyOfGrown DEF SettlingInv, Growing
<1> QED BY <1>1, <1>2, <1>3 DEF InPlace, Existing, Data, NoCopies

\* After the first shrink the space is found without another one.
LEMMA ShrinksOnce ==
    ASSUME CallsInv, GrowthInv, SettlingInv, RoomyInv, NoRoom, ~retried
    PROVE  ~WasShrunk /\ NoCopies /\ todo # <<>>
<1>1. /\ pc = "allocate" /\ i \in DOMAIN todo /\ todo[i] \in Item /\ todo \in Seq(Item)
      /\ i \in 1 .. Len(todo) /\ total \in Int /\ free \subseteq Int
    BY TypeParts DEF NoRoom, LayingOut, CallsInv, RunOK, LocalsTypeOK
<1>2. todo # <<>>
    BY <1>1
<1>3. NoCopies
    BY <1>1, <1>2 DEF RoomyInv, ResumeInv, NothingQueued, BeforeTableWrites
<1>4. FreeBounded
    BY <1>1, PositiveAsked DEF RoomyInv, PlanRoom, RoomInv
<1>5. ASSUME WasShrunk PROVE FALSE
    <2>1. PICK f : Sums(f, 0) /\ RoomFrom(total - f[i - 1])
        BY <1>1, <1>3, <1>5 DEF RoomyInv, RoomKept
    <2>2. /\ f[i] \in Int /\ f[i - 1] \in Int /\ f[i] <= total
          /\ todo[i].target.size > 0 /\ f[i] = f[i - 1] + todo[i].target.size
        <3>1. i \in 0 + 1 .. Len(todo) /\ i \in 0 .. Len(todo) /\ i - 1 \in 0 .. Len(todo)
            BY <1>1
        <3> QED BY <2>1, <3>1 DEF Sums
    <2>3. todo[i].target.size \in Int
        BY <1>1, ItemFields
    <2>4. total - f[i - 1] \in Int /\ 0 < todo[i].target.size /\ todo[i].target.size <= total - f[i - 1]
        BY <1>1, <2>2, <2>3
    <2>5. Fits(todo[i].target.size) # {}
        BY <1>1, <1>4, <2>1, <2>3, <2>4, RoomFits
    <2> QED BY <2>5 DEF NoRoom
<1> QED BY <1>2, <1>3, <1>5

LEMMA CutsPlanning ==
    ASSUME SensibleCalls, CallsInv, GrowthInv, SettlingInv, RoomyInv, Planning
    PROVE  NothingQueued' /\ CutsOnce'
<1>1. /\ Next /\ UNCHANGED <<table, req, origin>> /\ LocalsTypeOK /\ InStep /\ StoreOK
      /\ pc \in {"off", "classify", "allocate"} /\ pc' \in {"classify", "allocate", "planned", "failed"}
      /\ ApartInv
    BY NextFrame, TypeParts DEF CallsInv, Planning, environment, RunOK, ItemsCurrent, BeforeTableWrites
<1>2. /\ done \in Seq(Item) /\ todo \in Seq(Item) /\ resizes \in Seq(Item) /\ i \in Nat \ {0} /\ total \in Int
    BY <1>1 DEF LocalsTypeOK
<1>3. /\ \A k \in DOMAIN done : CutOnce(done[k])
      /\ pc \in {"classify", "allocate"} => \A k \in DOMAIN todo : CutOnce(todo[k])
      /\ \A k \in DOMAIN resizes : CutOnce(resizes[k])
    BY <1>1 DEF RoomyInv, ResumeInv, CutsOnce, BeforeTableWrites
<1>4. ~NoCopies => todo = <<>>
    BY <1>1 DEF RoomyInv, ResumeInv, NothingQueued, BeforeTableWrites
<1>5. CopiedTogether /\ (NoCopies' <=> NoCopies)
    BY <1>1, TableSame DEF RoomyInv, ResumeInv
<1> DEFINE Cut(item) ==
        InPlace(item) => \A p \in Original(item) :
            retried' /\ total' > 0 /\ p \in origin /\ item.target.size = p.size - RoundUp(total')
<1>6. \A item : ~InPlace(item) => Cut(item)
    OBVIOUS
<1>7. \A item : CutOnce(item) /\ total' = total /\ (retried => retried') => Cut(item)
    BY DEF CutOnce
<1>0. \A item : Cut(item) => CutOnce(item)'
    BY <1>1 DEF CutOnce, Original, InPlace, RoundUp, Gigabytes
<1> DEFINE goal ==
        /\ \A k \in DOMAIN done' : Cut(done'[k])
        /\ pc' \in {"classify", "allocate"} => \A k \in DOMAIN todo' : Cut(todo'[k])
        /\ \A k \in DOMAIN resizes' : Cut(resizes'[k])
        /\ ~NoCopies => todo' = <<>>
<1> HIDE DEF Cut
<1> SUFFICES goal
    BY <1>0, <1>5 DEF NothingQueued, CutsOnce
<1>8. CASE Discover \/ NotDiscovered
    <2>1. UNCHANGED <<done, todo, resizes, total, retried>> /\ todo = <<>>
        BY <1>8 DEF Discover, NotDiscovered, locals, CallsInv, ApartInv, NothingHeld, InitLocals
    <2> QED BY <1>3, <1>7, <2>1
<1>9. CASE SkipSatisfied \/ NothingPending \/ LayoutComplete \/ InsufficientSpace
    <2>1. UNCHANGED <<done, todo, resizes, total, retried>> /\ pc \in {"classify", "allocate"}
        BY <1>9 DEF SkipSatisfied, Classifying, NothingPending, LayoutComplete, InsufficientSpace, GiveUp,
            NoRoom, LayingOut, locals
    <2> QED BY <1>3, <1>4, <1>7, <2>1
<1>10. CASE ReuseRelocated
    <2>1. PICK p \in table : \E alt \in LastNamed(table, Alternate(p.name)) :
            /\ Classifying(p) /\ ~Satisfied(p) /\ done' = Append(done, Existing(p, alt))
            /\ UNCHANGED <<todo, total>>
        BY <1>10 DEF ReuseRelocated
    <2>2. PICK alt \in LastNamed(table, Alternate(p.name)) : done' = Append(done, Existing(p, alt))
        BY <2>1
    <2>3. ~InPlace(Existing(p, alt)) /\ pc = "classify" /\ UNCHANGED <<resizes, retried>>
        BY <2>1, <2>2, CopyIsThere DEF Classifying
    <2> HIDE DEF goal
    <2>4. \A k \in DOMAIN done' : Cut(done'[k])
        BY <1>2, <1>3, <1>6, <1>7, <2>1, <2>2, <2>3, AppendedAll
    <2> QED BY <1>3, <1>4, <1>7, <2>1, <2>3, <2>4 DEF goal
<1>11. CASE QueuePending
    <2>1. PICK p \in table :
            /\ Classifying(p) /\ ~Satisfied(p) /\ LastNamed(table, Alternate(p.name)) = {}
            /\ todo' = Append(todo, Pending(p, req.grows[i].size)) /\ UNCHANGED done
        BY <1>11 DEF QueuePending
    <2>2. NoCopies
        BY <1>5, <2>1, QueuedWithoutCopies
    <2>3. /\ pc = "classify" /\ UNCHANGED <<resizes, retried>>
          /\ ~InPlace(Pending(p, req.grows[i].size))
        BY <2>1, ToGrow DEF Classifying, InPlace, Pending, Data
    <2>4. ASSUME NEW item, CutOnce(item) PROVE Cut(item)
        <3>1. ~retried
            BY <1>1, <2>3 DEF ApartInv, ItemsRequested
        <3> QED BY <2>4, <3>1 DEF CutOnce, Cut
    <2> HIDE DEF goal
    <2>5. \A k \in DOMAIN todo' : Cut(todo'[k])
        BY <1>2, <1>3, <1>6, <2>1, <2>3, <2>4, AppendedAll
    <2> QED BY <1>3, <2>1, <2>2, <2>3, <2>4, <2>5 DEF goal
<1>12. CASE FirstAttempt
    <2>1. UNCHANGED <<done, todo, total, retried>> /\ resizes' = <<>> /\ pc = "classify"
        BY <1>12 DEF FirstAttempt, BeginLayout
    <2> QED BY <1>3, <1>4, <1>7, <2>1
<1>13. CASE LayOutShrink \/ LayOutGrow
    <2>1. PICK start, number : Settle(start, number)
        BY <1>13 DEF LayOutShrink, LayOutGrow, GiveSpace
    <2> DEFINE e == [todo[i] EXCEPT !.target = [number |-> number, start |-> start, size |-> @.size]]
    <2>2. /\ UNCHANGED <<done, todo, total, retried>> /\ resizes' = Append(resizes, e) /\ pc = "allocate"
          /\ i \in DOMAIN todo
        BY <1>1, <1>13, <2>1 DEF Settle, LayOutShrink, LayOutGrow, LayingOut, LocalsTypeOK
    <2>3. todo[i] \in Item
        BY <1>2, <2>2
    <2>4. e.original = todo[i].original /\ e.target.size = todo[i].target.size
        BY <2>3 DEF Item, Target
    <2> HIDE DEF e, goal
    <2>5. CutOnce(todo[i])
        BY <1>3, <2>2
    <2>6. CutOnce(e)
        BY <2>4, <2>5 DEF CutOnce, InPlace, Original
    <2>7. \A k \in DOMAIN resizes' : Cut(resizes'[k])
        BY <1>2, <1>3, <1>7, <2>2, <2>6, AppendedAll
    <2> QED BY <1>3, <1>4, <1>7, <2>2, <2>7 DEF goal
<1>14. CASE RetryWithShrink
    <2>1. PICK p \in FirstMatch(table, req.shrink) : BeginLayout(<<ShrinkItem(p)>> \o todo)
        BY <1>14 DEF RetryWithShrink, Retry
    <2>2. /\ req.shrink # NoShrink /\ pc = "allocate" /\ UNCHANGED <<done, total>> /\ resizes' = <<>>
          /\ todo' = <<ShrinkItem(p)>> \o todo /\ retried' /\ ~retried
        BY <1>14, <2>1 DEF RetryWithShrink, Retry, NoRoom, LayingOut, BeginLayout
    <2>3. p \in table /\ Offered(p)
        BY <2>2, OfferNames
    <2>4. ~WasShrunk /\ NoCopies /\ todo # <<>>
        BY <1>14, <2>2, ShrinksOnce DEF RetryWithShrink
    <2>5. total > 0
        BY <2>2, <2>4 DEF SettlingInv, TotalPositive
    <2>6. Cut(ShrinkItem(p))
        <3> SUFFICES ASSUME NEW q \in table, q.number = p.number
                     PROVE  /\ retried' /\ total' > 0 /\ q \in origin
                            /\ p.size - RoundUp(total) = q.size - RoundUp(total')
            BY DEF Cut, Original, ShrinkItem, Data
        <3>1. q = p
            BY <1>1, <2>3, ApartSlots DEF SlotsDistinct
        <3>2. p \in origin
            BY <2>3, <2>4 DEF WasShrunk
        <3> QED BY <2>2, <2>5, <3>1, <3>2
    <2>7. \A k \in DOMAIN todo' : todo'[k] = ShrinkItem(p) \/ \E m \in DOMAIN todo : todo'[k] = todo[m]
        <3> SUFFICES ASSUME NEW k \in 1 .. Len(todo) + 1
                     PROVE  todo'[k] = ShrinkItem(p) \/ \E m \in DOMAIN todo : todo'[k] = todo[m]
            BY <1>2, <2>2
        <3>1. CASE k = 1
            BY <1>2, <2>2, <3>1
        <3>2. CASE k # 1
            <4>1. k - 1 \in DOMAIN todo /\ todo'[k] = todo[k - 1]
                BY <1>2, <2>2, <3>2
            <4> QED BY <4>1
        <3> QED BY <3>1, <3>2
    <2> HIDE DEF goal
    <2>8. \A k \in DOMAIN todo' : Cut(todo'[k])
        BY <1>3, <1>7, <2>2, <2>6, <2>7
    <2> QED BY <1>3, <1>7, <2>2, <2>4, <2>8 DEF goal
<1> QED BY <1>1, <1>8, <1>9, <1>10, <1>11, <1>12, <1>13, <1>14 DEF Next

\* One more share of the sum.
LEMMA SumExtends ==
    ASSUME NEW n \in Nat, NEW h, SumsTo(h, n), NEW share \in Int, Share(n + 1) = share
    PROVE  \E g : SumsTo(g, n + 1) /\ g[n + 1] = h[n] + share
<1>1. /\ h \in [0 .. n -> Int] /\ h[0] = 0 /\ n \in 0 .. n /\ 0 \in 0 .. n
      /\ \A k \in 1 .. n : h[k] = h[k - 1] + Share(k)
    BY DEF SumsTo
<1>2. PICK g : g = [k \in 0 .. n + 1 |-> IF k <= n THEN h[k] ELSE h[n] + share]
    OBVIOUS
<1>3. /\ g \in [0 .. n + 1 -> Int] /\ g[n + 1] = h[n] + share /\ g[0] = 0
      /\ \A k \in 0 .. n : g[k] = h[k]
    BY <1>1, <1>2
<1>4. ASSUME NEW k \in 1 .. n + 1 PROVE g[k] = g[k - 1] + Share(k)
    <2>1. CASE k = n + 1
        <3>1. k - 1 = n
            BY <2>1
        <3> QED BY <1>1, <1>3, <2>1, <3>1
    <2>2. CASE k # n + 1
        <3>1. k \in 1 .. n /\ k \in 0 .. n /\ k - 1 \in 0 .. n
            BY <2>2
        <3> QED BY <1>1, <1>3, <3>1
    <2> QED BY <2>1, <2>2
<1> QED BY <1>3, <1>4 DEF SumsTo

\* What the step of a grow adds to the sum is its share.
LEMMA ShareSkipped ==
    ASSUME SensibleCalls, CallsInv, NEW p, Classifying(p), Satisfied(p)
    PROVE  Share(i) = 0 /\ i \in 1 .. Len(req.grows)
<1>1. TypeOK /\ StoreOK
    <2>1. pc = "classify"
        BY DEF Classifying
    <2> QED BY <2>1, TypeParts DEF CallsInv, TypeOK, StoreOK, TableOK, RunOK, LocalsTypeOK
<1>2. i \in DOMAIN req.grows /\ p \in FirstMatch(table, req.grows[i]) /\ req.grows[i].size \in Int
    BY <1>1, NextGrow DEF Classifying
<1>3. p \in table /\ GrownBy(i, p) /\ p.size = req.grows[i].size
    BY <1>2, GrowNames DEF Satisfied
<1>4. ASSUME NEW q \in table, Growing(i, q) PROVE FALSE
    <2>1. q = p
        BY <1>2, <1>3, <1>4, GrownOnce DEF Growing
    <2> QED BY <1>2, <1>3, <1>4, <2>1 DEF Growing
<1>5. i \in 1 .. Len(req.grows)
    BY <1>1 DEF Classifying, TypeOK, LocalsTypeOK
<1> QED BY <1>4, <1>5 DEF Share

LEMMA SumsPlanning ==
    ASSUME SensibleCalls, CallsInv, GrowthInv, SettlingInv, RoomyInv, Planning
    PROVE  SumKnown' /\ RoomHeld'
<1>1. /\ Next /\ UNCHANGED <<table, req, origin>> /\ LocalsTypeOK /\ StoreOK
      /\ pc \in {"off", "classify", "allocate"} /\ pc' \in {"classify", "allocate", "planned", "failed"}
    BY NextFrame, TypeParts DEF CallsInv, Planning, environment, RunOK
<1>2. /\ total \in Int /\ i \in Nat \ {0} /\ req.grows \in Seq(Change)
    BY <1>1, RequestAssumption DEF LocalsTypeOK, StoreOK, Request
<1>3. PICK n \in Nat : n = Len(req.grows)
    BY <1>2
<1>4. NoCopies =>
        /\ pc = "classify" => i <= n + 1 /\ \E h : SumsTo(h, i - 1) /\ h[i - 1] = total
        /\ pc = "allocate" => \E h : SumsTo(h, n) /\ h[n] = total
    BY <1>3 DEF RoomyInv, SumKnown, BeforeTableWrites
<1>5. WasShrunk /\ NoCopies /\ ~Settled =>
        \E h : SumsTo(h, n) /\ Vacant(h[n]) /\ (pc = "classify" => total = h[i - 1])
    BY <1>3 DEF RoomyInv, RoomHeld
<1> DEFINE known ==
        NoCopies =>
            /\ pc' = "classify" => i' <= n + 1 /\ \E h : SumsTo(h, i' - 1) /\ h[i' - 1] = total'
            /\ pc' \in {"allocate", "planned"} => \E h : SumsTo(h, n) /\ h[n] = total'
        held ==
        WasShrunk /\ NoCopies /\ ~Settled =>
            \E h : SumsTo(h, n) /\ Vacant(h[n]) /\ (pc' = "classify" => total' = h[i' - 1])
<1>6. ASSUME known, held PROVE SumKnown' /\ RoomHeld'
    <2>1. /\ NoCopies' <=> NoCopies
          /\ WasShrunk' <=> WasShrunk
          /\ Settled' <=> Settled
          /\ \A h, m : SumsTo(h, m)' <=> SumsTo(h, m)
          /\ \A m : Vacant(m)' <=> Vacant(m)
        BY <1>1, TableSame
    <2>2. req' = req /\ Len(req.grows) = n
        BY <1>1, <1>3
    <2>3. ASSUME NoCopies', pc' = "classify"
          PROVE  i' <= Len(req'.grows) + 1 /\ \E h : SumsTo(h, i - 1)' /\ h[i' - 1] = total'
        <3>1. PICK h : SumsTo(h, i' - 1) /\ h[i' - 1] = total' /\ i' <= n + 1
            BY <1>6, <2>1, <2>3
        <3>2. SumsTo(h, i - 1)'
            BY <2>1, <3>1
        <3> QED BY <2>2, <3>1, <3>2
    <2>4. ASSUME NoCopies', pc' \in BeforeTableWrites \ {"off", "classify"}
          PROVE  \E h : SumsTo(h, Len(req.grows))' /\ h[Len(req'.grows)] = total'
        <3>1. PICK h : SumsTo(h, n) /\ h[n] = total'
            BY <1>1, <1>6, <2>1, <2>4 DEF BeforeTableWrites
        <3>2. SumsTo(h, Len(req.grows))'
            BY <2>1, <2>2, <3>1
        <3> QED BY <2>2, <3>1, <3>2
    <2>5. ASSUME WasShrunk', NoCopies', ~Settled'
          PROVE  \E h : /\ SumsTo(h, Len(req.grows))' /\ Vacant(h[Len(req.grows)])'
                        /\ pc' = "classify" => total' = h[i' - 1]
        <3>1. PICK h : SumsTo(h, n) /\ Vacant(h[n]) /\ (pc' = "classify" => total' = h[i' - 1])
            BY <1>6, <2>1, <2>5
        <3> QED BY <2>1, <2>2, <3>1
    <2> QED BY <2>3, <2>4, <2>5 DEF SumKnown, RoomHeld
<1> SUFFICES known /\ held
    BY <1>6
<1> HIDE DEF known, held
<1>7. CASE pc' = "failed"
    <2>1. known
        BY <1>7 DEF known
    <2>2. held
        BY <1>5, <1>7 DEF held
    <2> QED BY <2>1, <2>2
<1>8. CASE Discover
    <2>1. i' = 1 /\ total' = 0 /\ pc' = "classify"
        BY <1>8 DEF Discover, locals, CallsInv, ApartInv, NothingHeld, InitLocals
    <2>2. PICK h : h = [k \in 0 .. 0 |-> 0]
        OBVIOUS
    <2>3. SumsTo(h, 0) /\ h[0] = 0
        BY <2>2 DEF SumsTo
    <2>4. known
        <3>1. SumsTo(h, i' - 1) /\ h[i' - 1] = total' /\ i' <= n + 1
            BY <2>1, <2>3
        <3> QED BY <2>1, <3>1 DEF known
    <2>5. held
        <3> SUFFICES ASSUME WasShrunk, NoCopies, ~Settled
                     PROVE  \E g : SumsTo(g, n) /\ Vacant(g[n]) /\ total' = g[i' - 1]
            BY DEF held
        <3>1. PICK g : SumsTo(g, n) /\ Vacant(g[n])
            BY <1>5
        <3>2. total' = g[i' - 1]
            BY <2>1, <3>1 DEF SumsTo
        <3> QED BY <3>1, <3>2
    <2> QED BY <2>4, <2>5
<1>9. CASE SkipSatisfied \/ QueuePending
    <2>1. PICK share \in Int :
            /\ i \in 1 .. n /\ pc = "classify" /\ pc' = "classify" /\ i' = i + 1
            /\ Share(i) = share /\ total' = total + share
        <3>1. CASE SkipSatisfied
            <4>1. PICK p \in table : Classifying(p) /\ Satisfied(p) /\ total' = total
                BY <3>1 DEF SkipSatisfied
            <4>2. Share(i) = 0 /\ i \in 1 .. n
                BY <1>3, <4>1, ShareSkipped
            <4> QED BY <1>2, <4>1, <4>2 DEF Classifying
        <3>2. CASE QueuePending
            <4>1. PICK p \in table : Classifying(p) /\ ~Satisfied(p) /\ total' = total + req.grows[i].size
                BY <3>2 DEF QueuePending
            <4>2. /\ i \in 1 .. n /\ pc = "classify" /\ pc' = "classify" /\ Growing(i, p) /\ req.grows[i].size \in Int
                BY <1>3, <4>1, ToGrow
            <4>3. Share(i) = req.grows[i].size
                BY <4>2 DEF Share
            <4> QED BY <4>1, <4>2, <4>3 DEF Classifying
        <3> QED BY <1>9, <3>1, <3>2
    <2>2. known
        <3> SUFFICES ASSUME NoCopies PROVE i' <= n + 1 /\ \E h : SumsTo(h, i' - 1) /\ h[i' - 1] = total'
            BY <2>1 DEF known
        <3>1. PICK h : SumsTo(h, i - 1) /\ h[i - 1] = total
            BY <1>4, <2>1
        <3>2. PICK m \in Nat : m = i - 1 /\ i = m + 1 /\ i' - 1 = m + 1 /\ i' <= n + 1
            BY <1>2, <2>1
        <3>3. PICK g : SumsTo(g, m + 1) /\ g[m + 1] = h[m] + share
            BY <2>1, <3>1, <3>2, SumExtends
        <3> QED BY <2>1, <3>1, <3>2, <3>3
    <2>3. held
        <3> SUFFICES ASSUME WasShrunk, NoCopies, ~Settled
                     PROVE  \E h : SumsTo(h, n) /\ Vacant(h[n]) /\ total' = h[i' - 1]
            BY DEF held
        <3>1. PICK h : SumsTo(h, n) /\ Vacant(h[n]) /\ total = h[i - 1]
            BY <1>5, <2>1
        <3>2. h[i] = h[i - 1] + Share(i) /\ i' - 1 = i
            BY <2>1, <3>1 DEF SumsTo
        <3> QED BY <2>1, <3>1, <3>2
    <2> QED BY <2>2, <2>3
<1>10. CASE ReuseRelocated
    <2>1. ~NoCopies
        BY <1>10, CopyIsThere DEF ReuseRelocated
    <2> QED BY <2>1 DEF known, held
<1>11. CASE NothingPending \/ FirstAttempt
    <2>1. total' = total /\ pc = "classify" /\ pc' \in {"allocate", "planned"} /\ i > n
        BY <1>3, <1>11 DEF NothingPending, FirstAttempt, BeginLayout, locals
    <2>2. known
        <3> SUFFICES ASSUME NoCopies PROVE \E h : SumsTo(h, n) /\ h[n] = total'
            BY <2>1 DEF known
        <3>1. PICK h : SumsTo(h, i - 1) /\ h[i - 1] = total /\ i <= n + 1
            BY <1>4, <2>1
        <3>2. i - 1 = n
            BY <1>2, <2>1, <3>1
        <3> QED BY <2>1, <3>1, <3>2
    <2>3. held
        BY <1>5, <2>1 DEF held
    <2> QED BY <2>2, <2>3
<1>12. CASE LayOutShrink \/ LayOutGrow \/ LayoutComplete \/ RetryWithShrink
    <2>1. total' = total /\ pc = "allocate" /\ pc' \in {"allocate", "planned"}
        BY <1>12 DEF LayOutShrink, LayOutGrow, GiveSpace, Settle, LayingOut, LayoutComplete, RetryWithShrink, Retry,
            NoRoom, BeginLayout, locals
    <2>2. known
        BY <1>4, <2>1 DEF known
    <2>3. held
        BY <1>5, <2>1 DEF held
    <2> QED BY <2>2, <2>3
<1>13. NotDiscovered \/ InsufficientSpace => pc' = "failed"
    BY DEF NotDiscovered, InsufficientSpace, GiveUp
<1> QED BY <1>1, <1>7, <1>8, <1>9, <1>10, <1>11, <1>12, <1>13 DEF Next

LEMMA KeptPlanning ==
    ASSUME SensibleCalls, CallsInv, GrowthInv, SettlingInv, RoomyInv, Planning
    PROVE  RoomKept'
<1>1. /\ Next /\ UNCHANGED <<table, req, origin>> /\ LocalsTypeOK /\ StoreOK /\ InStep
      /\ pc \in {"off", "classify", "allocate"}
    BY NextFrame, TypeParts DEF CallsInv, Planning, environment, RunOK, ItemsCurrent, BeforeTableWrites
<1>2. /\ total \in Int /\ i \in Nat \ {0} /\ todo \in Seq(Item) /\ free \subseteq Int
    BY <1>1 DEF LocalsTypeOK
<1>3. /\ NoCopies' <=> NoCopies
      /\ WasShrunk' <=> WasShrunk
    BY <1>1, TableSame
<1> SUFFICES ASSUME pc' = "allocate", ~retried', WasShrunk, NoCopies
             PROVE  \E f : Sums(f, 0)' /\ RoomFrom(total - f[i - 1])'
    BY <1>3 DEF RoomKept
<1>4. CASE FirstAttempt
    <2>1. /\ pc = "classify" /\ i > Len(req.grows) /\ todo # <<>> /\ ~retried
          /\ UNCHANGED <<todo, total>> /\ i' = 1 /\ free' = FreeBytes
        BY <1>4 DEF FirstAttempt, BeginLayout, FreeBytes
    <2>2. ~Settled
        BY <2>1 DEF SettlingInv, SettledIdle
    <2>3. PICK h : Vacant(h[Len(req.grows)]) /\ total = h[i - 1]
        BY <2>1, <2>2 DEF RoomyInv, RoomHeld
    <2>4. i - 1 = Len(req.grows)
        <3>1. i <= Len(req.grows) + 1 /\ Len(req.grows) \in Nat
            BY <1>1, <2>1, RequestAssumption DEF RoomyInv, SumKnown, StoreOK, Request
        <3> QED BY <1>2, <2>1, <3>1
    <2>5. PICK s \in Int : Bytes(s, total) \subseteq free'
        BY <2>1, <2>3, <2>4 DEF Vacant
    <2>6. PICK f : Sums(f, 0)
        BY <2>1, PositiveAsked DEF RoomyInv, PlanRoom, RoomInv
    <2>7. total' - f[i' - 1] = total
        BY <1>2, <2>1, <2>6 DEF Sums
    <2>8. Bytes(s, total' - f[i' - 1]) \subseteq free'
        BY <2>5, <2>7
    <2>9. Sums(f, 0)'
        BY <2>1, <2>6 DEF Sums
    <2> QED BY <2>8, <2>9 DEF RoomFrom
<1>5. CASE LayOutShrink
    <2>1. i \in DOMAIN todo /\ InPlace(todo[i]) /\ pc = "allocate" /\ retried' = retried
        BY <1>2, <1>5 DEF LayOutShrink, LayingOut, Settle
    <2>2. PICK p \in table : todo[i].original = Data(p)
        BY <1>1, <2>1 DEF InStep
    <2>3. p \in Original(todo[i])
        BY <2>2 DEF Original, Data
    <2> QED BY <2>1, <2>3 DEF RoomyInv, ResumeInv, CutsOnce, CutOnce, BeforeTableWrites
<1>6. CASE LayOutGrow
    <2>1. PICK start \in Fits(todo[i].target.size) : GiveSpace(start)
        BY <1>6 DEF LayOutGrow
    <2>2. /\ pc = "allocate" /\ i \in 1 .. Len(todo) /\ ~retried /\ UNCHANGED <<todo, total>> /\ i' = i + 1
          /\ free' = free \ Bytes(start, todo[i].target.size)
        BY <1>2, <1>6, <2>1 DEF LayOutGrow, LayingOut, GiveSpace, Settle
    <2>3. PICK f : Sums(f, 0) /\ RoomFrom(total - f[i - 1])
        BY <2>2 DEF RoomyInv, RoomKept
    <2>4. /\ f[i] \in Int /\ f[i - 1] \in Int /\ f[i] <= total
          /\ todo[i].target.size > 0 /\ f[i] = f[i - 1] + todo[i].target.size
        <3>1. i \in 0 + 1 .. Len(todo) /\ i \in 0 .. Len(todo) /\ i - 1 \in 0 .. Len(todo)
            BY <2>2
        <3> QED BY <2>3, <3>1 DEF Sums
    <2>5. todo[i] \in Item /\ todo[i].target.size \in Int
        BY <1>2, <2>2, ItemFields
    <2>6. total \in Int
        BY <1>2
    <2>7. PICK n \in Int, size \in Int, a \in Int, b \in Int :
            /\ n = total - a /\ size = todo[i].target.size /\ a = f[i - 1] /\ b = f[i]
            /\ b = a + size /\ size > 0 /\ b <= total
        <3>1. /\ total - f[i - 1] \in Int /\ f[i - 1] \in Int /\ f[i] \in Int
              /\ todo[i].target.size \in Int
            BY <2>4, <2>5, <2>6
        <3> QED BY <2>4, <3>1
    <2>8. 0 < size /\ size <= n /\ n - size = total - b
        BY <2>6, <2>7
    <2>9. RoomFrom(n - size)'
        BY <1>2, <2>1, <2>2, <2>3, <2>7, <2>8, RoomLeft
    <2>10. PICK s \in Int : Bytes(s, n - size) \subseteq free'
        BY <2>9 DEF RoomFrom
    <2>11. total' - f[i' - 1] = n - size
        <3>1. i' - 1 = i /\ total' = total
            BY <1>2, <2>2
        <3> QED BY <2>7, <2>8, <3>1
    <2>12. Bytes(s, total' - f[i' - 1]) \subseteq free'
        BY <2>10, <2>11
    <2>13. Sums(f, 0)'
        BY <2>2, <2>3 DEF Sums
    <2> QED BY <2>12, <2>13 DEF RoomFrom
<1>7. ~RetryWithShrink
    BY DEF RetryWithShrink, Retry
<1>8. ~(\/ Discover \/ NotDiscovered \/ SkipSatisfied \/ ReuseRelocated \/ QueuePending \/ NothingPending
        \/ LayoutComplete \/ InsufficientSpace)
    BY DEF Discover, NotDiscovered, SkipSatisfied, ReuseRelocated, QueuePending, Classifying, NothingPending,
        LayoutComplete, InsufficientSpace, GiveUp
<1> QED BY <1>1, <1>4, <1>5, <1>6, <1>7, <1>8 DEF Next

LEMMA RoomyPlanning ==
    ASSUME SensibleCalls, CallsInv, GrowthInv, SettlingInv, RoomyInv, Planning
    PROVE  RoomyInv'
<1>1. /\ Next /\ UNCHANGED <<table, req, origin>> /\ pc \in {"off", "classify", "allocate"}
    BY NextFrame DEF Planning, environment
<1>2. TypeOK /\ RoomInv
    BY <1>1, TypeParts DEF CallsInv, TypeOK, StoreOK, TableOK, RunOK, RoomyInv, PlanRoom
<1>3. RoomInv'
    BY <1>1, <1>2, RoomNext
<1>4. UnmovedKept' /\ CopiedTogether'
    BY <1>1, TableSame DEF RoomyInv, ResumeInv
<1> QED BY <1>3, <1>4, CutsPlanning, SumsPlanning, KeptPlanning DEF RoomyInv, ResumeInv, PlanRoom
-----------------------------------------------------------------------------
\* The partition offered is one.
LEMMA OfferedOnce ==
    ASSUME SensibleCalls, CallsInv, NEW p \in table, NEW q \in table, Offered(p), Offered(q)
    PROVE  p = q
<1> DEFINE named == UNION {Named(x, origin) : x \in Asked(req)}
<1>1. Sensible(req, origin) /\ req.shrink \in Asked(req) /\ SoundTable(origin, DiskSize)
    BY LayoutAssumption DEF SensibleCalls, CallsInv, TypeInv, DiskTypeOK, Asked, Offered
<1>2. ASSUME NEW x \in table, Offered(x)
      PROVE  /\ Before(x.guid) \in Named(req.shrink, origin) /\ Before(x.guid) \in named
             /\ Before(x.guid) \in origin /\ Before(x.guid).guid = x.guid
    BY <1>1, <1>2, NamedAsBefore DEF CallsInv, Offered, Named
<1>3. Before(p.guid) = Before(q.guid)
    <2>1. PICK b, c : b = Before(p.guid) /\ c = Before(q.guid)
        OBVIOUS
    <2>2. b \in named /\ c \in named /\ b \in origin /\ c \in origin
          /\ Matches(req.shrink, b) /\ Matches(req.shrink, c)
        BY <1>2, <2>1 DEF Named
    <2>3. b.name = c.name \/ b.number = c.number \/ b.guid = c.guid
        BY <2>2 DEF Matches
    <2> QED BY <1>1, <2>1, <2>2, <2>3 DEF Sensible, SoundTable
<1> QED BY <1>2, <1>3 DEF CallsInv, ApartInv, SoundTable

LEMMA RoomStillHeld ==
    ASSUME RoomHeld, UNCHANGED <<table, req, origin>>, pc' # "classify"
    PROVE  RoomHeld'
<1> SUFFICES ASSUME WasShrunk', NoCopies', ~Settled'
             PROVE  \E h : SumsTo(h, Len(req.grows))' /\ Vacant(h[Len(req.grows)])'
    BY DEF RoomHeld
<1>1. PICK h : SumsTo(h, Len(req.grows)) /\ Vacant(h[Len(req.grows)])
    BY TableSame DEF RoomHeld
<1> QED BY <1>1, TableSame

\* After a table write the plan is only carried out.
LEMMA RoomyWritten ==
    ASSUME Exit \/ pc' \in {"createPartitions", "copyFilesystems"},
           UnmovedKept', CopiedTogether', RoomHeld'
    PROVE  RoomyInv'
<1>1. CASE Exit
    BY <1>1, RoomyExited
<1>2. CASE pc' \in {"createPartitions", "copyFilesystems"}
    BY <1>2 DEF RoomyInv, ResumeInv, NothingQueued, CutsOnce, SumKnown, RoomKept, PlanRoom, BeforeTableWrites
<1> QED BY <1>1, <1>2

\* An entry is cut for all that the grows need.
LEMMA CutForAll ==
    ASSUME SensibleCalls, CallsInv, SettlingInv, RoomyInv, pc = "shrinkPartitions",
           NEW p \in table, Shrinks(p) # {}
    PROVE  /\ Offered(p) /\ p \in origin /\ total > 0 /\ total \in Int
           /\ ShrunkEntry(p) = [p EXCEPT !.size = Align(p.size - RoundUp(total))]
<1>1. PICK k \in Shrinks(p) : TRUE
    OBVIOUS
<1>2. LocalsTypeOK /\ k \in DOMAIN Plan /\ InPlace(Plan[k]) /\ p \in Original(Plan[k])
    BY <1>1, TypeParts DEF CallsInv, RunOK, Shrinks, Original
<1>3. Exact(Plan[k]) /\ CutOnce(Plan[k])
    <2>1. \A m \in DOMAIN done : Exact(done[m]) /\ CutOnce(done[m])
        BY DEF SettlingInv, ItemsExact, RoomyInv, ResumeInv, CutsOnce, BeforeTableWrites
    <2>2. \A m \in DOMAIN resizes : Exact(resizes[m]) /\ CutOnce(resizes[m])
        BY DEF SettlingInv, ItemsExact, RoomyInv, ResumeInv, CutsOnce, BeforeTableWrites
    <2> QED BY <1>2, <2>1, <2>2, PlanParts
<1>4. Offered(p) /\ total > 0 /\ p \in origin /\ Plan[k].target.size = p.size - RoundUp(total)
    BY <1>2, <1>3 DEF Exact, CutOnce
<1>5. ShrunkEntry(p) = [p EXCEPT !.size = Align(Plan[k].target.size)]
    BY <1>1, OneShrink DEF CallsInv
<1> QED BY <1>2, <1>4, <1>5 DEF LocalsTypeOK

\* What it gives up is enough for all of it.
LEMMA CutIsRoom ==
    ASSUME SensibleCalls, CallsInv, SettlingInv, RoomyInv, ShrinkPartitions,
           NEW p \in table, Shrinks(p) # {}, NEW n, n = total
    PROVE  Vacant(n)'
<1>1. /\ pc = "shrinkPartitions" /\ table' = {ShrunkEntry(q) : q \in table} /\ TypeInv /\ ApartInv /\ StoreOK
    BY ShrinkWrites, TypeParts DEF ShrinkPartitions, CallsInv
<1>2. /\ Offered(p) /\ total > 0 /\ total \in Int
      /\ ShrunkEntry(p) = [p EXCEPT !.size = Align(p.size - RoundUp(total))]
    BY <1>1, CutForAll
<1>3. PICK e : e = ShrunkEntry(p)
    OBVIOUS
<1>4. /\ e.size \in Nat \ {0} /\ p.size \in Nat \ {0} /\ p.start \in Nat /\ p.start + p.size <= DiskSize
      /\ DiskSize \in Nat /\ e.start = p.start /\ RoundUp(total) \in Int
    <2>1. e \in Entry /\ e.start = p.start
        BY <1>1, <1>3, ApartSlots, ShrunkEntryIs, ShrunkFits
    <2>2. RoundUp(total) \in Int
        <3>1. GB \in Nat /\ GB > 0
            BY SizeAssumption
        <3>2. Gigabytes(total) \in Int
            <4>1. total \div GB \in Int
                BY <1>2, <3>1
            <4> QED BY <1>2, <4>1 DEF Gigabytes
        <3> QED BY <1>2, <3>1, <3>2 DEF RoundUp
    <2> QED BY <1>1, <2>1, <2>2, EntryBytes, SizeAssumption DEF StoreOK, Entry
<1>5. e.size + total <= p.size
    <2>1. RoundUp(total) >= total
        BY <1>2, RoundUpBounds
    <2>2. p.size - RoundUp(total) \in Int
        BY <1>4
    <2>3. e.size = Align(p.size - RoundUp(total))
        BY <1>1, <1>2, <1>3, EntryBytes DEF StoreOK, Entry
    <2>4. e.size <= p.size - RoundUp(total)
        BY <2>2, <2>3, AlignBounds
    <2> QED BY <1>2, <1>4, <2>1, <2>4
<1>6. PICK s \in Int : s = p.start + e.size
    BY <1>4
<1>7. Bytes(s, total) \subseteq 1 .. DiskSize - 1 /\ Bytes(s, total) \subseteq Extent(p) \ Extent(e)
    BY <1>2, <1>4, <1>5, <1>6 DEF Bytes, Extent
<1>8. ASSUME NEW q \in table PROVE Bytes(s, total) \cap Extent(ShrunkEntry(q)) = {}
    <2>1. CASE q = p
        BY <1>3, <1>7, <2>1
    <2>2. CASE q # p
        <3>1. Extent(ShrunkEntry(q)) \subseteq Extent(q)
            BY <1>1, ShrunkFits DEF Remaining
        <3>2. Extent(q) \cap Extent(p) = {}
            BY <1>1, <2>2 DEF ApartInv, SoundTable
        <3> QED BY <1>7, <3>1, <3>2
    <2> QED BY <2>1, <2>2
<1>9. Bytes(s, total) \subseteq FreeBytes'
    BY <1>1, <1>7, <1>8 DEF FreeBytes
<1> QED BY <1>9 DEF Vacant

\* Shrinking the partition offered makes room for all that is to grow, for this
\* run and every later one.
LEMMA RoomyShrinkPartitions ==
    ASSUME SensibleCalls, CallsInv, GrowthInv, SettlingInv, RoomyInv, ShrinkPartitions
    PROVE  RoomyInv'
<1>1. /\ pc = "shrinkPartitions" /\ UNCHANGED <<req, origin>> /\ table' = {ShrunkEntry(p) : p \in table}
      /\ StoreOK /\ TypeInv /\ ApartInv
      /\ Exit \/ pc' \in {"createPartitions", "copyFilesystems"}
    BY ShrinkWrites, TypeParts DEF ShrinkPartitions, Commit, Restart, environment, CallsInv
<1>2. \A p \in table : ShrunkEntry(p).guid = p.guid /\ ShrunkEntry(p).name = p.name
    BY <1>1, ShrunkFits
<1>3. Ids' = Ids /\ (NoCopies' <=> NoCopies)
    <2>1. Ids' = Ids
        BY <1>1 DEF Ids
    <2> QED BY <1>1, <1>2, <2>1 DEF NoCopies
<1>4. Settled => table' = table
    BY SettledStill DEF SettlingInv
<1>5. UnmovedKept'
    <2> SUFFICES ASSUME ~Settled', NEW p \in table, p.guid \in Ids, NEW e, e = ShrunkEntry(p)
                 PROVE  e \in origin \/ (Offered(e) /\ e = [Before(e.guid) EXCEPT !.size = e.size])
        <3>1. \A x : Before(x)' = Before(x)
            BY <1>1 DEF Before
        <3>2. \A x : Offered(x)' <=> Offered(x)
            BY <1>1, AskedFrame
        <3> QED BY <1>1, <1>2, <1>3, <3>1, <3>2 DEF UnmovedKept
    <2>1. ~Settled
        <3>1. Settled /\ table' = table => Settled'
            BY <1>1, TableSame
        <3> QED BY <1>4, <3>1
    <2>2. CASE Shrinks(p) = {}
        BY <2>1, <2>2 DEF RoomyInv, ResumeInv, UnmovedKept, ShrunkEntry
    <2>3. CASE Shrinks(p) # {}
        <3>1. Offered(p) /\ p \in origin /\ e = [p EXCEPT !.size = Align(p.size - RoundUp(total))]
            BY <1>1, <2>3, CutForAll
        <3>2. Before(p.guid) = p /\ p \in Entry /\ e.guid = p.guid
            BY <1>1, <1>2, <3>1, BeforeIs DEF StoreOK, TableOK
        <3>3. Offered(e)
            BY <3>1, <3>2 DEF Offered
        <3>4. e = [p EXCEPT !.size = e.size]
            BY <3>1, <3>2 DEF Entry
        <3> QED BY <3>2, <3>3, <3>4
    <2> QED BY <2>2, <2>3
<1>6. ASSUME NEW k \in DOMAIN req.grows, NEW p \in table, GrownBy(k, p) \/ GrownBy(k, ShrunkEntry(p))
      PROVE  ShrunkEntry(p) = p
    <2>1. GrownBy(k, p)
        BY <1>2, <1>6 DEF GrownBy
    <2> QED BY <1>1, <2>1, GrownNotCut
<1>7. \A k \in DOMAIN req.grows : \A p : p \in table /\ Growing(k, p) <=> p \in table' /\ Growing(k, p)
    BY <1>1, <1>6 DEF Growing
<1>8. CopiedTogether'
    <2> SUFFICES ASSUME ~NoCopies, NEW k \in DOMAIN req.grows, NEW p \in table', Growing(k, p)
                 PROVE  \E q \in table' : q.name = Alternate(p.name)
        BY <1>1, <1>3, GrowingFrame DEF CopiedTogether, HasAlternate
    <2>1. p \in table
        BY <1>7
    <2>2. PICK q \in table : q.name = Alternate(p.name)
        BY <2>1 DEF RoomyInv, ResumeInv, CopiedTogether, HasAlternate
    <2> QED BY <1>1, <1>2, <2>2
<1>9. RoomHeld'
    <2>1. CASE \A p \in table : Shrinks(p) = {}
        <3>1. table' = table
            BY <1>1, <2>1 DEF ShrunkEntry
        <3> QED BY <1>1, <3>1, RoomStillHeld DEF RoomyInv, Exit
    <2>2. CASE \E p \in table : Shrinks(p) # {}
        <3>1. PICK p \in table : Shrinks(p) # {}
            BY <2>2
        <3> SUFFICES ASSUME NoCopies
                     PROVE  \E h : SumsTo(h, Len(req.grows))' /\ Vacant(h[Len(req.grows)])'
            BY <1>1, <1>3 DEF RoomHeld, Exit
        <3>2. PICK h : SumsTo(h, Len(req.grows)) /\ h[Len(req.grows)] = total
            BY <1>1 DEF RoomyInv, SumKnown, BeforeTableWrites
        <3>3. req.grows \in Seq(Change) /\ DOMAIN req.grows = 1 .. Len(req.grows)
            BY <1>1, RequestAssumption DEF StoreOK, Request
        <3>4. \A k \in DOMAIN req.grows : Share(k)' = Share(k)
            <4>1. \A k, q : Growing(k, q)' <=> Growing(k, q)
                BY <1>1, GrowingFrame
            <4> QED BY <1>1, <1>7, <4>1 DEF Share
        <3>5. SumsTo(h, Len(req.grows))'
            BY <1>1, <3>2, <3>3, <3>4 DEF SumsTo
        <3>6. Vacant(h[Len(req.grows)])'
            <4>1. \A n : n = total => Vacant(n)'
                BY <3>1, CutIsRoom
            <4> QED BY <1>1, <3>2, <4>1
        <3> QED BY <3>5, <3>6
    <2> QED BY <2>1, <2>2
<1> QED BY <1>1, <1>5, <1>8, <1>9, RoomyWritten

\* The missing copies are all made in one table write.
LEMMA RoomyCreatePartitions ==
    ASSUME SensibleCalls, CallsInv, SettlingInv, RoomyInv, CreatePartitions
    PROVE  RoomyInv'
<1> DEFINE new == {x \in table \X Moved :
                      x[1].number = Plan[x[2]].original.number /\ ~HasAlternate(x[1])}
<1>1. /\ pc = "createPartitions" /\ UNCHANGED <<req, origin>> /\ Ids' = Ids /\ table \subseteq table'
      /\ table' = table \cup {NewEntry(x[1], Plan[x[2]]) : x \in new}
      /\ TypeInv /\ ApartInv /\ StoreOK /\ LocalsTypeOK
      /\ Exit \/ pc' \in {"createPartitions", "copyFilesystems"}
    BY TypeParts DEF CreatePartitions, Commit, Restart, environment, Ids, CallsInv, RunOK
<1> HIDE DEF new
<1>2. \A e \in table' : e.guid \in Ids => e \in table
    <2> SUFFICES ASSUME NEW e \in table', e \notin table PROVE e.guid \notin Ids
        OBVIOUS
    <2>1. PICK m \in Grown, k \in Moved, p \in table : e = NewEntry(p, resizes[m])
        BY <1>1, CreatedIs
    <2>2. e.guid = <<"fresh", resizes[m].target.number>>
        BY <2>1, NewEntryParts
    <2> QED BY <1>1, <2>2, IdsAreOriginal
<1>3. Settled' <=> Settled
    BY <1>1, <1>2, AskedFrame DEF Settled, GrownBy
<1>4. UnmovedKept'
    <2>1. \A x : (Offered(x)' <=> Offered(x)) /\ Before(x)' = Before(x)
        BY <1>1, AskedFrame DEF Before
    <2> QED BY <1>1, <1>2, <1>3, <2>1 DEF RoomyInv, ResumeInv, UnmovedKept
<1>5. CopiedTogether'
    <2> SUFFICES ASSUME NEW k \in DOMAIN req.grows, NEW p \in table', Growing(k, p)
                 PROVE  \E q \in table' : q.name = Alternate(p.name)
        BY <1>1, GrowingFrame DEF CopiedTogether, HasAlternate
    <2>1. p \in table /\ GrownBy(k, p) /\ ~Offered(p)
        <3>1. p \in table /\ GrownBy(k, p)
            BY <1>2 DEF Growing, GrownBy
        <3> QED BY <3>1, GrownByOne
    <2>2. CASE HasAlternate(p)
        BY <1>1, <2>2 DEF HasAlternate
    <2>3. CASE ~HasAlternate(p)
        <3>1. p.size # req.grows[k].size
            <4>1. p.size \in Nat /\ req.grows[k].size \in Int
                BY <1>1, <2>1, SizeIsInt, EntryBytes DEF StoreOK
            <4> QED BY <4>1 DEF Growing
        <3>2. PICK m \in DOMAIN Plan : Plan[m].original.number = p.number
            BY <1>1, <2>1, <3>1 DEF SettlingInv, GrowsHandled, Items
        <3>3. Exact(Plan[m]) /\ p \in Original(Plan[m])
            BY <1>1, <2>1, <3>2, PlanParts DEF SettlingInv, ItemsExact, Original
        <3>4. m \in Moved
            BY <1>1, <2>1, <3>3, TargetElsewhere DEF Exact
        <3>5. <<p, m>> \in new
            BY <2>1, <2>3, <3>2, <3>4 DEF new
        <3>6. NewEntry(p, Plan[m]) \in table'
            BY <1>1, <3>5
        <3> QED BY <3>6 DEF NewEntry
    <2> QED BY <2>2, <2>3
<1>6. RoomHeld'
    <2>1. CASE table' = table
        BY <1>1, <2>1, RoomStillHeld DEF RoomyInv, Exit
    <2>2. CASE table' # table
        <3>1. PICK e \in table' : e \notin table
            BY <1>1, <2>2
        <3>2. e.guid \notin Ids
            BY <1>2, <3>1
        <3> QED BY <1>1, <3>1, <3>2 DEF RoomHeld, NoCopies
    <2> QED BY <2>1, <2>2
<1> QED BY <1>1, <1>4, <1>5, <1>6, RoomyWritten

\* The last table write gives everything its size.
LEMMA RoomyUpdatePartitions ==
    ASSUME SensibleCalls, CallsInv, GrowthInv, SettlingInv, UpdatePartitions
    PROVE  RoomyInv'
<1>1. Exit /\ Ids' = Ids
    BY DEF UpdatePartitions, Commit, environment, Ids
<1>2. Settled' /\ \A q \in table' : q.guid \in Ids
    BY SettlingUpdatePartitions
<1>3. NoCopies'
    BY <1>1, <1>2 DEF NoCopies
<1> QED BY <1>1, <1>2, <1>3, RoomyWritten DEF UnmovedKept, CopiedTogether, RoomHeld

LEMMA RoomyInit == DiskInit => RoomyInv
<1> SUFFICES ASSUME DiskInit PROVE RoomyInv
    OBVIOUS
<1>1. /\ table = origin /\ Idle
      /\ pc = "off" /\ done = <<>> /\ todo = <<>> /\ resizes = <<>>
    BY DEF DiskInit, Init, Idle, InitLocals
<1>2. NoCopies /\ ~WasShrunk
    BY <1>1 DEF NoCopies, Ids, WasShrunk
<1> QED BY <1>1, <1>2, RoomIdle
    DEF RoomyInv, ResumeInv, UnmovedKept, CopiedTogether, NothingQueued, CutsOnce, SumKnown, RoomHeld,
        RoomKept, PlanRoom

LEMMA RoomyNext ==
    ASSUME SensibleCalls, MaxChanges = 0, CallsInv, GrowthInv, SettlingInv, RoomyInv, [DiskNext]_vars
    PROVE  RoomyInv'
<1>1. CASE Planning
    BY <1>1, RoomyPlanning
<1>2. CASE Abort \/ DryRun \/ Interrupt
    <2>1. Exit /\ UNCHANGED <<table, req, origin>>
        BY <1>2 DEF Abort, DryRun, Interrupt, environment
    <2> QED BY <2>1, RoomyEnds
<1>3. CASE \/ Execute \/ NextPhase \/ Checking
           \/ KeepFilesystem \/ ShrinkRefused \/ ShrinkOnDevice \/ ShrinkWriteBack \/ ShrinkWrittenBack
    <2>1. /\ UNCHANGED <<table, req, origin, done, todo, total, retried, resizes>>
          /\ pc \notin {"off", "classify", "allocate"} /\ pc' \notin {"off", "classify", "allocate"}
          /\ pc' \in BeforeTableWrites => pc \in BeforeTableWrites
        BY <1>3, CheckingFrame DEF Execute, NextPhase, Loop, Restart, At, Advance, GoTo,
            KeepFilesystem, ShrinkRefused, ShrinkOnDevice, ShrinkWriteBack, ShrinkWrittenBack, locals,
            environment, BeforeTableWrites
    <2> QED BY <2>1, RoomyStays
<1>4. CASE \/ SkipUnmoved \/ SkipMatching \/ Format \/ Fill
           \/ StartRawCopy \/ FinishRawCopy \/ CopyUnsupported
    <2>1. /\ UNCHANGED <<table, req, origin, done, todo, total, retried, resizes>>
          /\ pc \notin {"off", "classify", "allocate"} /\ pc' \notin {"off", "classify", "allocate"}
          /\ pc' \in BeforeTableWrites => pc \in BeforeTableWrites
        BY <1>4 DEF SkipUnmoved, SkipMatching, Format, Fill, StartRawCopy, FinishRawCopy, CopyUnsupported,
            Copying, At, Advance, GoTo, locals, environment, BeforeTableWrites
    <2> QED BY <2>1, RoomyStays
<1>5. CASE ShrinkPartitions
    BY <1>5, RoomyShrinkPartitions
<1>6. CASE CreatePartitions
    BY <1>6, RoomyCreatePartitions
<1>7. CASE UpdatePartitions
    BY <1>7, RoomyUpdatePartitions
<1>8. CASE OsWrites \/ UNCHANGED vars
    <2>1. UNCHANGED <<table, req, origin, pc, locals>>
        BY <1>8 DEF OsWrites, plannerVars, vars, environment
    <2> QED BY <2>1, RoomyUntouched
<1>9. ~ChangeRequest
    BY DEF ChangeRequest, CallsInv, TypeInv, DiskTypeOK
<1> QED BY <1>1, <1>2, <1>3, <1>4, <1>5, <1>6, <1>7, <1>8, <1>9 DEF DiskNext, Run, Checking

\* Everything that is inductive of the runs of one request.
OneRequestInv == FinishInv /\ RoomyInv
LEMMA OneRequestInvariant ==
    ASSUME SensibleCalls, GrowsOnly, MaxChanges = 0, WholeSectorsAsked
    PROVE  DiskSpec => []OneRequestInv
<1>1. DiskInit => OneRequestInv
    BY FinishInit, RoomyInit DEF OneRequestInv
<1>2. OneRequestInv /\ [DiskNext]_vars => OneRequestInv'
    BY FinishNext, RoomyNext DEF OneRequestInv, FinishInv, OthersInv
<1> QED BY <1>1, <1>2, PTL DEF DiskSpec

\* What a later run finds: until the grown partitions have their sizes every
\* original entry is as it was but for the size of the one offered, which is cut
\* once, by enough for all, and either all that are to grow have copies, with
\* nothing left to lay out, or none has.
THEOREM ResumedRunsAgree ==
    ASSUME SensibleCalls, GrowsOnly, MaxChanges = 0, WholeSectorsAsked
    PROVE  DiskSpec => []ResumeInv
BY OneRequestInvariant, PTL DEF OneRequestInv, RoomyInv
-----------------------------------------------------------------------------
\* What a step does to the entry of one GUID.
LEMMA EntryStep ==
    ASSUME SensibleCalls, OneRequestInv, [DiskNext]_vars, ApartInv',
           NEW p \in table, NEW q \in table', p.guid = q.guid
    PROVE  \/ p.start = q.start /\ (p.size = q.size \/ p \in origin)
           \/ \E r \in table : r.guid \notin Ids /\ r.start = q.start /\ r.size = q.size
<1>1. /\ CallsInv /\ GrowthInv /\ SettlingInv /\ RoomyInv /\ TypeInv /\ ApartInv /\ IdentityInv
      /\ \A x, y \in table : x.guid = y.guid => x = y
      /\ \A x, y \in table' : x.guid = y.guid => x = y
    BY DEF OneRequestInv, FinishInv, OthersInv, CallsInv, ApartInv, SoundTable
<1>2. CASE table' = table
    BY <1>1, <1>2
<1>3. CASE ShrinkPartitions
    <2>1. PICK x \in table : q = ShrunkEntry(x)
        BY <1>3, ShrinkWrites
    <2>2. pc = "shrinkPartitions"
        BY <1>3 DEF ShrinkPartitions
    <2>3. x = p /\ q.start = p.start
        BY <1>1, <2>1, <2>2, ShrunkFits
    <2>4. Shrinks(p) # {} => p \in origin
        BY <1>1, <2>2, CutForAll
    <2> QED BY <2>1, <2>3, <2>4 DEF ShrunkEntry
<1>4. CASE CreatePartitions
    <2>1. p \in table'
        BY <1>4 DEF CreatePartitions, Commit
    <2> QED BY <1>1, <2>1
<1>5. CASE UpdatePartitions
    <2>1. pc = "updatePartitions" /\ \E x \in table : q = FinalEntry(x)
        BY <1>5 DEF UpdatePartitions, Commit
    <2>2. PICK x \in table : q = FinalEntry(x)
        BY <2>1
    <2>3. q.start = x.start /\ q.size = x.size
        BY <1>1, <2>2, FinalEntryIs
    <2>4. CASE MovedTo(x) = {}
        BY <1>1, <2>2, <2>4 DEF FinalEntry
    <2>5. CASE MovedTo(x) # {}
        BY <1>1, <2>1, <2>3, <2>5, BecomesOriginal
    <2> QED BY <2>4, <2>5
<1> QED BY <1>2, <1>3, <1>4, <1>5, TableFrame

\* For such a caller a copy keeps its place from the table write that makes it
\* to the one that gives it its original's GUID, and an original entry that was
\* cut is not cut again, by whatever runs the steps are taken.
THEOREM ResumedPlansAgree ==
    ASSUME SensibleCalls, GrowsOnly, MaxChanges = 0, WholeSectorsAsked
    PROVE  DiskSpec => ResumeAgrees
<1>1. OneRequestInv /\ OneRequestInv' /\ [DiskNext]_vars =>
        [\A p, q \in table \cup table' : p \in table /\ q \in table' /\ p.guid = q.guid =>
            \/ p.start = q.start /\ (p.size = q.size \/ p \in origin)
            \/ \E r \in table : r.guid \notin Ids /\ r.start = q.start /\ r.size = q.size]_vars
    BY EntryStep DEF OneRequestInv, FinishInv, OthersInv, CallsInv
<1> QED BY <1>1, OneRequestInvariant, PTL DEF DiskSpec, ResumeAgrees
-----------------------------------------------------------------------------
\* Seen by identity, the table is what the abstract resize works on.
Places == [g \in Ids |-> PlaceOf(Now(g))]
Versions == [g \in Ids |-> VersionOf(g)]
Firsts == [g \in Ids |-> PlaceOf(Before(g))]

LEMMA NowIs ==
    ASSUME IdentityInv, ApartInv, NEW g \in Ids
    PROVE  Now(g) \in table /\ Now(g).guid = g /\ \A p \in table : p.guid = g => Now(g) = p
<1>1. PICK p \in table : p.guid = g
    BY DEF IdentityInv, IdentityKept
<1>2. Now(g) \in table /\ Now(g).guid = g
    BY <1>1 DEF Now
<1> QED BY <1>2 DEF ApartInv, SoundTable

LEMMA VersionsAre ==
    ASSUME IdentityInv, ApartInv, NoDataLoss, StoreOK
    PROVE  Versions = latest
<1>1. \A g \in Ids : VersionOf(g) = latest[g]
    BY NowIs DEF VersionOf, NoDataLoss, HasItsFiles
<1> QED BY <1>1 DEF Versions, StoreOK

LEMMA PlacesStay ==
    ASSUME IdentityInv, ApartInv, IdentityInv', ApartInv', UNCHANGED origin,
           \A p \in table : p.guid \in Ids => p \in table'
    PROVE  Places' = Places
<1>1. Ids' = Ids
    BY DEF Ids
<1>2. ASSUME NEW g \in Ids, NEW p \in table', p.guid = g PROVE Now(g)' = p
    <2>1. \A h \in Ids' : \A x \in table' : x.guid = h => (CHOOSE y \in table' : y.guid = h) = x
        BY DEF ApartInv, SoundTable
    <2> QED BY <1>1, <1>2, <2>1 DEF Now
<1>3. \A g \in Ids : Now(g)' = Now(g)
    BY <1>2, NowIs
<1> QED BY <1>1, <1>3 DEF Places, PlaceOf

\* The parts of the invariant that matter here.
LEMMA PromiseParts ==
    ASSUME OneRequestInv
    PROVE  /\ CallsInv /\ GrowthInv /\ SettlingInv /\ RoomyInv /\ ResumeInv
           /\ TypeInv /\ ApartInv /\ IdentityInv /\ StoreOK /\ SoundTable(table, DiskSize)
BY TypeParts DEF OneRequestInv, FinishInv, OthersInv, CallsInv, RoomyInv, ApartInv

LEMMA PromiseInit ==
    ASSUME OneRequestInv, DiskInit
    PROVE  Promise!AbstractInit
<1>1. table = origin /\ latest = [g \in Ids |-> 1]
    BY DEF DiskInit, Ids
<1>2. Places = Firsts
    BY <1>1 DEF Places, Firsts, Now, Before
<1>3. ASSUME NEW g \in Ids, NEW h \in Ids, g # h
      PROVE  Promise!Span(Places[g]) \cap Promise!Span(Places[h]) = {}
    <2>1. Extent(Now(g)) \cap Extent(Now(h)) = {}
        BY <1>3, PromiseParts, NowIs DEF SoundTable
    <2> QED BY <2>1 DEF Places, PlaceOf, Promise!Span, Extent, Bytes
<1>4. NoDataLoss
    <2> SUFFICES ASSUME NEW g \in Ids PROVE HasItsFiles(g)
        BY DEF NoDataLoss
    <2>1. \A guids : HaveFiles(guids)
        BY DataInit DEF DataInv
    <2> QED BY <2>1 DEF HaveFiles
<1>5. Versions = [g \in Ids |-> 1]
    BY <1>1, <1>4, PromiseParts, VersionsAre
<1> QED BY <1>2, <1>3, <1>5 DEF Places, Versions, Firsts, Promise!AbstractInit, Promise!Disjoint, Promise!Ids

\* The entry offered is the one that is cut, and it is cut once.
LEMMA ShrinksAsPromised ==
    ASSUME SensibleCalls, OneRequestInv, OneRequestInv', ShrinkPartitions
    PROVE  \/ Places' = Places
           \/ \E g \in Ids : /\ Places[g] = Firsts[g]
                             /\ Places'[g].size < Places[g].size /\ Places'[g].start = Places[g].start
                             /\ \A h \in Ids \ {g} : Places'[h] = Places[h]
<1>1. /\ pc = "shrinkPartitions" /\ UNCHANGED origin /\ table' = {ShrunkEntry(p) : p \in table}
      /\ ApartInv' /\ IdentityInv' /\ Ids' = Ids
    BY ShrinkWrites DEF ShrinkPartitions, environment, Ids, OneRequestInv, FinishInv, OthersInv, CallsInv
<1>2. \A x \in table : ShrunkEntry(x).guid = x.guid
    BY <1>1, PromiseParts, ShrunkFits
<1>3. ASSUME NEW h \in Ids PROVE Now(h)' = ShrunkEntry(Now(h))
    <2>1. Now(h) \in table /\ Now(h).guid = h
        BY PromiseParts, NowIs
    <2>2. ShrunkEntry(Now(h)) \in table' /\ ShrunkEntry(Now(h)).guid = h
        BY <1>1, <1>2, <2>1
    <2>3. \A x \in table' : x.guid = h => (CHOOSE y \in table' : y.guid = h) = x
        BY <1>1 DEF ApartInv, SoundTable
    <2> QED BY <2>2, <2>3 DEF Now
<1>4. CASE \A p \in table : Shrinks(p) = {}
    <2>1. \A h \in Ids : Now(h)' = Now(h)
        BY <1>3, <1>4, PromiseParts, NowIs DEF ShrunkEntry
    <2> QED BY <1>1, <2>1 DEF Places, PlaceOf
<1>5. CASE \E p \in table : Shrinks(p) # {}
    <2>1. PICK p \in table : Shrinks(p) # {}
        BY <1>5
    <2>2. /\ Offered(p) /\ p \in origin /\ total > 0 /\ total \in Int
          /\ ShrunkEntry(p) = [p EXCEPT !.size = Align(p.size - RoundUp(total))]
        BY <1>1, <2>1, CutForAll, PromiseParts
    <2>3. p.guid \in Ids /\ Before(p.guid) = p /\ Now(p.guid) = p /\ p \in Entry
        BY <2>1, <2>2, BeforeIs, NowIs, PromiseParts DEF StoreOK, TableOK
    <2>4. ShrunkEntry(p).size < p.size /\ ShrunkEntry(p).start = p.start
        <3>1. RoundUp(total) \in Int
            BY <2>2, SizeAssumption DEF RoundUp, Gigabytes
        <3>2. RoundUp(total) >= total
            BY <2>2, RoundUpBounds
        <3>3. Align(p.size - RoundUp(total)) <= p.size - RoundUp(total) /\ Align(p.size - RoundUp(total)) \in Int
            BY <2>3, <3>1, AlignBounds DEF Entry
        <3> QED BY <2>2, <2>3, <3>1, <3>2, <3>3 DEF Entry
    <2>5. ASSUME NEW h \in Ids, h # p.guid PROVE Now(h)' = Now(h)
        <3>1. Now(h) \in table /\ Now(h).guid = h
            BY PromiseParts, NowIs
        <3>2. Shrinks(Now(h)) = {}
            <4>1. Offered(Now(h)) => Now(h) = p
                BY <2>2, <3>1, OfferedOnce, PromiseParts
            <4> QED BY <1>1, <2>5, <3>1, <4>1, CutForAll, PromiseParts
        <3> QED BY <1>3, <3>2 DEF ShrunkEntry
    <2>6. Places[p.guid] = PlaceOf(p) /\ Firsts[p.guid] = PlaceOf(p) /\ Places'[p.guid] = PlaceOf(ShrunkEntry(p))
        BY <1>1, <1>3, <2>3 DEF Places, Firsts, PlaceOf
    <2>7. \A h \in Ids \ {p.guid} : Places'[h] = Places[h]
        BY <1>1, <2>5 DEF Places, PlaceOf
    <2> QED BY <2>3, <2>4, <2>6, <2>7 DEF PlaceOf
<1> QED BY <1>4, <1>5

\* The copy that takes a partition's place is larger than that partition.
LEMMA SuccessorIsLarger ==
    ASSUME SensibleCalls, OneRequestInv, pc = "updatePartitions", NEW q \in table, MovedTo(q) # {},
           NEW p \in table, FinalEntry(q).guid = p.guid
    PROVE  p.size < q.size
<1>1. PICK k \in MovedTo(q), x \in table :
        k \in DOMAIN Plan /\ x.number = Plan[k].original.number /\ FinalEntry(q).guid = x.guid
    BY PromiseParts, IdentityFrom
<1>2. x = p
    BY <1>1, PromiseParts DEF SoundTable
<1>3. q \in Relocated(Plan[k]) /\ q.guid \notin Ids /\ k \in Moved /\ p \in Original(Plan[k])
    BY <1>1, <1>2, PromiseParts, MovedToIs DEF MovedTo, Original
<1>4. q.name = Alternate(p.name)
    BY <1>3, PromiseParts DEF GrowthInv, CopiesNamed, WhileCopying
<1>5. AboutRequest(p)
    <2>1. Exact(Plan[k])
        BY <1>1, PromiseParts, PlanParts DEF SettlingInv, ItemsExact, RunOK, TypeInv, DiskTypeOK
    <2> QED BY <1>3, <2>1 DEF Exact, AboutRequest, Growing
<1>6. PICK m \in DOMAIN req.grows, y \in table :
        Growing(m, y) /\ q.name = Alternate(y.name) /\ q.size = req.grows[m].size
    BY <1>3, PromiseParts DEF SettlingInv, CopiesExact
<1>7. y = p
    <2>1. y.name \in Label /\ p.name \in Label
        BY PromiseParts DEF StoreOK, TableOK, Entry
    <2>2. y.name = p.name
        BY <1>4, <1>6, <2>1, AlternateInjective
    <2> QED BY <1>5, <1>6, <2>2, NamesTellApart, PromiseParts DEF AboutRequest, Growing
<1> QED BY <1>6, <1>7 DEF Growing

\* The grown partitions move together, and none did before.
LEMMA MovesAsPromised ==
    ASSUME SensibleCalls, OneRequestInv, OneRequestInv', UpdatePartitions
    PROVE  \/ Places' = Places
           \/ /\ \A g \in Ids : Places[g].start = Firsts[g].start
              /\ \A g \in Ids : Places'[g] # Places[g] => Places'[g].size > Places[g].size
<1>1. /\ pc = "updatePartitions" /\ UNCHANGED origin /\ Ids' = Ids
      /\ \A q \in table' : \E x \in table : q = FinalEntry(x)
      /\ ApartInv' /\ IdentityInv'
    BY DEF UpdatePartitions, Commit, environment, Ids, OneRequestInv, FinishInv, OthersInv, CallsInv
<1>2. CASE Settled
    <2>1. table' = table
        BY <1>2, SettledStill, PromiseParts DEF SettlingInv
    <2> QED BY <1>1, <2>1 DEF Places, PlaceOf, Now
<1>3. CASE ~Settled
    <2>1. ASSUME NEW g \in Ids PROVE Places[g].start = Firsts[g].start
        <3>1. Now(g) \in table /\ Now(g).guid = g
            BY PromiseParts, NowIs
        <3>2. Before(g).start = Now(g).start
            <4>1. Before(g) \in Entry
                BY PromiseParts, BeforeOf, LayoutAssumption DEF StoreOK
            <4>2. Now(g) \in origin => Before(g) = Now(g)
                BY <3>1, PromiseParts, BeforeIs
            <4>3. Now(g) \in origin \/ Now(g) = [Before(g) EXCEPT !.size = Now(g).size]
                BY <1>3, <3>1, PromiseParts DEF ResumeInv, UnmovedKept
            <4> QED BY <4>1, <4>2, <4>3 DEF Entry
        <3> QED BY <3>2 DEF Places, Firsts, PlaceOf
    <2>2. ASSUME NEW g \in Ids, Places'[g] # Places[g] PROVE Places'[g].size > Places[g].size
        <3>1. Now(g) \in table /\ Now(g).guid = g
            BY PromiseParts, NowIs
        <3>2. PICK q \in table' : q = Now(g)' /\ q.guid = g
            <4>1. \E q \in table' : q.guid = g
                BY <1>1 DEF IdentityInv, IdentityKept
            <4> QED BY <4>1 DEF Now
        <3>3. PICK x \in table : q = FinalEntry(x)
            BY <1>1
        <3>4. q.size = x.size
            BY <3>3, PromiseParts, FinalEntryIs
        <3>5. Places'[g] = PlaceOf(q) /\ Places[g] = PlaceOf(Now(g))
            BY <1>1, <3>2 DEF Places, PlaceOf
        <3>6. CASE MovedTo(x) = {}
            <4>1. q = x
                BY <3>3, <3>6 DEF FinalEntry
            <4>2. x = Now(g)
                BY <3>1, <3>2, <4>1, PromiseParts DEF SoundTable
            <4> QED BY <2>2, <3>5, <4>1, <4>2
        <3>7. CASE MovedTo(x) # {}
            <4>1. Now(g).size < x.size
                BY <1>1, <3>1, <3>2, <3>3, <3>7, SuccessorIsLarger
            <4>2. Now(g).size \in Nat /\ x.size \in Nat
                BY <3>1, PromiseParts, EntryBytes DEF StoreOK
            <4> QED BY <3>4, <3>5, <4>1, <4>2 DEF PlaceOf
        <3> QED BY <3>6, <3>7
    <2> QED BY <2>1, <2>2
<1> QED BY <1>2, <1>3

\* No two of them ever share bytes.
LEMMA PlacesDisjoint ==
    ASSUME OneRequestInv
    PROVE  Promise!Disjoint(Places)
<1> SUFFICES ASSUME NEW g \in Ids, NEW h \in Ids, g # h
             PROVE  Promise!Span(Places[g]) \cap Promise!Span(Places[h]) = {}
    BY DEF Promise!Disjoint, Places
<1>1. Extent(Now(g)) \cap Extent(Now(h)) = {}
    BY PromiseParts, NowIs DEF SoundTable
<1> QED BY <1>1 DEF Places, PlaceOf, Promise!Span, Extent, Bytes

\* Every step is one of the abstract resize, or changes nothing it shows.
LEMMA PromiseNext ==
    ASSUME SensibleCalls, OneRequestInv, OneRequestInv', NoDataLoss, NoDataLoss', [DiskNext]_vars
    PROVE  [Promise!AbstractNext]_Promise!abstractVars
<1>1. /\ UNCHANGED origin /\ Ids' = Ids /\ Firsts' = Firsts
      /\ table' = table \/ ShrinkPartitions \/ CreatePartitions \/ UpdatePartitions
    BY TableFrame DEF Ids, Firsts, PlaceOf, Before
<1>2. Versions = latest /\ Versions' = latest' /\ ApartInv' /\ IdentityInv'
    <2>1. Versions = latest
        BY PromiseParts, VersionsAre
    <2>2. (Versions = latest)'
        BY PromiseParts, VersionsAre, PTL
    <2> QED BY <2>1, <2>2 DEF OneRequestInv, FinishInv, OthersInv, CallsInv
<1>3. DOMAIN Places = Ids /\ DOMAIN Places' = Ids
    BY <1>1 DEF Places
<1>4. CASE UNCHANGED <<Places, latest>>
    BY <1>1, <1>2, <1>4 DEF Promise!abstractVars, Places, Versions, Firsts
<1>5. CASE OsWrites
    <2>1. table' = table
        BY <1>5 DEF OsWrites, plannerVars
    <2>2. Places' = Places
        BY <1>1, <2>1 DEF Places, PlaceOf, Now
    <2>3. PICK p \in table : /\ ContentOf(p) # Junk /\ ContentOf(p).fs = p.guid
                             /\ latest' = [latest EXCEPT ![p.guid] = @ + 1]
        BY <1>5 DEF OsWrites
    <2>4. p.guid \in Ids
        <3>1. ContentOf(p) \in KnownContent
            BY PromiseParts, ContentOfKnown
        <3>2. ASSUME ContentOf(p).fs = Junk.fs PROVE FALSE
            <4>1. p.guid = <<"fresh", 0>>
                BY <2>3, <3>2 DEF Junk, Made
            <4>2. GuidsKnown
                BY PromiseParts DEF TypeInv
            <4> QED BY <4>1, <4>2, PromiseParts, IdsAreOriginal DEF GuidsKnown
        <3> QED BY <2>3, <3>1, <3>2 DEF KnownContent
    <2>5. Promise!WriteFiles(p.guid)
        BY <1>1, <1>2, <2>2, <2>3 DEF Promise!WriteFiles, Places, Versions, Firsts
    <2> QED BY <2>4, <2>5 DEF Promise!AbstractNext, Promise!Ids
<1>6. CASE ShrinkPartitions
    <2>1. latest' = latest
        BY <1>6 DEF ShrinkPartitions, environment
    <2>2. CASE Places' = Places
        BY <1>4, <2>1, <2>2
    <2>3. CASE Places' # Places
        <3>1. PICK g \in Ids : /\ Places[g] = Firsts[g]
                               /\ Places'[g].size < Places[g].size /\ Places'[g].start = Places[g].start
                               /\ \A h \in Ids \ {g} : Places'[h] = Places[h]
            BY <1>6, <2>3, ShrinksAsPromised
        <3>2. Promise!ShrinkOnce(g)
            BY <1>1, <1>2, <1>3, <2>1, <3>1 DEF Promise!ShrinkOnce, Promise!Ids, Places, Versions, Firsts
        <3> QED BY <3>2 DEF Promise!AbstractNext, Promise!Ids
    <2> QED BY <2>2, <2>3
<1>7. CASE CreatePartitions
    <2>1. latest' = latest /\ table \subseteq table'
        BY <1>7 DEF CreatePartitions, Commit, environment
    <2>2. Places' = Places
        BY <1>1, <1>2, <2>1, PromiseParts, PlacesStay
    <2> QED BY <1>4, <2>1, <2>2
<1>8. CASE UpdatePartitions
    <2>1. latest' = latest
        BY <1>8 DEF UpdatePartitions, environment
    <2>2. CASE Places' = Places
        BY <1>4, <2>1, <2>2
    <2>3. CASE Places' # Places
        <3>1. /\ \A g \in Ids : Places[g].start = Firsts[g].start
              /\ \A g \in Ids : Places'[g] # Places[g] => Places'[g].size > Places[g].size
            BY <1>8, <2>3, MovesAsPromised
        <3>2. Promise!Disjoint(Places)'
            BY PlacesDisjoint, PTL
        <3>3. Promise!MoveAll
            BY <1>1, <1>2, <1>3, <2>1, <3>1, <3>2
            DEF Promise!MoveAll, Promise!Unmoved, Promise!Disjoint, Promise!Ids, Places, Versions, Firsts
        <3> QED BY <3>3 DEF Promise!AbstractNext
    <2> QED BY <2>2, <2>3
<1>9. CASE table' = table /\ ~OsWrites
    <2>1. latest' = latest
        BY <1>9, CheckingFrame DEF DiskNext, Run, Planning, Abort, DryRun, Execute, NextPhase, Checking,
            KeepFilesystem, ShrinkRefused, ShrinkOnDevice, ShrinkWriteBack, ShrinkWrittenBack, ShrinkPartitions,
            CreatePartitions, SkipUnmoved, SkipMatching, Format, Fill, StartRawCopy, FinishRawCopy, CopyUnsupported,
            UpdatePartitions, Interrupt, ChangeRequest, environment, vars
    <2>2. Places' = Places
        BY <1>1, <1>9 DEF Places, PlaceOf, Now
    <2> QED BY <1>4, <2>1, <2>2
<1> QED BY <1>1, <1>5, <1>6, <1>7, <1>8, <1>9

\* On a block device the runs of such a caller implement the abstract resize:
\* seen by identity, a partition changes its place only when the one offered is
\* cut, once, and when all that are to grow move in one table write to places
\* that overlap nothing, and its files only when somebody writes them.
THEOREM ResizeKeepsItsPromise ==
    ASSUME SensibleCalls, GrowsOnly, MaxChanges = 0, WholeSectorsAsked, IsBlock
    PROVE  DiskSpec => ImplementsPromise
<1>1. OneRequestInv /\ DiskInit => Promise!AbstractInit
    BY PromiseInit
<1>2. OneRequestInv /\ OneRequestInv' /\ NoDataLoss /\ NoDataLoss' /\ [DiskNext]_vars
        => [Promise!AbstractNext]_Promise!abstractVars
    BY PromiseNext
<1>3. DiskSpec => []NoDataLoss
    BY SensibleCallsKeepFiles
<1> QED BY <1>1, <1>2, <1>3, OneRequestInvariant, PTL DEF DiskSpec, ImplementsPromise, Promise!AbstractSpec
=============================================================================
