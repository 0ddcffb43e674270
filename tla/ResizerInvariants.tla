------------------------- MODULE ResizerInvariants -------------------------
(***************************************************************************)
(* What holds of a run of Resizer at each of its steps, in as much detail  *)
(* as the proofs of its properties need: where the plan's items come from, *)
(* what the table still has of them, and what was checked on the way.  The *)
(* invariants are conjunctions of the named parts below.                   *)
(***************************************************************************)
EXTENDS Resizer

\* The phases in which the table is still the one the plan was made from.
BeforeTableWrites == {"off", "classify", "allocate", "planned", "check", "repair",
                      "shrinkFilesystems", "writeBack", "shrinkPartitions"}
\* Those in which every filesystem that had to shrink has been shrunk.
AfterShrinks == {"shrinkPartitions", "createPartitions", "copyFilesystems", "fill", "rawCopy",
                 "updatePartitions"}

\* The entries keep to whole sectors and to the disk.
TableOnDisk ==
    \A p \in table : Align(p.start) = p.start /\ Align(p.size) = p.size /\ p.start + p.size <= DiskSize

\* An entry has the GUID of an original partition or one that was generated.
GuidsKnown == \A p \in table : p.guid \in Ids \/ (p.guid[1] = "fresh" /\ p.guid[2] # 0)

\* Every byte belongs to the filesystem of an original partition, if to any.
ContentsKnown == \A b \in DOMAIN disk : disk[b].fs \in Ids \/ disk[b].fs = Junk.fs

\* Until the table is written the items are about its entries as they are.
ItemsCurrent ==
    pc \in BeforeTableWrites =>
        /\ InStep
        /\ \A k \in DOMAIN done : \E p, q \in table :
            /\ done[k].original = Data(p)
            /\ done[k].target = [number |-> q.number, start |-> q.start, size |-> q.size]

\* The partitions the plan is about stay where they are during the whole run.
SourcesKnown ==
    \A k \in DOMAIN Plan : \E p \in table :
        /\ p.number = Plan[k].original.number
        /\ p.start = Plan[k].original.start

\* What was laid out lies on the disk, as far as nothing shrinks to less than
\* nothing.
LaidOut ==
    /\ \A k \in DOMAIN done :
        /\ done[k].target.number # 0
        /\ done[k].target.start >= 0
        /\ Align(done[k].target.size) > 0
        /\ done[k].target.start + done[k].target.size <= DiskSize
    /\ \A k \in DOMAIN resizes :
        /\ resizes[k].target.number # 0
        /\ Align(resizes[k].original.size) = resizes[k].original.size
        /\ InPlace(resizes[k]) => resizes[k].target.start = resizes[k].original.start
    /\ (\A k \in DOMAIN resizes : resizes[k].target.size >= 1) =>
        /\ free \subseteq 1 .. (DiskSize - 1)
        /\ \A k \in Grown : Extent(resizes[k].target) \subseteq 1 .. (DiskSize - 1)

\* A filesystem is never shrunk to less than a megabyte, so neither is the
\* partition around it.
ShrinksChecked ==
    \A k \in DOMAIN Plan :
        /\ InPlace(Plan[k])
        /\ \/ pc \in AfterShrinks
           \/ pc \in {"shrinkFilesystems", "writeBack"} /\ k < i
           \/ pc = "writeBack" /\ k = i
        => Plan[k].target.size >= MB

\* In the middle of an item the cursor is at one.
CursorAtItem == pc \in {"repair", "writeBack", "fill", "rawCopy"} => i \in DOMAIN Plan

\* A table read from a disk has one entry in each slot.
SlotsDistinct == \A p, q \in table : p.number = q.number => p = q

\* The inductive invariant behind DiskTypeOK, as long as SlotsDistinct holds.
TypeInv ==
    /\ DiskTypeOK
    /\ TableOnDisk
    /\ GuidsKnown
    /\ ContentsKnown
    /\ ItemsCurrent
    /\ SourcesKnown
    /\ LaidOut
    /\ ShrinksChecked
    /\ CursorAtItem
-----------------------------------------------------------------------------
\* The partitions a request names, and what a sensible caller keeps to: each
\* partition is named by one identifier only, and none of the copies is named.
Chosen == UNION {FirstMatch(table, id) : id \in Requested}
NamedOnce ==
    pc \in {"classify", "allocate"} =>
        /\ \A k, m \in DOMAIN req.grows :
            k # m => FirstMatch(table, req.grows[k]) \cap FirstMatch(table, req.grows[m]) = {}
        /\ req.shrink # NoShrink =>
            \A k \in DOMAIN req.grows :
                FirstMatch(table, req.grows[k]) \cap FirstMatch(table, req.shrink) = {}
        /\ \A p \in Chosen : p.guid \in Ids

\* And the labels tell the named partitions and their copies apart: no two of
\* them share one, and no original partition has the label of a copy.
LabelsApart ==
    pc \in {"classify", "allocate"} =>
        \A p \in Chosen :
            /\ \A q \in Chosen : q.name = p.name => q = p
            /\ \A q \in table : q.name = Alternate(p.name) => q.guid \notin Ids

\* A generated GUID is that of the slot the entry was made for.
FreshBySlot == \A p \in table : p.guid \in Ids \/ p.guid = <<"fresh", p.number>>

\* Between runs nothing is remembered.
NothingHeld == pc = "off" => InitLocals

\* The items of the request, in the order they are handled.
Items == IF pc \in {"off", "classify", "allocate"} THEN done \o todo ELSE Plan
ItemsDistinct ==
    \A k, m \in DOMAIN Items : k # m => Items[k].original.number # Items[m].original.number

\* Before the shrink partition is put in front, each item comes from a grow.
ItemsRequested ==
    /\ pc = "classify" => ~retried
    /\ pc \in {"classify", "allocate"} /\ ~retried =>
        \A k \in DOMAIN Items : \E j \in DOMAIN req.grows :
            /\ pc = "classify" => j < i
            /\ \E p \in FirstMatch(table, req.grows[j]) : Items[k].original = Data(p)

\* No item is about a copy.
SourcesOriginal ==
    \A k \in DOMAIN Items : \A p \in table :
        p.number = Items[k].original.number => p.guid \in Ids

\* A plan is complete once it is made.
PlanComplete ==
    pc \in BeforeTableWrites \ {"off", "classify", "allocate"} => Len(resizes) = Len(todo)

\* The copy of an item planned by an earlier run is there, under its name.
DoneThere ==
    \A k \in DOMAIN done : \E p, q \in table :
        /\ p.number = done[k].original.number
        /\ q.number = done[k].target.number
        /\ q.start = done[k].target.start
        /\ q.name = Alternate(p.name)

\* Once the entries have shrunk, the places laid out are clear.
PlacesClear ==
    pc = "createPartitions" => \A k \in Grown :
        /\ \A p \in table : /\ Extent(resizes[k].target) \cap Extent(p) = {}
                            /\ resizes[k].target.number # p.number
        /\ \A m \in Grown \ {k} :
            /\ Extent(resizes[k].target) \cap Extent(resizes[m].target) = {}
            /\ resizes[k].target.number # resizes[m].target.number

\* The inductive invariant behind EntriesApart, with TypeInv.
ApartInv ==
    /\ SoundTable(table, DiskSize)
    /\ FreshBySlot
    /\ NothingHeld
    /\ ItemsDistinct
    /\ ItemsRequested
    /\ SourcesOriginal
    /\ PlanComplete
    /\ DoneThere
    /\ pc \in BeforeTableWrites => SpaceAccounted
    /\ PlacesClear
-----------------------------------------------------------------------------
\* The phases in which every relocated partition has its entry.
WhileCopying == {"copyFilesystems", "fill", "rawCopy", "updatePartitions"}

\* No two items are about partitions with one label, and the label an item
\* remembers is the one its partition has.
ItemNamesApart ==
    \A k, m \in DOMAIN Items : k # m => Items[k].original.label # Items[m].original.label
SourcesNamed ==
    \A k \in DOMAIN Items : \A p \in table :
        p.number = Items[k].original.number => p.name = Items[k].original.label

\* What was taken for the copy of an item is one, and is where it was found.
DoneAreCopies ==
    \A k \in DOMAIN done : \A q \in table :
        q.number = done[k].target.number =>
            /\ q.guid \notin Ids
            /\ q.start = done[k].target.start /\ q.size = done[k].target.size

\* The entries the items relocate to are copies, in their places, and no two
\* items relocate to one.
CopyTargets ==
    pc \in WhileCopying => \A k \in Moved :
        /\ \A q \in Relocated(Plan[k]) :
            /\ q.guid \notin Ids
            /\ q.start = Align(Plan[k].target.start) /\ q.size = Align(Plan[k].target.size)
        /\ \A m \in Moved \ {k} : Plan[k].target.number # Plan[m].target.number

\* The items before the cursor have been copied, and so have all of them once
\* the copies are to replace their originals.
CopiedItems ==
    {k \in Moved : \/ pc = "updatePartitions"
                   \/ pc \in WhileCopying /\ k < i}
CopiesThere == \A k \in CopiedItems : Relocated(Plan[k]) # {}
CopyingMoved == pc \in {"fill", "rawCopy"} => i \in Moved

\* The inductive invariant behind IdentityKept, with TypeInv and ApartInv.
IdentityInv ==
    /\ IdentityKept
    /\ ItemNamesApart
    /\ SourcesNamed
    /\ DoneAreCopies
    /\ CopyTargets
    /\ CopiesThere
    /\ CopyingMoved

\* With preserveNumbers an entry that has an original's GUID has its number.
NumbersInv == \A p \in table : p.guid \in Ids => p.number = Before(p.guid).number
-----------------------------------------------------------------------------
\* A caller of whom all that can be read off the disk he starts with: he names
\* partitions that are there, each by one identifier, by number only if numbers
\* are preserved, and by labels that no copy of another partition is given.
Asked(request) ==
    {request.grows[k] : k \in DOMAIN request.grows} \cup ({request.shrink} \ {NoShrink})
Named(id, layout) == {p \in layout : Matches(id, p)}
KeepsNumbers(request) ==
    IF MaxChanges = 0 THEN request.preserveNumbers ELSE \A r \in Requests : r.preserveNumbers
Lasting(id, request, layout) ==
    /\ id.by = "name" /\ IsBlock => KeepsNumbers(request) /\ Named(id, layout) # {}
    /\ id.by = "label" => \A p \in layout : id.value # Alternate(p.name)
    /\ id.by = "uuid" => id.value[1] = "original"
Sensible(request, layout) ==
    LET named == UNION {Named(id, layout) : id \in Asked(request)} IN
    /\ \A id \in Asked(request) : Lasting(id, request, layout)
    /\ \A k, m \in DOMAIN request.grows :
          k # m => Named(request.grows[k], layout) \cap Named(request.grows[m], layout) = {}
    /\ request.shrink # NoShrink =>
          \A k \in DOMAIN request.grows :
              Named(request.grows[k], layout) \cap Named(request.shrink, layout) = {}
    /\ \A p \in named :
          /\ \A q \in named : q.name = p.name => q = p
          /\ \A q \in layout : q.name # Alternate(p.name)
SensibleCalls == \A request \in Requests, layout \in Layouts : Sensible(request, layout)

\* The inductive invariant of a disk that is resized for such callers only.
CallsInv ==
    /\ TypeInv
    /\ ApartInv
    /\ IdentityInv
    /\ KeepsNumbers(req) => NumbersInv
-----------------------------------------------------------------------------
\* The partitions of a set that have their files; NoDataLoss says that all have.
HaveFiles(guids) == \A g \in Ids \cap guids : HasItsFiles(g)

\* None of them is in an image file and being written back, be it repaired or
\* shrunk.
WritingBack == {"repair", "writeBack"}
Spared(guids) == pc \in WritingBack => \A p \in Original(Plan[i]) : p.guid \notin guids

\* A filesystem that was shrunk fits into what its partition is cut to.
FilesFit(guids) ==
    \A k \in DOMAIN Plan :
        /\ InPlace(Plan[k])
        /\ pc = "shrinkPartitions" \/ (pc \in {"shrinkFilesystems", "writeBack"} /\ k < i)
        => \A p \in Original(Plan[k]) :
              p.guid \in guids => ContentOf(p).length <= Megabytes(Plan[k].target.size)

\* A partition is no longer than the place it is to be copied to.
SourcesFit ==
    pc \in {"createPartitions"} \cup WhileCopying =>
        \A k \in DOMAIN Plan : \A p \in Original(Plan[k]) : p.size <= Align(Plan[k].target.size)

\* A copy that was made has its original's files.
CopiesMade(guids) ==
    \A k \in CopiedItems : \A p \in Original(Plan[k]) :
        p.guid \in guids => \E q \in Relocated(Plan[k]) :
            ContentOf(q).fs = p.guid /\ ContentOf(q).version = latest[p.guid]

\* What is written back stays inside its partition.
WriteBackInside ==
    pc \in WritingBack => \A p \in Original(Plan[i]) : disk[p.start].length <= p.size

\* The inductive invariant behind HaveFiles, with those above, for any set of
\* partitions none of which is ever written back.
DataInv(guids) ==
    /\ HaveFiles(guids)
    /\ FilesFit(guids)
    /\ SourcesFit
    /\ CopiesMade(guids)
    /\ WriteBackInside

\* The same for all partitions, as long as nothing is written back.
FilesInv == pc \notin WritingBack => DataInv(Guid)
-----------------------------------------------------------------------------
\* From the checks on no source that was checked is found inconsistent, not even
\* while it is being written back. A repair changes nothing but what it repairs.
Checked == {k \in DOMAIN Plan : \/ pc \in {"check", "repair"} /\ k < i
                                \/ pc \in AfterShrinks \cup {"shrinkFilesystems", "writeBack"}}
ChecksMade ==
    /\ \A k \in Checked : \A p \in Original(Plan[k]) : ~Inconsistent(p)
    /\ pc \in WritingBack => \A p \in Original(Plan[i]) : ~disk[p.start].dirty
    /\ pc = "repair" =>
          /\ req.fixErrors
          /\ \A p \in Original(Plan[i]) : \A b \in Bytes(p.start, disk[p.start].length) :
                Repaired(disk[b]) = disk[p.start]
-----------------------------------------------------------------------------
\* A caller whose grows ask for no less than there is.
GrowsOnly ==
    \A request \in Requests, layout \in Layouts : \A k \in DOMAIN request.grows :
        \A p \in Named(request.grows[k], layout) : p.size <= request.grows[k].size

\* The partitions a grow of the request is about, and the one offered to shrink.
GrownBy(k, p) == p.guid \in Ids /\ Matches(req.grows[k], Before(p.guid))
Offered(p) == p.guid \in Ids /\ req.shrink # NoShrink /\ Matches(req.shrink, Before(p.guid))

\* No partition is larger than asked for, and no copy is smaller than its
\* original or larger than asked for.
SizesAsked ==
    \A k \in DOMAIN req.grows : \A p \in table : GrownBy(k, p) => p.size <= req.grows[k].size
CopiesAsked ==
    \A k \in DOMAIN req.grows : \A p, q \in table :
        GrownBy(k, p) /\ q.guid \notin Ids /\ q.name = Alternate(p.name)
            => p.size <= q.size /\ q.size <= req.grows[k].size

\* Only the partition offered is ever planned to shrink.
AskedFor(item) ==
    \A p \in Original(item) :
        \/ Offered(p)
        \/ ~InPlace(item) /\ \E k \in DOMAIN req.grows :
              GrownBy(k, p) /\ item.target.size <= req.grows[k].size
ItemsAsked ==
    /\ \A k \in DOMAIN done : AskedFor(done[k])
    /\ pc \in {"classify", "allocate"} => \A k \in DOMAIN todo : AskedFor(todo[k])
    /\ \A k \in DOMAIN resizes : AskedFor(resizes[k])

\* An item's copy is found under the alternate name.
CopiesNamed ==
    pc \in WhileCopying => \A k \in Moved : \A p \in Original(Plan[k]), q \in Relocated(Plan[k]) :
        q.name = Alternate(p.name)
WriteBackAsked ==
    /\ pc = "writeBack" => InPlace(Plan[i])
    /\ pc = "repair" => req.fixErrors
    /\ pc \in WritingBack => ~IsBlock

\* What makes OthersKeepFiles inductive, with the invariants above, for such a
\* caller who never changes his request.
GrowthInv ==
    /\ SizesAsked
    /\ CopiesAsked
    /\ ItemsAsked
    /\ CopiesNamed
    /\ WriteBackAsked

\* The partitions that are not at risk.
Others == {p.guid : p \in {p \in origin : ~AtRisk(p)}}
-----------------------------------------------------------------------------
\* A caller whose sizes are whole sectors, so that a partition can get them.
WholeSectorsAsked ==
    \A request \in Requests : \A k \in DOMAIN request.grows :
        Align(request.grows[k].size) = request.grows[k].size

\* Every grown partition has the size asked for. They get it all at once.
Settled == \A k \in DOMAIN req.grows : \A p \in table : GrownBy(k, p) => p.size = req.grows[k].size

\* A partition that a grow is about and that is still smaller than asked for.
Growing(k, p) == GrownBy(k, p) /\ p.size < req.grows[k].size

\* Every copy is of such a partition, and has the size asked for.
CopiesExact ==
    \A q \in table : q.guid \notin Ids =>
        \E k \in DOMAIN req.grows : \E p \in table :
            Growing(k, p) /\ q.name = Alternate(p.name) /\ q.size = req.grows[k].size

\* An item shrinks the partition offered, or gives another the size asked for.
Exact(item) ==
    \A p \in Original(item) :
        \/ Offered(p) /\ InPlace(item)
        \/ ~InPlace(item) /\ \E k \in DOMAIN req.grows :
              Growing(k, p) /\ item.target.size = req.grows[k].size
ItemsExact ==
    /\ \A k \in DOMAIN done : Exact(done[k])
    /\ pc \in {"classify", "allocate"} => \A k \in DOMAIN todo : Exact(todo[k])
    /\ \A k \in DOMAIN resizes : Exact(resizes[k])
TotalPositive ==
    pc \in {"classify", "allocate"} => total >= 0 /\ (todo # <<>> => total > 0)

\* No grow is forgotten: what it is about has its size or an item.
GrowsHandled ==
    pc \notin {"off", "failed"} =>
        \A k \in DOMAIN req.grows : \A p \in table :
            GrownBy(k, p) /\ (pc = "classify" => k < i) =>
                \/ p.size = req.grows[k].size
                \/ \E m \in DOMAIN Items : Items[m].original.number = p.number
AllMoved == pc \in WhileCopying => \A k \in DOMAIN Plan : ~InPlace(Plan[k]) => k \in Moved

\* Once all have their sizes there is nothing to do.
SettledIdle == Settled => done = <<>> /\ todo = <<>> /\ resizes = <<>>

\* A run gets no further than planning unless what it is to grow is there, and
\* has finished its work when it reports success.
AllNamed == \A k \in DOMAIN req.grows : \E g \in Ids : Matches(req.grows[k], Before(g))
GrowsThere == pc \notin {"off", "failed"} \/ finished => AllNamed
FinishedSettled == finished => Settled

\* What makes FinishedIsStable inductive, with GrowthInv.
SettlingInv ==
    /\ CopiesExact
    /\ ItemsExact
    /\ TotalPositive
    /\ GrowsHandled
    /\ AllMoved
    /\ SettledIdle
    /\ GrowsThere
    /\ FinishedSettled
-----------------------------------------------------------------------------
\* A caller who asks for no repairs in an image file.
RepairsInPlace == IsBlock \/ \A request \in Requests : ~request.fixErrors

\* The partitions to grow that can be filled by their filesystem do so, if they
\* are not at risk.
CanGrow(p) == Kind[p.guid] \in {"ext4", "fat32"} /\ p.guid \in Others
GrownFill ==
    \A k \in DOMAIN req.grows : \A p \in table :
        GrownBy(k, p) /\ CanGrow(p) => ContentOf(p).length = p.size

\* A copy of one that holds its filesystem is filled by it.
CopiesFill ==
    \A k \in DOMAIN req.grows : \A p, q \in table :
        /\ GrownBy(k, p) /\ CanGrow(p)
        /\ q.guid \notin Ids /\ q.name = Alternate(p.name) /\ ContentOf(q).fs = p.guid
        => ContentOf(q).length = q.size

\* Until they moved their filesystems are nowhere but in them and in their
\* copies: a new copy cannot seem to be made already.
NoStrays ==
    \A k \in DOMAIN req.grows : \A p \in table : \A b \in DOMAIN disk :
        Growing(k, p) /\ disk[b].fs = p.guid =>
            \/ b \in Extent(p)
            \/ \E q \in table : q.guid \notin Ids /\ q.name = Alternate(p.name) /\ b \in Extent(q)
RawOnly ==
    pc = "rawCopy" => \A p \in Original(Plan[i]) : CanGrow(p) => \A k \in DOMAIN req.grows : ~GrownBy(k, p)

\* What makes FinishedDelivers inductive, with SettlingInv.
FillInv ==
    /\ GrownFill
    /\ CopiesFill
    /\ NoStrays
    /\ RawOnly
-----------------------------------------------------------------------------
\* Until the grown partitions have their sizes, all at once, every entry is as
\* it was before the first run, but for the size of the partition offered, and
\* either all of those partitions that are to grow have copies or none.
NoCopies == \A q \in table : q.guid \in Ids
UnmovedKept ==
    ~Settled => \A p \in table : p.guid \in Ids =>
        p \in origin \/ (Offered(p) /\ p = [Before(p.guid) EXCEPT !.size = p.size])
CopiedTogether ==
    ~NoCopies => \A k \in DOMAIN req.grows : \A p \in table : Growing(k, p) => HasAlternate(p)

\* Once there are copies nothing is laid out any more.
NothingQueued == ~NoCopies /\ pc \in BeforeTableWrites => todo = <<>>

\* Only a partition that has its first size shrinks, by enough for all the rest.
CutOnce(item) ==
    InPlace(item) => \A p \in Original(item) :
        retried /\ total > 0 /\ p \in origin /\ item.target.size = p.size - RoundUp(total)
CutsOnce ==
    pc \in BeforeTableWrites =>
        /\ \A k \in DOMAIN done : CutOnce(done[k])
        /\ pc \in {"classify", "allocate"} => \A k \in DOMAIN todo : CutOnce(todo[k])
        /\ \A k \in DOMAIN resizes : CutOnce(resizes[k])

\* What a resumed run finds of an interrupted one, with SettlingInv.
ResumeInv ==
    /\ UnmovedKept
    /\ CopiedTogether
    /\ NothingQueued
    /\ CutsOnce
=============================================================================
