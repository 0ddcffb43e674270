--------------------------- MODULE ResizerProofs ---------------------------
(***************************************************************************)
(* Files, and callers.  No run of Resizer, stopped wherever, loses a file: *)
(* at every moment each partition holds its whole filesystem as it was     *)
(* last written, unless it is in an image file and written back there once *)
(* repaired or shrunk.  The second part says what callers have to keep to. *)
(***************************************************************************)
EXTENDS ResizerTableProofs

\* What a range holds depends on the bytes it covers only.
LEMMA ContentSame ==
    ASSUME StoreOK, NEW p \in table, \A b \in Extent(p) : disk'[b] = disk[b]
    PROVE  ContentOf(p)' = ContentOf(p)
<1>1. p.start \in Nat /\ p.size \in Nat \ {0}
    BY EntryBytes DEF StoreOK
<1>2. p.start \in Extent(p)
    BY <1>1 DEF Extent, Bytes
<1>3. disk'[p.start] = disk[p.start]
    BY <1>2
<1> DEFINE c == disk[p.start]
<1>4. c.length \in 1 .. p.size => Bytes(p.start, c.length) \subseteq Extent(p)
    BY <1>1 DEF Extent, Bytes
<1> HIDE DEF c
<1>5. Whole(p, c)' <=> Whole(p, c)
    BY <1>3, <1>4 DEF Whole, c
<1> QED BY <1>3, <1>5 DEF ContentOf, c

LEMMA ContentElsewhere ==
    ASSUME StoreOK, ApartInv, NEW p \in table, NEW q \in table, p # q,
           NEW bytes \in SUBSET Extent(q), \A b \in DOMAIN disk \ bytes : disk'[b] = disk[b]
    PROVE  ContentOf(p)' = ContentOf(p)
<1>1. Extent(p) \cap Extent(q) = {}
    BY DEF ApartInv, SoundTable
<1>2. Extent(p) \subseteq DOMAIN disk
    <2>1. p.start \in Nat /\ p.size \in Nat \ {0} /\ p.start + p.size <= DiskSize
        BY EntryBytes DEF StoreOK
    <2>2. DOMAIN disk = 0 .. DiskSize - 1
        BY DEF StoreOK
    <2> QED BY <2>1, <2>2, SizeAssumption DEF Extent, Bytes
<1> QED BY <1>1, <1>2, ContentSame

\* A range with an original's filesystem has all of its bytes,
LEMMA ContentIsWhole ==
    ASSUME StoreOK, NEW p, ContentOf(p).fs \in Ids
    PROVE  ContentOf(p) = disk[p.start] /\ Whole(p, ContentOf(p))
<1>1. Junk.fs \notin Ids
    BY IdsAreOriginal DEF Junk, Made
<1> QED BY <1>1 DEF ContentOf

\* also when it is cut to a size it still fits into.
LEMMA ContentCut ==
    ASSUME StoreOK, NEW p, NEW e, ContentOf(p).fs \in Ids,
           e.start = p.start, ContentOf(p).length <= e.size, e.size \in Nat, p.size \in Nat
    PROVE  ContentOf(e) = ContentOf(p)
<1>1. ContentOf(p) = disk[p.start] /\ Whole(p, ContentOf(p))
    BY ContentIsWhole
<1>2. Whole(e, disk[e.start])
    BY <1>1 DEF Whole
<1> QED BY <1>1, <1>2 DEF ContentOf

\* Writing a content over the bytes it is long puts it there.
LEMMA ContentWritten ==
    ASSUME StoreOK, NEW p \in table, NEW c \in Content, c.length \in 1 .. p.size,
           \A b \in Bytes(p.start, c.length) : disk'[b] = c
    PROVE  ContentOf(p)' = c
<1>1. p.start \in Nat
    BY EntryBytes DEF StoreOK
<1>2. p.start \in Bytes(p.start, c.length)
    BY <1>1 DEF Bytes
<1>3. disk'[p.start] = c
    BY <1>2
<1>4. Whole(p, c)'
    BY DEF Whole
<1> QED BY <1>3, <1>4 DEF ContentOf

LEMMA WrittenThere ==
    ASSUME StoreOK, NEW p \in table, NEW bytes \in SUBSET Extent(p), NEW c, disk' = Written(bytes, c)
    PROVE  /\ \A b \in bytes : disk'[b] = c
           /\ \A b \in DOMAIN disk \ bytes : disk'[b] = disk[b]
<1>1. Extent(p) \subseteq DOMAIN disk
    <2>1. p.start \in Nat /\ p.size \in Nat \ {0} /\ p.start + p.size <= DiskSize
        BY EntryBytes DEF StoreOK
    <2>2. DOMAIN disk = 0 .. DiskSize - 1
        BY DEF StoreOK
    <2> QED BY <2>1, <2>2, SizeAssumption DEF Extent, Bytes
<1> QED BY <1>1 DEF Written
-----------------------------------------------------------------------------
\* An original's entry has its files, not just some entry.
LEMMA OwnFiles ==
    ASSUME NEW guids, ApartInv, HaveFiles(guids), NEW p \in table, p.guid \in Ids \cap guids
    PROVE  ContentOf(p).fs = p.guid /\ ContentOf(p).version = latest[p.guid]
<1>1. PICK x \in table : x.guid = p.guid /\ ContentOf(x).fs = p.guid /\ ContentOf(x).version = latest[p.guid]
    BY DEF HaveFiles, HasItsFiles
<1>2. x = p
    BY <1>1 DEF ApartInv, SoundTable
<1> QED BY <1>1, <1>2

\* And it is enough that the original entries keep theirs.
LEMMA FilesKept ==
    ASSUME NEW guids, ApartInv, HaveFiles(guids), UNCHANGED <<table, origin, latest>>,
           \A p \in table : p.guid \in Ids \cap guids =>
              ContentOf(p)'.fs = ContentOf(p).fs /\ ContentOf(p)'.version = ContentOf(p).version
    PROVE  HaveFiles(guids)'
<1>1. Ids' = Ids
    BY DEF Ids
<1> SUFFICES ASSUME NEW g \in Ids \cap guids
             PROVE  \E p \in table : p.guid = g /\ ContentOf(p)'.fs = g /\ ContentOf(p)'.version = latest[g]
    BY <1>1 DEF HaveFiles, HasItsFiles
<1>2. PICK p \in table : p.guid = g /\ ContentOf(p).fs = g /\ ContentOf(p).version = latest[g]
    BY DEF HaveFiles, HasItsFiles
<1> QED BY <1>2

LEMMA FilesUntouched ==
    ASSUME NEW guids, HaveFiles(guids), UNCHANGED <<table, origin, latest, disk>>
    PROVE  HaveFiles(guids)'
<1>1. Ids' = Ids /\ \A p : ContentOf(p)' = ContentOf(p)
    BY DEF Ids, ContentOf, Whole
<1> QED BY <1>1 DEF HaveFiles, HasItsFiles

\* Outside the phases it speaks of the invariant is about the files only.
LEMMA DataSettled ==
    ASSUME NEW guids, HaveFiles(guids)',
           pc' \notin {"shrinkFilesystems", "shrinkPartitions", "createPartitions"}
                        \cup WritingBack \cup WhileCopying
    PROVE  DataInv(guids)'
BY DEF DataInv, FilesFit, SourcesFit, CopiesMade, CopiedItems, WhileCopying, WriteBackInside, WritingBack

LEMMA DataInit == ASSUME NEW guids, DiskInit PROVE DataInv(guids)
<1>1. StoreOK /\ ApartInv /\ pc = "off" /\ table = origin
    BY DiskTypeInit, ApartInit, TypeParts DEF DiskInit, Init
<1>2. ASSUME NEW p \in table PROVE ContentOf(p).fs = p.guid /\ ContentOf(p).version = 1
    <2> DEFINE c == Made(p.guid, 1, p.size)
    <2>1. p.start \in Nat /\ p.size \in Nat \ {0} /\ p.start + p.size <= DiskSize
        BY <1>1, EntryBytes DEF StoreOK
    <2>2. ASSUME NEW b \in Extent(p) PROVE disk[b] = c
        <3>1. b \in 0 .. DiskSize - 1
            BY <2>1, SizeAssumption DEF Extent, Bytes
        <3>2. p = CHOOSE q \in table : b \in Extent(q)
            <4>1. \A q \in table : b \in Extent(q) => q = p
                BY <1>1 DEF ApartInv, SoundTable
            <4> QED BY <4>1
        <3> QED BY <3>1, <3>2 DEF DiskInit
    <2>3. p.start \in Extent(p) /\ Bytes(p.start, p.size) = Extent(p)
        BY <2>1 DEF Extent, Bytes
    <2>4. disk[p.start] = c
        BY <2>2, <2>3
    <2>5. c.fs = p.guid /\ c.version = 1 /\ c.length = p.size
        BY DEF Made
    <2> HIDE DEF c
    <2>6. Whole(p, c)
        BY <2>1, <2>2, <2>3, <2>5 DEF Whole
    <2>7. ContentOf(p) = c
        BY <2>4, <2>6 DEF ContentOf
    <2> QED BY <2>5, <2>7
<1>3. \A g \in Ids : latest[g] = 1
    BY <1>1 DEF DiskInit, Ids
<1>4. HaveFiles(guids)
    BY <1>1, <1>2, <1>3 DEF HaveFiles, HasItsFiles, Ids
<1> QED BY <1>1, <1>4 DEF DataInv, FilesFit, SourcesFit, CopiesMade, CopiedItems, WhileCopying,
            WriteBackInside, WritingBack
-----------------------------------------------------------------------------
\* What a plan is about is an original, and keeps its files until it is
\* superseded.
LEMMA SourceIs ==
    ASSUME ApartInv, pc \notin {"off", "classify", "allocate"},
           NEW k \in DOMAIN Plan, NEW p \in Original(Plan[k])
    PROVE  p \in table /\ p.guid \in Ids
<1>1. p \in table /\ p.number = Plan[k].original.number
    BY DEF Original
<1> QED BY <1>1 DEF ApartInv, SourcesOriginal, Items

\* Steps that write neither to the table nor to the disk, before the copies.
LEMMA DataStays ==
    ASSUME NEW guids, LocalsTypeOK, DataInv(guids), UNCHANGED <<table, disk, origin, latest, done, resizes>>,
           pc' \notin {"createPartitions"} \cup WritingBack \cup WhileCopying,
           pc' = "shrinkPartitions" => (pc = "shrinkFilesystems" /\ i > Len(Plan)),
           pc' = "shrinkFilesystems" =>
               \/ i' = 1
               \/ pc = "shrinkFilesystems" /\ i' = i + 1 /\ ~InPlace(Plan[i])
    PROVE  DataInv(guids)'
<1>1. HaveFiles(guids)'
    BY FilesUntouched DEF DataInv
<1>2. Plan' = Plan /\ \A p : ContentOf(p)' = ContentOf(p)
    BY DEF Plan, ContentOf, Whole
<1>3. i \in Nat \ {0} /\ DOMAIN Plan = 1 .. Len(Plan) /\ Len(Plan) \in Nat
    BY PlanParts DEF LocalsTypeOK
<1>4. ASSUME NEW k \in DOMAIN Plan, InPlace(Plan[k]),
             pc' = "shrinkPartitions" \/ (pc' = "shrinkFilesystems" /\ k < i')
      PROVE  pc = "shrinkFilesystems" /\ k < i
    BY <1>3, <1>4
<1>5. \A k : Original(Plan[k])' = Original(Plan[k])
    BY <1>2 DEF Original
<1>6. ASSUME NEW k \in DOMAIN Plan, InPlace(Plan[k]),
             pc' = "shrinkPartitions" \/ (pc' = "shrinkFilesystems" /\ k < i'),
             NEW p \in Original(Plan[k]), p.guid \in guids
      PROVE  ContentOf(p)'.length <= Megabytes(Plan[k].target.size)
    BY <1>2, <1>4, <1>6 DEF DataInv, FilesFit
<1>7. FilesFit(guids)'
    BY <1>2, <1>5, <1>6 DEF FilesFit, WritingBack
<1> QED BY <1>1, <1>7 DEF DataInv, SourcesFit, CopiesMade, CopiedItems, WhileCopying, WriteBackInside,
            WritingBack

LEMMA DataGoesOn ==
    ASSUME NEW guids, LocalsTypeOK, DataInv(guids),
           \/ Execute \/ KeepFilesystem \/ ShrinkRefused
           \/ NextPhase /\ pc # "copyFilesystems"
    PROVE  DataInv(guids)'
<1>1. UNCHANGED <<table, disk, origin, latest, done, resizes>>
    BY DEF Execute, NextPhase, Loop, Restart, KeepFilesystem, ShrinkRefused, Advance, GoTo, locals,
        environment
<1>2. /\ pc' \notin {"createPartitions"} \cup WritingBack \cup WhileCopying
      /\ pc' = "shrinkPartitions" => pc = "shrinkFilesystems" /\ i > Len(Plan)
      /\ pc' = "shrinkFilesystems" =>
           \/ i' = 1
           \/ pc = "shrinkFilesystems" /\ i' = i + 1 /\ ~InPlace(Plan[i])
    BY DEF Execute, NextPhase, Loop, Restart, KeepFilesystem, ShrinkRefused, At, Advance, GoTo, locals,
        WritingBack, WhileCopying
<1> QED BY <1>1, <1>2, DataStays
-----------------------------------------------------------------------------
LEMMA RangesNest ==
    ASSUME NEW t \in Nat, NEW m \in Nat, NEW n \in Nat, m <= n
    PROVE  Bytes(t, m) \subseteq Bytes(t, n)
BY DEF Bytes

\* A filesystem with a checker is a whole one, and its repair is one as well.
LEMMA RepairedThere ==
    ASSUME StoreOK, NEW p \in table, Inconsistent(p)
    PROVE  LET c == Repaired(ContentOf(p)) IN
           /\ c \in Content /\ ~c.dirty
           /\ c.fs = ContentOf(p).fs /\ c.version = ContentOf(p).version
           /\ c.length = ContentOf(p).length /\ c.length \in 1 .. p.size
           /\ ContentOf(p) = disk[p.start] /\ Whole(p, ContentOf(p))
<1>1. ContentOf(p).fs \in DOMAIN Kind
    BY DEF Inconsistent, KindOf
<1>2. ContentOf(p) # Junk
    BY <1>1, FilesystemAssumption DEF Junk, Made
<1>3. ContentOf(p) = disk[p.start] /\ Whole(p, ContentOf(p))
    BY <1>2 DEF ContentOf
<1>4. ContentOf(p) \in Content
    BY ContentOfKnown DEF KnownContent
<1> QED BY <1>3, <1>4 DEF Repaired, Content, Whole

\* All that checkSourceFilesystems writes is the repaired filesystem of a source
\* over itself, on a device in one go, in an image file in two.
LEMMA CheckWrites ==
    ASSUME TypeInv, WriteBackInside, Checking
    PROVE  \/ disk' = disk /\ pc = "check" /\ pc' \in {"check", "failed"}
           \/ \E p \in Original(Plan[i]), c \in Content, n \in Nat :
                /\ i \in DOMAIN Plan /\ p \in table /\ n <= p.size
                /\ disk' = Written(Bytes(p.start, n), c)
                /\ disk'[p.start] = c /\ c.fs = disk[p.start].fs /\ c.length <= p.size
                /\ \/ /\ pc = "check" /\ pc' \in {"check", "failed"} /\ IsBlock
                      /\ req.fixErrors /\ Inconsistent(p)
                      /\ c = Repaired(ContentOf(p)) /\ n = c.length
                   \/ /\ pc = "check" /\ pc' = "repair"
                      /\ req.fixErrors /\ Inconsistent(p) /\ KindOf(p) = "ext4"
                      /\ ~CheckedBefore(Plan[i])
                      /\ c = Repaired(ContentOf(p)) /\ n <= c.length
                   \/ pc = "repair" /\ pc' = "check" /\ c = disk[p.start] /\ n = c.length
<1>1. StoreOK /\ CursorAtItem /\ LocalsTypeOK
    BY TypeParts DEF RunOK
<1>2. ASSUME At("check") PROVE i \in DOMAIN Plan
    BY <1>1, <1>2, PlanParts DEF LocalsTypeOK, At
<1>3. ASSUME NEW p \in table
      PROVE  p.start \in Nat /\ p.size \in Nat /\ p.start \in DOMAIN disk /\ disk[p.start] \in Content
    BY <1>1, <1>3, EntryBytes DEF StoreOK
<1>4. ASSUME NEW p \in table, Inconsistent(p), NEW n \in 1 .. ContentOf(p).length,
             disk' = Written(Bytes(p.start, n), Repaired(ContentOf(p)))
      PROVE  /\ Repaired(ContentOf(p)) \in Content /\ n \in Nat /\ n <= p.size
             /\ n <= Repaired(ContentOf(p)).length
             /\ disk'[p.start] = Repaired(ContentOf(p))
             /\ Repaired(ContentOf(p)).fs = disk[p.start].fs
             /\ Repaired(ContentOf(p)).length <= p.size
             /\ Repaired(ContentOf(p)).length = ContentOf(p).length
             /\ ContentOf(p).length \in 1 .. ContentOf(p).length
    <2> DEFINE c == Repaired(ContentOf(p))
    <2>1. /\ c \in Content /\ c.fs = disk[p.start].fs /\ c.length = ContentOf(p).length
          /\ c.length \in 1 .. p.size
        BY <1>1, <1>4, RepairedThere
    <2> HIDE DEF c
    <2>2. n \in Nat /\ n >= 1 /\ n <= c.length /\ n <= p.size /\ c.length <= p.size
          /\ c.length \in 1 .. c.length
        BY <1>3, <1>4, <2>1
    <2>3. p.start \in Bytes(p.start, n)
        BY <1>3, <2>2 DEF Bytes
    <2>4. disk'[p.start] = c
        BY <1>3, <1>4, <2>3 DEF Written, c
    <2> QED BY <2>1, <2>2, <2>4 DEF c
<1>5. ASSUME NEW p \in table, Inconsistent(p) PROVE ContentOf(p).length \in 1 .. ContentOf(p).length
    <2>1. ContentOf(p).length \in 1 .. p.size /\ p.size \in Nat
        BY <1>1, <1>3, <1>5, RepairedThere
    <2> QED BY <2>1
<1>6. CASE CheckPasses
    BY <1>6 DEF CheckPasses, At, Advance
<1>7. CASE CheckFails
    <2>1. PICK p \in Original(Plan[i]) :
            /\ Inconsistent(p)
            /\ disk' = IF req.fixErrors /\ IsBlock
                       THEN Written(Bytes(p.start, ContentOf(p).length), Repaired(ContentOf(p)))
                       ELSE disk
        BY <1>7 DEF CheckFails
    <2>2. pc = "check" /\ pc' = "failed" /\ i \in DOMAIN Plan /\ p \in table
        BY <1>2, <1>7 DEF CheckFails, At, GoTo, Original
    <2>3. CASE req.fixErrors /\ IsBlock
        BY <1>4, <1>5, <2>1, <2>2, <2>3
    <2>4. CASE ~(req.fixErrors /\ IsBlock)
        BY <2>1, <2>2, <2>4
    <2> QED BY <2>3, <2>4
<1>8. CASE RepairOnDevice
    <2>1. PICK p \in table :
            /\ Repairing(p)
            /\ disk' = Written(Bytes(p.start, ContentOf(p).length), Repaired(ContentOf(p)))
        BY <1>8 DEF RepairOnDevice
    <2>2. /\ pc = "check" /\ pc' = "check" /\ i \in DOMAIN Plan /\ p \in Original(Plan[i])
          /\ req.fixErrors /\ Inconsistent(p) /\ IsBlock
        BY <1>2, <1>8, <2>1 DEF RepairOnDevice, Repairing, At, Advance
    <2> QED BY <1>4, <1>5, <2>1, <2>2
<1>9. CASE RepairWriteBack
    <2>1. PICK p \in table :
            /\ Repairing(p)
            /\ \E n \in 1 .. ContentOf(p).length :
                 disk' = Written(Bytes(p.start, n), Repaired(ContentOf(p)))
        BY <1>9 DEF RepairWriteBack
    <2>2. /\ pc = "check" /\ pc' = "repair" /\ i \in DOMAIN Plan /\ p \in Original(Plan[i])
          /\ req.fixErrors /\ Inconsistent(p) /\ KindOf(p) = "ext4" /\ ~CheckedBefore(Plan[i])
        BY <1>2, <1>9, <2>1 DEF RepairWriteBack, Repairing, At, GoTo
    <2>3. PICK n \in 1 .. ContentOf(p).length :
            disk' = Written(Bytes(p.start, n), Repaired(ContentOf(p)))
        BY <2>1
    <2> QED BY <1>4, <2>2, <2>3
<1>10. CASE RepairWrittenBack
    <2>1. PICK p \in Original(Plan[i]) :
            disk' = Written(Bytes(p.start, disk[p.start].length), disk[p.start])
        BY <1>10 DEF RepairWrittenBack
    <2>2. pc = "repair" /\ pc' = "check"
        BY <1>10 DEF RepairWrittenBack
    <2>3. i \in DOMAIN Plan /\ p \in table
        BY <1>1, <2>2 DEF CursorAtItem, Original
    <2>4. disk[p.start].length <= p.size /\ disk[p.start].length \in Nat
        BY <1>3, <2>2, <2>3 DEF WriteBackInside, WritingBack, Content
    <2>5. disk'[p.start] = disk[p.start]
        BY <1>3, <2>1, <2>3 DEF Written
    <2> QED BY <1>3, <2>1, <2>2, <2>3, <2>4, <2>5
<1> QED BY <1>6, <1>7, <1>8, <1>9, <1>10 DEF Checking

\* So it leaves all files where they are, but for those that are being written
\* back.
LEMMA DataChecks ==
    ASSUME NEW guids, TypeInv, ApartInv, DataInv(guids), Spared(guids), Spared(guids)', Checking
    PROVE  DataInv(guids)'
<1>1. StoreOK /\ SlotsDistinct /\ WriteBackInside /\ HaveFiles(guids)
    BY TypeParts, ApartSlots DEF DataInv
<1>2. UNCHANGED <<table, origin, latest, done, resizes>> /\ pc' \in {"check", "failed", "repair"}
    BY CheckingFrame DEF environment
<1>3. CASE disk' = disk /\ pc' \in {"check", "failed"}
    BY <1>1, <1>2, <1>3, FilesUntouched, DataSettled DEF WritingBack, WhileCopying
<1>4. ASSUME NEW p \in Original(Plan[i]), NEW c \in Content, NEW n \in Nat,
             p \in table, n <= p.size, disk' = Written(Bytes(p.start, n), c),
             disk'[p.start] = c, c.length <= p.size,
             \/ Inconsistent(p) /\ c = Repaired(ContentOf(p)) /\ n = c.length
             \/ pc' = "repair" /\ i' = i
             \/ pc = "repair"
      PROVE  DataInv(guids)'
    <2>1. p.start \in Nat /\ p.size \in Nat
        BY <1>1, <1>4, EntryBytes DEF StoreOK
    <2>2. Bytes(p.start, n) \subseteq Extent(p)
        BY <1>4, <2>1, RangesNest DEF Extent
    <2>3. /\ \A b \in Bytes(p.start, n) : disk'[b] = c
          /\ \A b \in DOMAIN disk \ Bytes(p.start, n) : disk'[b] = disk[b]
        BY <1>1, <1>4, <2>2, WrittenThere
    <2>4. \A q \in table : q # p => ContentOf(q)' = ContentOf(q)
        BY <1>1, <1>4, <2>2, <2>3, ContentElsewhere
    <2>5. Plan' = Plan /\ \A k : Original(Plan[k])' = Original(Plan[k])
        BY <1>2 DEF Plan, Original
    <2>6. ASSUME p.guid \in guids
          PROVE  ContentOf(p)'.fs = ContentOf(p).fs /\ ContentOf(p)'.version = ContentOf(p).version
        <3>1. ~(pc' = "repair" /\ i' = i) /\ pc # "repair"
            BY <1>4, <2>5, <2>6 DEF Spared, WritingBack
        <3>2. Inconsistent(p) /\ c = Repaired(ContentOf(p)) /\ n = c.length
            BY <1>4, <3>1
        <3>3. c.fs = ContentOf(p).fs /\ c.version = ContentOf(p).version /\ c.length \in 1 .. p.size
            BY <1>1, <1>4, <3>2, RepairedThere
        <3>4. \A b \in Bytes(p.start, c.length) : disk'[b] = c
            BY <2>3, <3>2
        <3>5. ContentOf(p)' = c
            BY <1>1, <1>4, <3>3, <3>4, ContentWritten
        <3> QED BY <3>3, <3>5
    <2>7. HaveFiles(guids)'
        BY <1>1, <1>2, <2>4, <2>6, FilesKept
    <2>8. CASE pc' # "repair"
        BY <1>2, <2>7, <2>8, DataSettled DEF WritingBack, WhileCopying
    <2>9. CASE pc' = "repair"
        <3>1. i' = i
            BY <2>9, CheckingFrame
        <3>2. \A q \in Original(Plan[i]) : q = p
            BY <1>1, <1>4 DEF Original, SlotsDistinct
        <3>3. WriteBackInside'
            BY <1>4, <2>5, <3>1, <3>2 DEF WriteBackInside
        <3> QED BY <2>7, <2>9, <3>3 DEF DataInv, FilesFit, SourcesFit, CopiesMade, CopiedItems, WhileCopying
    <2> QED BY <2>8, <2>9
<1>5. pc' = "repair" => i' = i
    BY CheckingFrame
<1> QED BY <1>1, <1>3, <1>4, <1>5, CheckWrites
-----------------------------------------------------------------------------
\* resize2fs keeps the files and leaves a filesystem that fits.
LEMMA ShrunkThere ==
    ASSUME TypeInv, ApartInv, pc = "shrinkFilesystems", i \in DOMAIN Plan, InPlace(Plan[i]),
           NEW p \in Original(Plan[i]), ShrinkSupported(p, Plan[i])
    PROVE  LET c == Shrunk(p, Plan[i]) IN
           /\ c \in Content
           /\ c.fs = ContentOf(p).fs /\ c.version = ContentOf(p).version
           /\ c.length = Megabytes(Plan[i].target.size) /\ c.length \in 1 .. p.size
<1>1. StoreOK /\ LocalsTypeOK /\ ItemsCurrent
    BY TypeParts DEF RunOK
<1>2. p \in table /\ p.number = Plan[i].original.number
    BY DEF Original
<1>3. PICK q \in table : Plan[i].original = Data(q)
    BY <1>1, PlanSources DEF BeforeTableWrites
<1>4. q = p
    BY <1>2, <1>3, ApartSlots DEF SlotsDistinct, Data
<1>5. Plan[i].original.size = p.size
    BY <1>3, <1>4 DEF Data
<1>6. p.size \in Nat \ {0}
    BY <1>1, <1>2, EntryBytes DEF StoreOK
<1>7. Plan[i] \in Item /\ Plan[i].target.size \in Int
    BY <1>1, PlanParts, ItemFields
<1>8. ContentOf(p) \in Content
    BY <1>1, <1>2, ContentOfKnown DEF KnownContent
<1>9. Used[ContentOf(p).fs] \in Nat \ {0} /\ Megabytes(Plan[i].target.size) >= Used[ContentOf(p).fs]
    BY FilesystemAssumption DEF ShrinkSupported, KindOf
<1>10. Megabytes(Plan[i].target.size) \in Nat \ {0} /\ Megabytes(Plan[i].target.size) <= Plan[i].target.size
    BY <1>7, <1>9, AtLeastAMegabyte
<1>11. Megabytes(Plan[i].target.size) \in 1 .. p.size
    BY <1>5, <1>6, <1>7, <1>10 DEF InPlace
<1> QED BY <1>8, <1>10, <1>11 DEF Shrunk, Content

\* A shrink writes inside its partition only. What it does to the files there
\* matters if they are to be kept.
LEMMA ShrinkWritten ==
    ASSUME NEW guids, TypeInv, ApartInv, DataInv(guids), pc \in {"shrinkFilesystems", "writeBack"},
           i \in DOMAIN Plan, NEW p \in Original(Plan[i]), NEW bytes \in SUBSET Extent(p),
           \A b \in DOMAIN disk \ bytes : disk'[b] = disk[b],
           UNCHANGED <<table, origin, latest, done, resizes>>,
           p.guid \in guids =>
               /\ ContentOf(p)'.fs = ContentOf(p).fs /\ ContentOf(p)'.version = ContentOf(p).version
               /\ ContentOf(p)'.length <= Megabytes(Plan[i].target.size),
           \/ pc' = "writeBack" /\ i' = i /\ disk'[p.start].length <= p.size
           \/ pc' = "shrinkFilesystems" /\ i' = i + 1
    PROVE  DataInv(guids)'
<1>1. StoreOK /\ i \in Nat /\ DOMAIN Plan = 1 .. Len(Plan) /\ Items = Plan /\ SlotsDistinct
    BY TypeParts, PlanParts, ApartSlots DEF RunOK, LocalsTypeOK, Items
<1>2. p \in table /\ p.number = Plan[i].original.number
    BY DEF Original
<1>3. \A q \in table : q # p => ContentOf(q)' = ContentOf(q)
    BY <1>1, <1>2, ContentElsewhere
<1>4. HaveFiles(guids)'
    BY <1>3, FilesKept DEF DataInv
<1>5. Plan' = Plan /\ \A k : Original(Plan[k])' = Original(Plan[k])
    BY DEF Plan, Original
<1>6. ASSUME NEW k \in DOMAIN Plan, InPlace(Plan[k]), k < i', NEW q \in Original(Plan[k]), q.guid \in guids
      PROVE  ContentOf(q)'.length <= Megabytes(Plan[k].target.size)
    <2>1. q \in table /\ q.number = Plan[k].original.number
        BY DEF Original
    <2>2. CASE k = i
        BY <1>1, <1>2, <1>6, <2>1, <2>2 DEF SlotsDistinct
    <2>3. CASE k # i
        <3>1. Plan[k].original.number # Plan[i].original.number
            BY <1>1, <2>3 DEF ApartInv, ItemsDistinct
        <3>2. k < i
            BY <1>1, <1>6, <2>3
        <3>3. ContentOf(q).length <= Megabytes(Plan[k].target.size)
            BY <1>6, <3>2 DEF DataInv, FilesFit
        <3> QED BY <1>2, <1>3, <2>1, <3>1, <3>3
    <2> QED BY <2>2, <2>3
<1>7. FilesFit(guids)'
    BY <1>5, <1>6 DEF FilesFit
<1>8. WriteBackInside'
    <2> SUFFICES ASSUME pc' = "writeBack", NEW q \in Original(Plan[i]) PROVE disk'[q.start].length <= q.size
        BY <1>5 DEF WriteBackInside, WritingBack
    <2>1. q = p
        BY <1>1, <1>2 DEF Original, SlotsDistinct
    <2> QED BY <2>1
<1> QED BY <1>4, <1>7, <1>8 DEF DataInv, SourcesFit, CopiesMade, CopiedItems, WhileCopying

LEMMA DataShrinkOnDevice ==
    ASSUME NEW guids, TypeInv, ApartInv, DataInv(guids), ShrinkOnDevice
    PROVE  DataInv(guids)'
<1>1. StoreOK /\ LocalsTypeOK
    BY TypeParts DEF RunOK
<1>2. PICK p \in Original(Plan[i]) :
        /\ ShrinkSupported(p, Plan[i])
        /\ disk' = Written(Bytes(p.start, Shrunk(p, Plan[i]).length), Shrunk(p, Plan[i]))
    BY DEF ShrinkOnDevice
<1>3. /\ UNCHANGED <<table, origin, latest, done, resizes>> /\ pc = "shrinkFilesystems" /\ pc' = pc
      /\ i' = i + 1 /\ InPlace(Plan[i]) /\ i <= Len(Plan)
    BY DEF ShrinkOnDevice, At, Advance, environment
<1>4. i \in DOMAIN Plan /\ p \in table
    BY <1>1, <1>3, PlanParts DEF LocalsTypeOK, Original
<1> DEFINE c == Shrunk(p, Plan[i])
<1>5. /\ c \in Content /\ c.fs = ContentOf(p).fs /\ c.version = ContentOf(p).version
      /\ c.length = Megabytes(Plan[i].target.size) /\ c.length \in 1 .. p.size
    BY <1>2, <1>3, <1>4, ShrunkThere
<1>6. disk' = Written(Bytes(p.start, c.length), c)
    BY <1>2
<1> HIDE DEF c
<1>7. Bytes(p.start, c.length) \subseteq Extent(p)
    BY <1>1, <1>4, <1>5, RangesNest, EntryBytes DEF StoreOK, Extent
<1>8. /\ \A b \in Bytes(p.start, c.length) : disk'[b] = c
      /\ \A b \in DOMAIN disk \ Bytes(p.start, c.length) : disk'[b] = disk[b]
    BY <1>1, <1>4, <1>6, <1>7, WrittenThere
<1>9. ContentOf(p)' = c
    BY <1>1, <1>4, <1>5, <1>8, ContentWritten
<1>10. c.length <= Megabytes(Plan[i].target.size)
    BY <1>5
<1> QED BY <1>3, <1>4, <1>5, <1>7, <1>8, <1>9, <1>10, ShrinkWritten

LEMMA DataShrinkWriteBack ==
    ASSUME NEW guids, TypeInv, ApartInv, DataInv(guids), ShrinkWriteBack, Spared(guids)'
    PROVE  DataInv(guids)'
<1>1. StoreOK /\ LocalsTypeOK
    BY TypeParts DEF RunOK
<1>2. PICK p \in Original(Plan[i]) :
        /\ ShrinkSupported(p, Plan[i])
        /\ \E n \in 1 .. Shrunk(p, Plan[i]).length : disk' = Written(Bytes(p.start, n), Shrunk(p, Plan[i]))
    BY DEF ShrinkWriteBack
<1>3. /\ UNCHANGED <<table, origin, latest, done, resizes>> /\ pc = "shrinkFilesystems"
      /\ pc' = "writeBack" /\ i' = i /\ InPlace(Plan[i]) /\ i <= Len(Plan)
    BY DEF ShrinkWriteBack, At, GoTo, locals, environment
<1>4. i \in DOMAIN Plan /\ p \in table
    BY <1>1, <1>3, PlanParts DEF LocalsTypeOK, Original
<1> DEFINE c == Shrunk(p, Plan[i])
<1>5. c \in Content /\ c.length \in 1 .. p.size
    BY <1>2, <1>3, <1>4, ShrunkThere
<1>6. PICK n \in 1 .. c.length : disk' = Written(Bytes(p.start, n), c)
    BY <1>2
<1> HIDE DEF c
<1>7. p.start \in Nat /\ p.size \in Nat /\ n \in Nat /\ n <= p.size /\ n >= 1 /\ c.length <= p.size
    BY <1>1, <1>4, <1>5, EntryBytes DEF StoreOK
<1>8. Bytes(p.start, n) \subseteq Extent(p) /\ p.start \in Bytes(p.start, n)
    BY <1>7, RangesNest DEF Extent, Bytes
<1>9. /\ \A b \in Bytes(p.start, n) : disk'[b] = c
      /\ \A b \in DOMAIN disk \ Bytes(p.start, n) : disk'[b] = disk[b]
    BY <1>1, <1>4, <1>6, <1>8, WrittenThere
<1>10. disk'[p.start].length <= p.size
    BY <1>7, <1>8, <1>9
<1>11. p.guid \notin guids
    <2>1. Original(Plan[i])' = Original(Plan[i])
        BY <1>3 DEF Original, Plan
    <2> QED BY <1>3, <2>1 DEF Spared, WritingBack
<1> QED BY <1>3, <1>4, <1>8, <1>9, <1>10, <1>11, ShrinkWritten

LEMMA DataShrinkWrittenBack ==
    ASSUME NEW guids, TypeInv, ApartInv, DataInv(guids), ShrinkWrittenBack, Spared(guids)
    PROVE  DataInv(guids)'
<1>1. StoreOK /\ CursorAtItem
    BY TypeParts DEF RunOK
<1>2. PICK p \in Original(Plan[i]) : disk' = Written(Bytes(p.start, disk[p.start].length), disk[p.start])
    BY DEF ShrinkWrittenBack
<1>3. /\ UNCHANGED <<table, origin, latest, done, resizes>> /\ pc = "writeBack"
      /\ pc' = "shrinkFilesystems" /\ i' = i + 1
    BY DEF ShrinkWrittenBack, environment
<1>4. i \in DOMAIN Plan /\ p \in table /\ p.guid \notin guids
    BY <1>1, <1>3 DEF CursorAtItem, Original, Spared, WritingBack
<1>5. disk[p.start].length <= p.size
    BY <1>3 DEF DataInv, WriteBackInside, WritingBack
<1>6. p.start \in Nat /\ p.size \in Nat /\ p.start \in 0 .. DiskSize - 1
    BY <1>1, <1>4, EntryBytes DEF StoreOK
<1>7. disk[p.start].length \in Nat
    BY <1>1, <1>6 DEF StoreOK, Content
<1> DEFINE bytes == Bytes(p.start, disk[p.start].length)
<1>8. bytes \subseteq Extent(p)
    BY <1>5, <1>6, <1>7, RangesNest DEF Extent
<1>9. \A b \in DOMAIN disk \ bytes : disk'[b] = disk[b]
    BY <1>2 DEF Written
<1> HIDE DEF bytes
<1> QED BY <1>3, <1>4, <1>8, <1>9, ShrinkWritten
-----------------------------------------------------------------------------
\* A megabyte is a number of sectors, so a whole number of megabytes is left
\* when a size is cut to whole sectors.
LEMMA MegabytesKept ==
    ASSUME NEW n \in Int
    PROVE  Megabytes(n) \in Int /\ Megabytes(n) <= Align(n)
<1> DEFINE a == n \div MB
           s == MB \div SectorSize
           b == (a * s) * SectorSize
<1>1. a \in Int /\ a * MB \in Int /\ a * MB <= n
    BY DiskAssumption, SMT
<1>2. s \in Int /\ MB = s * SectorSize /\ SectorSize \in Nat \ {0}
    BY DiskAssumption, MegabyteIsPositive, WholeSectors DEF Align
<1> HIDE DEF a, s
<1>3. b \in Int /\ a * MB = b /\ a * s \in Int
    BY <1>1, <1>2, SMT
<1>4. b <= n
    BY <1>1, <1>3
<1> DEFINE c == n \div SectorSize
<1>5. c \in Int /\ n < c * SectorSize + SectorSize /\ c * SectorSize \in Int
    BY WholeSectors, DiskAssumption
<1> HIDE DEF c
<1>6. (a * s) * SectorSize < c * SectorSize + SectorSize
    BY <1>3, <1>4, <1>5, <1>2
<1>7. a * s <= c
    BY <1>3, <1>5, <1>6, ProductCancels
<1>8. (a * s) * SectorSize <= c * SectorSize
    BY <1>3, <1>5, <1>7, ProductMonotone
<1> QED BY <1>1, <1>3, <1>8 DEF Megabytes, Align, a, c

LEMMA SameDisk == ASSUME disk' = disk PROVE \A p : ContentOf(p)' = ContentOf(p)
BY DEF ContentOf, Whole

\* No entry is cut below the filesystem on it,
LEMMA ShrunkKeepsContent ==
    ASSUME NEW guids, TypeInv, ApartInv, DataInv(guids), pc = "shrinkPartitions",
           NEW p \in table, p.guid \in Ids \cap guids
    PROVE  ContentOf(ShrunkEntry(p)) = ContentOf(p)
<1>1. StoreOK /\ LocalsTypeOK /\ HaveFiles(guids)
    BY TypeParts DEF RunOK, DataInv
<1>2. ContentOf(p).fs = p.guid /\ p.size \in Nat
    BY <1>1, OwnFiles, EntryBytes DEF StoreOK
<1>3. CASE Shrinks(p) = {}
    BY <1>3 DEF ShrunkEntry
<1>4. CASE Shrinks(p) # {}
    <2>1. PICK k \in Shrinks(p) : TRUE
        BY <1>4
    <2>2. k \in DOMAIN Plan /\ InPlace(Plan[k]) /\ p \in Original(Plan[k])
        BY <2>1 DEF Shrinks, Original
    <2>3. ShrunkEntry(p) = [p EXCEPT !.size = Align(Plan[k].target.size)]
        BY <2>1, OneShrink
    <2>4. ContentOf(p).length <= Megabytes(Plan[k].target.size)
        BY <2>2 DEF DataInv, FilesFit
    <2>5. Plan[k] \in Item /\ Plan[k].target.size \in Int
        BY <1>1, <2>2, PlanParts, ItemFields
    <2>6. ContentOf(p).length \in Nat
        BY <1>1, ContentOfKnown DEF KnownContent, Content
    <2>7. ContentOf(p).length <= Align(Plan[k].target.size)
        BY <2>4, <2>5, <2>6, MegabytesKept, AlignBounds
    <2>8. ShrunkEntry(p).start = p.start /\ ShrunkEntry(p).size \in Nat
        BY <1>1, ShrunkEntryIs, ApartSlots, ShrunkFits DEF Entry
    <2>9. ShrunkEntry(p).size = Align(Plan[k].target.size)
        BY <1>1, <2>3 DEF StoreOK, TableOK, Entry
    <2> QED BY <1>1, <1>2, <2>7, <2>8, <2>9, ContentCut
<1> QED BY <1>3, <1>4

\* and what is left of one fits where it is to go.
LEMMA ShrunkSourceFits ==
    ASSUME TypeInv, ApartInv, pc = "shrinkPartitions", NEW k \in DOMAIN Plan,
           NEW p \in table, p.number = Plan[k].original.number
    PROVE  ShrunkEntry(p).size <= Align(Plan[k].target.size)
<1>1. StoreOK /\ LocalsTypeOK /\ ItemsCurrent
    BY TypeParts DEF RunOK
<1>2. Plan[k] \in Item /\ Plan[k].target.size \in Int
    BY <1>1, PlanParts, ItemFields
<1>3. Align(Plan[k].target.size) \in Int /\ p \in Entry
    BY <1>1, <1>2, AlignBounds DEF StoreOK, TableOK
<1>4. CASE InPlace(Plan[k])
    <2>1. k \in Shrinks(p)
        BY <1>4 DEF Shrinks
    <2>2. ShrunkEntry(p).size = Align(Plan[k].target.size)
        BY <1>3, <2>1, OneShrink DEF Entry
    <2> QED BY <1>3, <2>2
<1>5. CASE ~InPlace(Plan[k])
    <2>1. Shrinks(p) = {}
        BY <1>5 DEF Shrinks, ApartInv, ItemsDistinct, Items
    <2>2. ShrunkEntry(p) = p
        BY <2>1 DEF ShrunkEntry
    <2>3. PICK q \in table : Plan[k].original = Data(q)
        BY <1>1, PlanSources DEF BeforeTableWrites
    <2>4. q = p
        BY <2>3, ApartSlots DEF SlotsDistinct, Data
    <2>5. Plan[k].original.size = p.size /\ p.size \in Nat /\ Align(p.size) = p.size
        BY <1>1, <2>3, <2>4, EntryBytes DEF Data, StoreOK, TableOK, TableOnDisk
    <2>6. p.size <= Plan[k].target.size
        BY <1>2, <1>5, <2>5 DEF InPlace
    <2> QED BY <1>2, <2>2, <2>5, <2>6, AlignMonotone
<1> QED BY <1>4, <1>5

LEMMA DataShrinkPartitions ==
    ASSUME NEW guids, TypeInv, ApartInv, DataInv(guids), ShrinkPartitions
    PROVE  DataInv(guids)'
<1>1. /\ pc = "shrinkPartitions" /\ UNCHANGED <<origin, latest, disk>> /\ table' = {ShrunkEntry(p) : p \in table}
      /\ Ids' = Ids
    BY ShrinkWrites DEF ShrinkPartitions, environment, Ids
<1>2. HaveFiles(guids)'
    <2> SUFFICES ASSUME NEW g \in Ids \cap guids
                 PROVE  \E e \in table' : e.guid = g /\ ContentOf(e)'.fs = g /\ ContentOf(e)'.version = latest[g]
        BY <1>1 DEF HaveFiles, HasItsFiles
    <2>1. PICK p \in table : p.guid = g /\ ContentOf(p).fs = g /\ ContentOf(p).version = latest[g]
        BY DEF DataInv, HaveFiles, HasItsFiles
    <2>2. ShrunkEntry(p) \in table' /\ ShrunkEntry(p).guid = g
        BY <1>1, <2>1, ShrunkFits
    <2>3. ContentOf(ShrunkEntry(p)) = ContentOf(p)
        BY <1>1, <2>1, ShrunkKeepsContent
    <2>4. PICK e \in table' : e = ShrunkEntry(p)
        BY <2>2
    <2>5. ContentOf(e)' = ContentOf(p)
        BY <1>1, <2>3, <2>4, SameDisk
    <2> QED BY <2>1, <2>2, <2>4, <2>5
<1>3. Exit \/ Restart("createPartitions")
    BY DEF ShrinkPartitions, Commit
<1>4. CASE Exit
    BY <1>2, <1>4, DataSettled DEF Exit, WhileCopying, WritingBack
<1>5. CASE Restart("createPartitions")
    <2>1. pc' = "createPartitions" /\ Plan' = Plan
        BY <1>5 DEF Restart, Plan
    <2>2. ASSUME NEW k \in DOMAIN Plan, NEW e \in table', e.number = Plan[k].original.number
          PROVE  e.size <= Align(Plan[k].target.size)
        <3>1. PICK p \in table : e = ShrunkEntry(p)
            BY <1>1
        <3>2. p.number = Plan[k].original.number
            BY <1>1, <2>2, <3>1, ShrunkFits
        <3> QED BY <1>1, <3>1, <3>2, ShrunkSourceFits
    <2>3. SourcesFit'
        BY <2>1, <2>2 DEF SourcesFit, Original
    <2> QED BY <1>2, <2>1, <2>3 DEF DataInv, FilesFit, CopiesMade, CopiedItems, WhileCopying,
            WriteBackInside, WritingBack
<1> QED BY <1>3, <1>4, <1>5

\* Creating partitions writes to no filesystem.
LEMMA DataCreatePartitions ==
    ASSUME NEW guids, TypeInv, ApartInv, DataInv(guids), CreatePartitions
    PROVE  DataInv(guids)'
<1>1. /\ pc = "createPartitions" /\ UNCHANGED <<origin, latest, disk>> /\ table \subseteq table' /\ Ids' = Ids
    BY DEF CreatePartitions, environment, Commit, Ids
<1>2. SoundTable(table, DiskSize)'
    BY ApartCreated
<1>3. \A p : ContentOf(p)' = ContentOf(p)
    BY <1>1, SameDisk
<1>4. HaveFiles(guids)'
    <2> SUFFICES ASSUME NEW g \in Ids \cap guids
                 PROVE  \E e \in table' : e.guid = g /\ ContentOf(e)'.fs = g /\ ContentOf(e)'.version = latest[g]
        BY <1>1 DEF HaveFiles, HasItsFiles
    <2>1. PICK p \in table : p.guid = g /\ ContentOf(p).fs = g /\ ContentOf(p).version = latest[g]
        BY DEF DataInv, HaveFiles, HasItsFiles
    <2> QED BY <1>1, <1>3, <2>1
<1>5. Exit \/ Restart("copyFilesystems")
    BY DEF CreatePartitions, Commit
<1>6. CASE Exit
    BY <1>4, <1>6, DataSettled DEF Exit, WhileCopying, WritingBack
<1>7. CASE Restart("copyFilesystems")
    <2>1. pc' = "copyFilesystems" /\ i' = 1 /\ Plan' = Plan /\ Moved' = Moved
        BY <1>7 DEF Restart, Plan, Moved
    <2>2. ASSUME NEW k \in DOMAIN Plan, NEW e \in table', e.number = Plan[k].original.number
          PROVE  e.size <= Align(Plan[k].target.size)
        <3>1. PICK p \in table : p.number = Plan[k].original.number
            BY TypeParts DEF RunOK, SourcesKnown
        <3>2. e = p
            BY <1>1, <1>2, <2>2, <3>1 DEF SoundTable
        <3> QED BY <1>1, <2>2, <3>1, <3>2 DEF DataInv, SourcesFit, Original
    <2>3. SourcesFit'
        BY <2>1, <2>2 DEF SourcesFit, Original
    <2>4. \A k \in Moved : k \in Nat /\ ~(k < 1)
        BY TypeParts, PlanParts DEF RunOK, Moved
    <2>5. CopiedItems' = {}
        BY <2>1, <2>4 DEF CopiedItems
    <2> QED BY <1>4, <2>1, <2>3, <2>5 DEF DataInv, FilesFit, CopiesMade, WriteBackInside, WritingBack
<1> QED BY <1>5, <1>6, <1>7
-----------------------------------------------------------------------------
\* A copy overwrites the relocated entry of its item only, which has a GUID
\* that was generated: neither an original nor another copy.
LEMMA TargetWritten ==
    ASSUME NEW guids, TypeInv, ApartInv, IdentityInv, HaveFiles(guids),
           pc \in {"copyFilesystems", "fill", "rawCopy"}, i \in Moved,
           NEW q \in Relocated(Plan[i]), NEW bytes \in SUBSET Extent(q),
           \A b \in DOMAIN disk \ bytes : disk'[b] = disk[b], UNCHANGED <<table, origin, latest>>
    PROVE  /\ HaveFiles(guids)'
           /\ \A k \in CopiedItems : \A x \in Relocated(Plan[k]) : ContentOf(x)' = ContentOf(x)
<1>1. StoreOK /\ q \in table /\ q.number = Plan[i].target.number
    BY TypeParts DEF Relocated
<1>2. \A k \in Moved : \A x \in Relocated(Plan[k]) : x.guid \notin Ids
    BY DEF IdentityInv, CopyTargets, WhileCopying
<1>3. \A x \in table : x # q => ContentOf(x)' = ContentOf(x)
    BY <1>1, ContentElsewhere
<1>4. \A x \in table : x.guid \in Ids => ContentOf(x)' = ContentOf(x)
    BY <1>2, <1>3
<1>5. ASSUME NEW k \in CopiedItems, NEW x \in Relocated(Plan[k]) PROVE ContentOf(x)' = ContentOf(x)
    <2>1. k \in Moved \ {i}
        BY TypeParts DEF CopiedItems, RunOK, LocalsTypeOK
    <2>2. Plan[k].target.number # Plan[i].target.number
        BY <2>1 DEF IdentityInv, CopyTargets, WhileCopying
    <2> QED BY <1>1, <1>3, <2>2 DEF Relocated
<1> QED BY <1>4, <1>5, FilesKept

\* While filesystems are copied it is enough to look at the one at the cursor.
LEMMA DataCopied ==
    ASSUME NEW guids, LocalsTypeOK, DataInv(guids), HaveFiles(guids)',
           UNCHANGED <<table, origin, latest, done, resizes>>,
           pc \in {"copyFilesystems", "fill", "rawCopy"},
           \A k \in CopiedItems : \A x \in Relocated(Plan[k]) : ContentOf(x)' = ContentOf(x),
           \/ i' = i /\ pc' \in {"fill", "rawCopy", "failed"}
           \/ /\ i' = i + 1 /\ pc' = "copyFilesystems"
              /\ i \in Moved => \A p \in Original(Plan[i]) :
                    p.guid \in guids => \E q \in Relocated(Plan[i]) :
                        ContentOf(q)'.fs = p.guid /\ ContentOf(q)'.version = latest[p.guid]
           \/ pc' = "updatePartitions" /\ i > Len(Plan)
    PROVE  DataInv(guids)'
<1>1. /\ Plan' = Plan /\ Moved' = Moved
      /\ \A k : Original(Plan[k])' = Original(Plan[k]) /\ Relocated(Plan[k])' = Relocated(Plan[k])
    BY DEF Plan, Moved, Original, Relocated
<1>2. i \in Nat \ {0} /\ Moved \subseteq 1 .. Len(Plan) /\ Len(Plan) \in Nat
    BY PlanParts DEF LocalsTypeOK, Moved
<1>3. ASSUME NEW k \in CopiedItems', NEW p \in Original(Plan[k]), p.guid \in guids
      PROVE  \E q \in Relocated(Plan[k]) : ContentOf(q)'.fs = p.guid /\ ContentOf(q)'.version = latest[p.guid]
    <2>1. k \in Moved /\ pc' # "failed" /\ pc # "updatePartitions"
        BY <1>1, <1>3 DEF CopiedItems, WhileCopying
    <2>2. CASE k < i
        <3>1. k \in CopiedItems
            BY <2>1, <2>2 DEF CopiedItems, WhileCopying
        <3>2. PICK q \in Relocated(Plan[k]) : ContentOf(q).fs = p.guid /\ ContentOf(q).version = latest[p.guid]
            BY <1>3, <3>1 DEF DataInv, CopiesMade
        <3>3. ContentOf(q)' = ContentOf(q)
            BY <3>1
        <3> QED BY <3>2, <3>3
    <2>3. CASE ~(k < i)
        <3>1. k = i /\ ~(i > Len(Plan)) /\ ~(i' = i)
            BY <1>1, <1>2, <1>3, <2>1, <2>3 DEF CopiedItems
        <3>2. i \in Moved => \A x \in Original(Plan[i]) :
                x.guid \in guids => \E q \in Relocated(Plan[i]) :
                    ContentOf(q)'.fs = x.guid /\ ContentOf(q)'.version = latest[x.guid]
            BY <3>1
        <3> QED BY <1>3, <2>1, <3>1, <3>2
    <2> QED BY <2>2, <2>3
<1>4. CopiesMade(guids)'
    BY <1>1, <1>3 DEF CopiesMade
<1>5. SourcesFit'
    BY <1>1 DEF DataInv, SourcesFit, WhileCopying
<1> QED BY <1>4, <1>5 DEF DataInv, FilesFit, WriteBackInside, WritingBack

\* Nothing is written where nothing moves or the copy matches already.
LEMMA DataSkips ==
    ASSUME NEW guids, TypeInv, ApartInv, DataInv(guids),
           SkipUnmoved \/ SkipMatching \/ CopyUnsupported \/ (NextPhase /\ pc = "copyFilesystems")
    PROVE  DataInv(guids)'
<1>1. LocalsTypeOK /\ HaveFiles(guids)
    BY TypeParts DEF RunOK, DataInv
<1>2. UNCHANGED <<table, origin, latest, done, resizes, disk>> /\ pc = "copyFilesystems"
    BY DEF SkipUnmoved, SkipMatching, CopyUnsupported, NextPhase, Loop, Restart, Copying, At, Advance, GoTo,
        locals, environment
<1>3. HaveFiles(guids)' /\ \A x : ContentOf(x)' = ContentOf(x)
    BY <1>1, <1>2, FilesUntouched, SameDisk
<1>4. ASSUME SkipMatching, NEW x \in Original(Plan[i]), x.guid \in guids
      PROVE  \E y \in Relocated(Plan[i]) : ContentOf(y)'.fs = x.guid /\ ContentOf(y)'.version = latest[x.guid]
    <2>1. PICK p, q \in table : Copying(p, q) /\ Matching(p, q)
        BY <1>4 DEF SkipMatching
    <2>2. i \in DOMAIN Plan /\ p \in Original(Plan[i]) /\ q \in Relocated(Plan[i])
        BY <2>1 DEF Copying, Moved
    <2>3. x = p
        BY <1>4, <2>2, ApartSlots DEF SlotsDistinct, Original
    <2>4. ContentOf(p).fs = p.guid /\ ContentOf(p).version = latest[p.guid]
        BY <1>1, <1>2, <1>4, <2>2, <2>3, SourceIs, OwnFiles
    <2> QED BY <1>3, <2>1, <2>2, <2>3, <2>4 DEF Matching, SameFiles
<1>5. \/ i' = i /\ pc' \in {"fill", "rawCopy", "failed"}
      \/ /\ i' = i + 1 /\ pc' = "copyFilesystems"
         /\ i \in Moved => \A x \in Original(Plan[i]) :
               x.guid \in guids => \E y \in Relocated(Plan[i]) :
                   ContentOf(y)'.fs = x.guid /\ ContentOf(y)'.version = latest[x.guid]
      \/ pc' = "updatePartitions" /\ i > Len(Plan)
    BY <1>2, <1>4 DEF SkipUnmoved, SkipMatching, CopyUnsupported, NextPhase, Loop, Restart, Advance, GoTo, locals
<1> QED BY <1>1, <1>2, <1>3, <1>5, DataCopied

\* The part of a copy that is left for a second step.
LEMMA DataStarts ==
    ASSUME NEW guids, TypeInv, ApartInv, IdentityInv, DataInv(guids), Format \/ StartRawCopy
    PROVE  DataInv(guids)'
<1>1. LocalsTypeOK /\ StoreOK /\ HaveFiles(guids)
    BY TypeParts DEF RunOK, DataInv
<1>2. /\ UNCHANGED <<table, origin, latest, done, resizes>> /\ pc = "copyFilesystems"
      /\ i' = i /\ pc' \in {"fill", "rawCopy"}
    BY DEF Format, StartRawCopy, Copying, At, GoTo, locals, environment
<1>3. \E p \in table : \E q \in table :
        /\ Copying(p, q)
        /\ \E bytes \in SUBSET Extent(q) : \A b \in DOMAIN disk \ bytes : disk'[b] = disk[b]
    <2>1. CASE Format
        <3>1. PICK p, q \in table :
                Copying(p, q) /\ disk' = Written(Extent(q), Empty(ContentOf(p).fs, q.size))
            BY <2>1 DEF Format
        <3>2. \A b \in DOMAIN disk \ Extent(q) : disk'[b] = disk[b]
            BY <3>1 DEF Written
        <3> QED BY <3>1, <3>2
    <2>2. CASE StartRawCopy
        <3>1. PICK p, q \in table :
                Copying(p, q) /\ \E n \in 0 .. p.size - 1 : disk' = Copied(p.start, q.start, n)
            BY <2>2 DEF StartRawCopy
        <3>2. PICK n \in 0 .. p.size - 1 : disk' = Copied(p.start, q.start, n)
            BY <3>1
        <3>3. i \in DOMAIN Plan /\ p \in Original(Plan[i]) /\ q \in Relocated(Plan[i]) /\ i \in Moved
            BY <3>1 DEF Copying, Moved
        <3>4. p.size <= Align(Plan[i].target.size) /\ q.size = Align(Plan[i].target.size)
            BY <1>2, <3>3 DEF DataInv, SourcesFit, IdentityInv, CopyTargets, WhileCopying
        <3>5. q.start \in Nat /\ q.size \in Nat /\ p.size \in Nat
            BY <1>1, EntryBytes DEF StoreOK
        <3>6. Bytes(q.start, n) \subseteq Extent(q)
            BY <3>4, <3>5 DEF Bytes, Extent
        <3>7. \A b \in DOMAIN disk \ Bytes(q.start, n) : disk'[b] = disk[b]
            BY <3>2 DEF Copied
        <3> QED BY <3>1, <3>6, <3>7
    <2> QED BY <2>1, <2>2
<1>4. PICK p \in table : \E q \in table :
        /\ Copying(p, q)
        /\ \E bytes \in SUBSET Extent(q) : \A b \in DOMAIN disk \ bytes : disk'[b] = disk[b]
    BY <1>3
<1>5. PICK q \in table :
        /\ Copying(p, q)
        /\ \E bytes \in SUBSET Extent(q) : \A b \in DOMAIN disk \ bytes : disk'[b] = disk[b]
    BY <1>4
<1>6. PICK bytes \in SUBSET Extent(q) : \A b \in DOMAIN disk \ bytes : disk'[b] = disk[b]
    BY <1>5
<1>7. i \in Moved /\ q \in Relocated(Plan[i])
    BY <1>5 DEF Copying
<1>8. /\ HaveFiles(guids)'
      /\ \A k \in CopiedItems : \A x \in Relocated(Plan[k]) : ContentOf(x)' = ContentOf(x)
    BY <1>1, <1>2, <1>6, <1>7, TargetWritten
<1> QED BY <1>1, <1>2, <1>8, DataCopied

\* The second step puts the original's files on the copy,
LEMMA DataFinishes ==
    ASSUME NEW guids, TypeInv, ApartInv, IdentityInv, DataInv(guids), pc \in {"fill", "rawCopy"},
           NEW p \in Original(Plan[i]), NEW q \in Relocated(Plan[i]), NEW bytes \in SUBSET Extent(q),
           \A b \in DOMAIN disk \ bytes : disk'[b] = disk[b],
           ContentOf(p).fs \in Ids =>
               ContentOf(q)'.fs = ContentOf(p).fs /\ ContentOf(q)'.version = ContentOf(p).version,
           pc' = "copyFilesystems", i' = i + 1, UNCHANGED <<table, origin, latest, done, resizes>>
    PROVE  DataInv(guids)'
<1>1. LocalsTypeOK /\ HaveFiles(guids) /\ i \in Moved /\ i \in DOMAIN Plan
    BY TypeParts DEF RunOK, DataInv, IdentityInv, CopyingMoved, Moved
<1>2. /\ HaveFiles(guids)'
      /\ \A k \in CopiedItems : \A x \in Relocated(Plan[k]) : ContentOf(x)' = ContentOf(x)
    BY <1>1, TargetWritten
<1>3. ASSUME NEW x \in Original(Plan[i]), x.guid \in guids
      PROVE  \E y \in Relocated(Plan[i]) : ContentOf(y)'.fs = x.guid /\ ContentOf(y)'.version = latest[x.guid]
    <2>1. x = p
        BY ApartSlots DEF SlotsDistinct, Original
    <2>2. p \in table /\ p.guid \in Ids \cap guids
        BY <1>1, <1>3, <2>1, SourceIs
    <2>3. ContentOf(p).fs = p.guid /\ ContentOf(p).version = latest[p.guid]
        BY <1>1, <2>2, OwnFiles
    <2> QED BY <2>1, <2>2, <2>3
<1> QED BY <1>1, <1>2, <1>3, DataCopied

\* file by file into a new filesystem over the whole of it,
LEMMA DataFill ==
    ASSUME NEW guids, TypeInv, ApartInv, IdentityInv, DataInv(guids), Fill
    PROVE  DataInv(guids)'
<1>1. StoreOK /\ pc = "fill" /\ UNCHANGED <<table, origin, latest, done, resizes>>
      /\ pc' = "copyFilesystems" /\ i' = i + 1
    BY TypeParts DEF Fill, environment
<1>2. PICK p \in Original(Plan[i]), q \in Relocated(Plan[i]) : disk' = Written(Extent(q), Filled(p, q))
    BY DEF Fill
<1>3. p \in table /\ q \in table /\ q.start \in Nat /\ q.size \in Nat \ {0}
    BY <1>1, EntryBytes DEF StoreOK, Original, Relocated
<1> DEFINE c == Filled(p, q)
<1>4. /\ c \in Content /\ c.length = q.size
      /\ c.fs = ContentOf(p).fs /\ c.version = ContentOf(p).version
    BY <1>1, <1>3, ContentOfKnown DEF KnownContent, Content, Filled, Made
<1>5. disk' = Written(Extent(q), c)
    BY <1>2
<1> HIDE DEF c
<1>6. /\ \A b \in Extent(q) : disk'[b] = c
      /\ \A b \in DOMAIN disk \ Extent(q) : disk'[b] = disk[b]
    BY <1>1, <1>3, <1>5, WrittenThere
<1>7. c.length \in 1 .. q.size /\ Bytes(q.start, c.length) = Extent(q)
    BY <1>3, <1>4 DEF Extent
<1>8. ContentOf(q)' = c
    BY <1>1, <1>3, <1>4, <1>6, <1>7, ContentWritten
<1> QED BY <1>1, <1>4, <1>6, <1>8, DataFinishes

\* or byte by byte, the entry being no longer than the copy.
LEMMA RangeShifts ==
    ASSUME NEW s \in Nat, NEW t \in Nat, NEW m \in Nat, NEW b \in Bytes(t, m)
    PROVE  b - t + s \in Bytes(s, m)
BY DEF Bytes

LEMMA DataFinishRawCopy ==
    ASSUME NEW guids, TypeInv, ApartInv, IdentityInv, DataInv(guids), FinishRawCopy
    PROVE  DataInv(guids)'
<1>1. /\ StoreOK /\ HaveFiles(guids) /\ pc = "rawCopy" /\ UNCHANGED <<table, origin, latest, done, resizes>>
      /\ pc' = "copyFilesystems" /\ i' = i + 1 /\ i \in Moved
    BY TypeParts DEF FinishRawCopy, environment, DataInv, IdentityInv, CopyingMoved
<1>2. PICK p \in Original(Plan[i]), q \in Relocated(Plan[i]) : disk' = Copied(p.start, q.start, p.size)
    BY DEF FinishRawCopy
<1>3. /\ p \in table /\ q \in table /\ i \in DOMAIN Plan
      /\ p.start \in Nat /\ p.size \in Nat \ {0} /\ p.start + p.size <= DiskSize
      /\ q.start \in Nat /\ q.size \in Nat \ {0} /\ q.start + q.size <= DiskSize
      /\ DOMAIN disk = 0 .. DiskSize - 1
    BY <1>1, EntryBytes DEF StoreOK, Original, Relocated, Moved
<1>4. p.size <= q.size
    <2>1. p.size <= Align(Plan[i].target.size)
        BY <1>1, <1>2, <1>3 DEF DataInv, SourcesFit, WhileCopying
    <2>2. q.size = Align(Plan[i].target.size)
        BY <1>1, <1>2 DEF IdentityInv, CopyTargets, WhileCopying
    <2> QED BY <2>1, <2>2
<1>5. Bytes(q.start, p.size) \subseteq Extent(q) /\ Extent(q) \subseteq DOMAIN disk
    <2>1. Bytes(q.start, p.size) \subseteq Extent(q)
        BY <1>3, <1>4, RangesNest DEF Extent
    <2>2. Extent(q) \subseteq DOMAIN disk
        BY <1>3, SizeAssumption DEF Bytes, Extent
    <2> QED BY <2>1, <2>2
<1>6. \A b \in DOMAIN disk \ Bytes(q.start, p.size) : disk'[b] = disk[b]
    BY <1>2 DEF Copied
<1>7. ASSUME ContentOf(p).fs \in Ids PROVE ContentOf(q)' = ContentOf(p)
    <2> DEFINE c == ContentOf(p)
    <2>1. /\ c \in Content /\ c.length \in 1 .. p.size /\ c.length \in 1 .. q.size
          /\ \A b \in Bytes(p.start, c.length) : disk[b] = c
        BY <1>1, <1>3, <1>4, <1>7, ContentIsWhole, ContentOfKnown DEF Whole, KnownContent
    <2> HIDE DEF c
    <2>2. ASSUME NEW b \in Bytes(q.start, c.length) PROVE disk'[b] = c
        <3>1. b \in Bytes(q.start, p.size) /\ b - q.start + p.start \in Bytes(p.start, c.length)
            <4>1. c.length \in Nat /\ c.length <= p.size /\ p.size \in Nat
                BY <1>3, <2>1
            <4> QED BY <1>3, <4>1, RangesNest, RangeShifts
        <3>2. disk'[b] = disk[b - q.start + p.start]
            BY <1>2, <1>5, <3>1 DEF Copied
        <3> QED BY <2>1, <3>1, <3>2
    <2>3. ContentOf(q)' = c
        BY <1>1, <1>3, <2>1, <2>2, ContentWritten
    <2> QED BY <2>3 DEF c
<1> QED BY <1>1, <1>2, <1>5, <1>6, <1>7, DataFinishes
-----------------------------------------------------------------------------
\* Each original is replaced by a copy that has its files.
LEMMA DataUpdatePartitions ==
    ASSUME NEW guids, TypeInv, ApartInv, IdentityInv, DataInv(guids), UpdatePartitions
    PROVE  DataInv(guids)'
<1>1. /\ pc = "updatePartitions" /\ UNCHANGED <<origin, latest, disk>> /\ Ids' = Ids /\ pc' = "off"
      /\ table' = {FinalEntry(q) : q \in {p \in table : ~Superseded(p)}}
    BY DEF UpdatePartitions, Commit, Exit, environment, Ids
<1>2. HaveFiles(guids) /\ SlotsDistinct
    BY ApartSlots DEF DataInv
<1>3. HaveFiles(guids)'
    <2> SUFFICES ASSUME NEW g \in Ids \cap guids
                 PROVE  \E e \in table' : e.guid = g /\ ContentOf(e)'.fs = g /\ ContentOf(e)'.version = latest[g]
        BY <1>1 DEF HaveFiles, HasItsFiles
    <2>1. PICK p \in table : p.guid = g /\ ContentOf(p).fs = g /\ ContentOf(p).version = latest[g]
        BY <1>2 DEF HaveFiles, HasItsFiles
    <2>2. PICK q \in table :
            /\ ~Superseded(q) /\ FinalEntry(q).guid = g
            /\ q = p \/ \E k \in CopiedItems : p \in Original(Plan[k]) /\ q \in Relocated(Plan[k])
        BY <1>1, <2>1, Succession
    <2>3. ContentOf(q).fs = g /\ ContentOf(q).version = latest[g]
        <3>1. CASE q = p
            BY <2>1, <3>1
        <3>2. ASSUME NEW k \in CopiedItems, p \in Original(Plan[k]), q \in Relocated(Plan[k])
              PROVE  ContentOf(q).fs = g /\ ContentOf(q).version = latest[g]
            <4>1. PICK y \in Relocated(Plan[k]) : ContentOf(y).fs = p.guid /\ ContentOf(y).version = latest[p.guid]
                BY <2>1, <3>2 DEF DataInv, CopiesMade
            <4>2. y = q
                BY <1>2, <3>2 DEF SlotsDistinct, Relocated
            <4> QED BY <2>1, <4>1, <4>2
        <3> QED BY <2>2, <3>1, <3>2
    <2>4. PICK e \in table' : e = FinalEntry(q)
        BY <1>1, <2>2
    <2>5. ContentOf(e) = ContentOf(q)
        BY <2>4, FinalEntryIs DEF ContentOf, Whole
    <2>6. ContentOf(e)' = ContentOf(e)
        BY <1>1, SameDisk
    <2> QED BY <2>2, <2>3, <2>4, <2>5, <2>6
<1> QED BY <1>1, <1>3, DataSettled DEF WhileCopying, WritingBack

\* What the operating system writes is the latest from then on.
LEMMA DataOsWrites ==
    ASSUME NEW guids, TypeInv, ApartInv, DataInv(guids), OsWrites
    PROVE  DataInv(guids)'
<1>1. StoreOK /\ HaveFiles(guids) /\ UNCHANGED <<table, origin, pc>> /\ pc = "off" /\ Ids' = Ids
    BY TypeParts DEF OsWrites, plannerVars, DataInv, Ids
<1>2. PICK p \in table, left \in BOOLEAN :
        /\ ContentOf(p).fs = p.guid
        /\ KindOf(p) \in {"ext4", "fat32"}
        /\ disk' = Written(Bytes(p.start, ContentOf(p).length),
                           [ContentOf(p) EXCEPT !.version = latest[p.guid] + 1, !.dirty = @ \/ left])
        /\ latest' = [latest EXCEPT ![p.guid] = @ + 1]
    BY DEF OsWrites
<1>3. p.guid \in Ids
    <2>1. p.guid \in DOMAIN Kind
        BY <1>2 DEF KindOf
    <2>2. p.guid[1] # "fresh"
        BY <2>1, FilesystemAssumption
    <2> QED BY <1>1, <2>2 DEF StoreOK, TableOK, GuidsKnown
<1>4. /\ ContentOf(p) \in Content /\ ContentOf(p).length \in 1 .. p.size
      /\ p.start \in Nat /\ p.size \in Nat \ {0} /\ latest \in [Ids -> Nat]
    BY <1>1, <1>2, <1>3, ContentIsWhole, ContentOfKnown, EntryBytes DEF Whole, KnownContent, StoreOK
<1> DEFINE c == [ContentOf(p) EXCEPT !.version = latest[p.guid] + 1, !.dirty = @ \/ left]
           bytes == Bytes(p.start, ContentOf(p).length)
<1>5. /\ c \in Content /\ c.length = ContentOf(p).length /\ c.fs = p.guid
      /\ c.version = latest[p.guid] + 1
    <2>1. latest[p.guid] + 1 \in Nat /\ (ContentOf(p).dirty \/ left) \in BOOLEAN
        BY <1>3, <1>4
    <2> QED BY <1>2, <1>4, <2>1 DEF Content
<1>6. bytes \subseteq Extent(p)
    BY <1>4 DEF Extent, Bytes
<1>7. disk' = Written(bytes, c) /\ bytes = Bytes(p.start, c.length)
    BY <1>2, <1>5
<1> HIDE DEF c, bytes
<1>8. (\A b \in bytes : disk'[b] = c) /\ \A b \in DOMAIN disk \ bytes : disk'[b] = disk[b]
    BY <1>1, <1>6, <1>7, WrittenThere
<1>9. ContentOf(p)' = c
    BY <1>1, <1>4, <1>5, <1>7, <1>8, ContentWritten
<1>10. \A x \in table : x # p => ContentOf(x)' = ContentOf(x)
    BY <1>1, <1>6, <1>8, ContentElsewhere
<1>11. latest'[p.guid] = latest[p.guid] + 1 /\ \A g \in Ids : g # p.guid => latest'[g] = latest[g]
    BY <1>2, <1>3, <1>4
<1>12. HaveFiles(guids)'
    <2> SUFFICES ASSUME NEW g \in Ids \cap guids
                 PROVE  \E x \in table : x.guid = g /\ ContentOf(x)'.fs = g /\ ContentOf(x)'.version = latest'[g]
        BY <1>1 DEF HaveFiles, HasItsFiles
    <2>1. PICK x \in table : x.guid = g /\ ContentOf(x).fs = g /\ ContentOf(x).version = latest[g]
        BY <1>1 DEF HaveFiles, HasItsFiles
    <2>2. CASE g = p.guid
        BY <1>5, <1>9, <1>11, <2>2
    <2>3. CASE g # p.guid
        BY <1>10, <1>11, <2>1, <2>3
    <2> QED BY <2>2, <2>3
<1> QED BY <1>1, <1>12, DataSettled DEF WhileCopying, WritingBack, WritingBack
-----------------------------------------------------------------------------
LEMMA DataNext ==
    ASSUME NEW guids, TypeInv, ApartInv, IdentityInv, DataInv(guids), Spared(guids), Spared(guids)',
           [DiskNext]_vars
    PROVE  DataInv(guids)'
<1> USE TypeParts DEF RunOK
<1>1. CASE Planning \/ Abort \/ DryRun \/ Interrupt \/ ChangeRequest
    <2>1. UNCHANGED <<table, origin, latest, disk>>
        BY <1>1, NextFrame DEF Planning, Abort, DryRun, Interrupt, ChangeRequest, environment
    <2>2. pc' \in {"off", "classify", "allocate", "planned", "failed"}
        BY <1>1, NextFrame DEF Planning, Abort, DryRun, Interrupt, ChangeRequest, Exit
    <2> QED BY <2>1, <2>2, FilesUntouched, DataSettled DEF DataInv, WhileCopying, WritingBack
<1>2. CASE NextPhase
    <2>1. CASE pc = "copyFilesystems"
        BY <1>2, <2>1, DataSkips
    <2>2. CASE pc # "copyFilesystems"
        BY <1>2, <2>2, DataGoesOn
    <2> QED BY <2>1, <2>2
<1>3. CASE Execute \/ Checking \/ KeepFilesystem \/ ShrinkRefused
    BY <1>3, DataChecks, DataGoesOn
<1>4. CASE ShrinkOnDevice
    BY <1>4, DataShrinkOnDevice
<1>5. CASE ShrinkWriteBack \/ ShrinkWrittenBack
    BY <1>5, DataShrinkWriteBack, DataShrinkWrittenBack
<1>6. CASE ShrinkPartitions
    BY <1>6, DataShrinkPartitions
<1>7. CASE CreatePartitions
    BY <1>7, DataCreatePartitions
<1>8. CASE SkipUnmoved \/ SkipMatching \/ CopyUnsupported
    BY <1>8, DataSkips
<1>9. CASE Format \/ StartRawCopy
    BY <1>9, DataStarts
<1>10. CASE Fill
    BY <1>10, DataFill
<1>11. CASE FinishRawCopy
    BY <1>11, DataFinishRawCopy
<1>12. CASE UpdatePartitions
    BY <1>12, DataUpdatePartitions
<1>13. CASE OsWrites
    BY <1>13, DataOsWrites
<1>14. CASE UNCHANGED vars
    <2>1. UNCHANGED <<table, origin, latest, disk, pc, i, done, resizes>>
        BY <1>14 DEF vars, plannerVars, locals, environment
    <2>2. HaveFiles(guids)' /\ \A x : ContentOf(x)' = ContentOf(x)
        BY <2>1, FilesUntouched, SameDisk DEF DataInv
    <2>3. /\ Plan' = Plan /\ CopiedItems' = CopiedItems
          /\ \A k : Original(Plan[k])' = Original(Plan[k]) /\ Relocated(Plan[k])' = Relocated(Plan[k])
        BY <2>1 DEF Plan, CopiedItems, Moved, Original, Relocated
    <2>4. FilesFit(guids)'
        BY <2>1, <2>2, <2>3 DEF DataInv, FilesFit
    <2>5. SourcesFit' /\ CopiesMade(guids)' /\ WriteBackInside'
        BY <2>1, <2>2, <2>3 DEF DataInv, SourcesFit, CopiesMade, WriteBackInside
    <2> QED BY <2>2, <2>4, <2>5 DEF DataInv
<1> QED BY <1>1, <1>2, <1>3, <1>4, <1>5, <1>6, <1>7, <1>8, <1>9, <1>10, <1>11, <1>12, <1>13, <1>14
        DEF DiskNext, Run, Checking

LEMMA AllFiles == ASSUME TypeInv, HaveFiles(Guid) PROVE NoDataLoss
<1>1. Ids \subseteq Guid
    BY FilesystemAssumption DEF TypeInv, DiskTypeOK, Ids, Guid
<1> QED BY <1>1 DEF HaveFiles, NoDataLoss

\* The files of every partition are somewhere at every moment: a filesystem is
\* shrunk before its partition, a copy is complete before it takes its
\* original's place, and nothing a stopped run left is taken for a copy that was
\* made, unless the operating system has not written to the original since.
\* Nothing is lost unless a repaired or shrunk copy is ever written back into an
\* image file.
THEOREM FilesAlwaysKept ==
    DiskSpec /\ []NamedOnce /\ []LabelsApart /\ [](pc \notin WritingBack) => []NoDataLoss
<1>1. DiskInit => TypeInv /\ ApartInv /\ IdentityInv /\ DataInv(Guid)
    BY DiskTypeInit, ApartInit, IdentityInit, DataInit
<1>2. pc \notin WritingBack => Spared(Guid)
    BY DEF Spared
<1>3. TypeInv /\ ApartInv /\ IdentityInv /\ DataInv(Guid) /\ NamedOnce /\ LabelsApart
        /\ Spared(Guid) /\ Spared(Guid)' /\ [DiskNext]_vars
        => (TypeInv /\ ApartInv /\ IdentityInv /\ DataInv(Guid))'
    BY ApartSlots, DiskTypeNext, ApartNext, IdentityNext, DataNext
<1>4. TypeInv /\ DataInv(Guid) => NoDataLoss
    BY AllFiles DEF DataInv
<1> QED BY <1>1, <1>2, <1>3, <1>4, PTL DEF DiskSpec

\* On a block device e2fsck and resize2fs work in place, so nothing is written
\* back.
LEMMA NoWriteBack ==
    ASSUME IsBlock, pc \notin WritingBack, [DiskNext]_vars
    PROVE  pc' \notin WritingBack
<1> USE DEF WritingBack
<1>1. CASE Planning
    BY <1>1, NextFrame DEF Planning
<1>2. CASE Abort \/ DryRun \/ Execute \/ NextPhase \/ Interrupt \/ OsWrites \/ ChangeRequest \/ UNCHANGED vars
    BY <1>2 DEF Abort, DryRun, Execute, NextPhase, Loop, Restart, Interrupt, Exit, OsWrites, ChangeRequest, vars,
        plannerVars
<1>3. CASE \/ Checking
           \/ KeepFilesystem \/ ShrinkRefused \/ ShrinkOnDevice \/ ShrinkWriteBack \/ ShrinkWrittenBack
    BY <1>3, CheckingFrame DEF KeepFilesystem, ShrinkRefused, ShrinkOnDevice,
        ShrinkWriteBack, ShrinkWrittenBack, Advance, GoTo, At
<1>4. CASE SkipUnmoved \/ SkipMatching \/ Format \/ Fill \/ StartRawCopy \/ FinishRawCopy \/ CopyUnsupported
    BY <1>4 DEF SkipUnmoved, SkipMatching, Format, Fill, StartRawCopy, FinishRawCopy, CopyUnsupported, Advance,
        GoTo, At
<1>5. CASE ShrinkPartitions \/ CreatePartitions \/ UpdatePartitions
    BY <1>5 DEF ShrinkPartitions, CreatePartitions, UpdatePartitions, Commit, Restart, Exit
<1> QED BY <1>1, <1>2, <1>3, <1>4, <1>5 DEF DiskNext, Run, Checking

THEOREM FilesAlwaysKeptOnDevices ==
    ASSUME IsBlock
    PROVE  DiskSpec /\ []NamedOnce /\ []LabelsApart => []NoDataLoss
<1>1. DiskInit => pc \notin WritingBack
    BY DEF DiskInit, Init, WritingBack
<1>2. pc \notin WritingBack /\ [DiskNext]_vars => (pc \notin WritingBack)'
    BY NoWriteBack DEF WritingBack
<1>3. DiskSpec => [](pc \notin WritingBack)
    BY <1>1, <1>2, PTL DEF DiskSpec
<1> QED BY <1>3, FilesAlwaysKept, PTL

-----------------------------------------------------------------------------

(***************************************************************************)
(* Callers.  What the callers have to keep to for a disk never to lose a   *)
(* partition or a file, whatever runs of whatever requests stop where:     *)
(* SensibleCalls can be read off the request and the disk before its first *)
(* run, and implies what the proofs so far assume of the disk whenever a   *)
(* run plans.                                                              *)
(***************************************************************************)

\* An entry with an original's GUID has its name.
LEMMA NamedAsBefore ==
    ASSUME TypeInv, ApartInv, IdentityInv, NEW p \in table, p.guid \in Ids
    PROVE  Before(p.guid) \in origin /\ Before(p.guid).guid = p.guid /\ Before(p.guid).name = p.name
<1>1. Before(p.guid) \in origin /\ Before(p.guid).guid = p.guid
    BY TypeParts, BeforeOf
<1>2. PICK q \in table : q.guid = p.guid /\ q.name = Before(p.guid).name
    BY DEF IdentityInv, IdentityKept
<1>3. q = p
    BY <1>2 DEF ApartInv, SoundTable
<1> QED BY <1>1, <1>2, <1>3

\* What a sensible caller names is, and was from the start, what he meant.
LEMMA NamedBefore ==
    ASSUME TypeInv, ApartInv, IdentityInv, KeepsNumbers(req) => NumbersInv,
           NEW id, Lasting(id, req, origin), NEW p \in table, Matches(id, p)
    PROVE  p.guid \in Ids /\ Before(p.guid) \in Named(id, origin)
<1>1. StoreOK /\ SlotsDistinct
    BY TypeParts, ApartSlots
<1>2. CASE id.by = "name" /\ IsBlock /\ p.number = id.value
    <2>1. NumbersInv /\ Named(id, origin) # {}
        BY <1>2 DEF Lasting
    <2>2. PICK o \in origin : Matches(id, o)
        BY <2>1 DEF Named
    <2>3. o.number = p.number
        BY <1>2, <2>2 DEF Matches
    <2>4. o.guid \in Ids /\ Before(o.guid) = o
        BY <1>1, BeforeIs
    <2>5. PICK q \in table : q.guid = o.guid
        BY <2>4 DEF IdentityInv, IdentityKept
    <2>6. q.number = o.number
        BY <2>1, <2>4, <2>5 DEF NumbersInv
    <2>7. q = p
        BY <1>1, <2>3, <2>6 DEF SlotsDistinct
    <2> QED BY <2>2, <2>4, <2>5, <2>7 DEF Named
<1>3. CASE id.by = "label" /\ p.name = id.value
    <2>1. p.guid \in Ids
        <3> SUFFICES ASSUME p.guid \notin Ids PROVE FALSE
            OBVIOUS
        <3>1. PICK o \in origin : p.name = Alternate(o.name)
            BY DEF IdentityInv, IdentityKept
        <3> QED BY <1>3, <3>1 DEF Lasting
    <2> QED BY <1>3, <2>1, NamedAsBefore DEF Named, Matches
<1>4. CASE id.by = "uuid" /\ p.guid = id.value
    <2>1. p.guid[1] = "original"
        BY <1>4 DEF Lasting
    <2>2. p.guid \in Ids
        BY <2>1 DEF ApartInv, FreshBySlot
    <2> QED BY <1>4, <2>2, NamedAsBefore DEF Named, Matches
<1> QED BY <1>2, <1>3, <1>4 DEF Matches

LEMMA ChosenBefore ==
    ASSUME SensibleCalls, CallsInv, NEW id \in Requested, NEW p \in FirstMatch(table, id)
    PROVE  p \in table /\ p.guid \in Ids /\ Before(p.guid) \in Named(id, origin)
<1>1. p \in table /\ Matches(id, p)
    BY DEF FirstMatch
<1>2. req \in Requests /\ origin \in Layouts
    BY DEF CallsInv, TypeInv, DiskTypeOK
<1>3. Lasting(id, req, origin)
    BY <1>2 DEF SensibleCalls, Sensible, Asked, Requested
<1> QED BY <1>1, <1>3, NamedBefore DEF CallsInv

\* So what the proofs assume of every moment a run plans is true of it.
LEMMA SensibleNames ==
    ASSUME SensibleCalls, CallsInv
    PROVE  NamedOnce /\ LabelsApart
<1> DEFINE named == UNION {Named(id, origin) : id \in Asked(req)}
<1>1. Sensible(req, origin) /\ Asked(req) = Requested
    BY DEF SensibleCalls, CallsInv, TypeInv, DiskTypeOK, Asked, Requested
<1>2. ASSUME NEW p \in Chosen
      PROVE  p \in table /\ p.guid \in Ids /\ Before(p.guid) \in named
    <2>1. PICK id \in Requested : p \in FirstMatch(table, id)
        BY DEF Chosen
    <2>2. p \in table /\ p.guid \in Ids /\ Before(p.guid) \in Named(id, origin)
        BY <2>1, ChosenBefore
    <2> QED BY <1>1, <2>1, <2>2
<1>3. \A k \in DOMAIN req.grows : req.grows[k] \in Requested
    BY DEF Requested
<1>4. req.shrink # NoShrink => req.shrink \in Requested
    BY DEF Requested
<1>5. ASSUME NEW k \in DOMAIN req.grows, NEW m \in DOMAIN req.grows, k # m
      PROVE  FirstMatch(table, req.grows[k]) \cap FirstMatch(table, req.grows[m]) = {}
    BY <1>1, <1>3, <1>5, ChosenBefore DEF Sensible
<1>6. ASSUME req.shrink # NoShrink, NEW k \in DOMAIN req.grows
      PROVE  FirstMatch(table, req.grows[k]) \cap FirstMatch(table, req.shrink) = {}
    BY <1>1, <1>3, <1>4, <1>6, ChosenBefore DEF Sensible
<1>7. NamedOnce
    BY <1>2, <1>5, <1>6 DEF NamedOnce
<1>8. ASSUME NEW p \in Chosen, NEW q \in Chosen, q.name = p.name
      PROVE  q = p
    <2>1. Before(p.guid) \in named /\ Before(q.guid) \in named
        BY <1>2
    <2>2. Before(p.guid).name = Before(q.guid).name
        BY <1>2, <1>8, NamedAsBefore DEF CallsInv
    <2>3. Before(p.guid) = Before(q.guid)
        BY <1>1, <2>1, <2>2 DEF Sensible
    <2>4. p.guid = q.guid
        BY <1>2, <2>3, NamedAsBefore DEF CallsInv
    <2> QED BY <1>2, <2>4 DEF CallsInv, ApartInv, SoundTable
<1>9. ASSUME NEW p \in Chosen, NEW q \in table, q.name = Alternate(p.name), q.guid \in Ids
      PROVE  FALSE
    <2>1. Before(p.guid) \in named /\ Before(q.guid) \in origin
        BY <1>2, <1>9, NamedAsBefore DEF CallsInv
    <2>2. Before(p.guid).name = p.name /\ Before(q.guid).name = q.name
        BY <1>2, <1>9, NamedAsBefore DEF CallsInv
    <2> QED BY <1>1, <1>9, <2>1, <2>2 DEF Sensible
<1>10. LabelsApart
    BY <1>8, <1>9 DEF LabelsApart
<1> QED BY <1>7, <1>10
-----------------------------------------------------------------------------
\* The arguments change between runs only.
LEMMA RequestFrame ==
    ASSUME [DiskNext]_vars
    PROVE  req' = req \/ ChangeRequest
<1>1. CASE Planning
    BY <1>1, NextFrame DEF Planning
<1>2. CASE Abort \/ DryRun \/ Execute \/ NextPhase \/ Interrupt \/ OsWrites \/ ChangeRequest \/ UNCHANGED vars
    BY <1>2 DEF Abort, DryRun, Execute, NextPhase, Interrupt, OsWrites, vars, plannerVars
<1>3. CASE \/ Checking
           \/ KeepFilesystem \/ ShrinkRefused \/ ShrinkOnDevice \/ ShrinkWriteBack \/ ShrinkWrittenBack
    BY <1>3, CheckingFrame DEF KeepFilesystem, ShrinkRefused, ShrinkOnDevice,
        ShrinkWriteBack, ShrinkWrittenBack
<1>4. CASE SkipUnmoved \/ SkipMatching \/ Format \/ Fill \/ StartRawCopy \/ FinishRawCopy \/ CopyUnsupported
    BY <1>4 DEF SkipUnmoved, SkipMatching, Format, Fill, StartRawCopy, FinishRawCopy, CopyUnsupported
<1>5. CASE ShrinkPartitions \/ CreatePartitions \/ UpdatePartitions
    BY <1>5 DEF ShrinkPartitions, CreatePartitions, UpdatePartitions
<1> QED BY <1>1, <1>2, <1>3, <1>4, <1>5 DEF DiskNext, Run, Checking

LEMMA KeepsNumbersFrame ==
    ASSUME TypeInv, [DiskNext]_vars, KeepsNumbers(req)'
    PROVE  KeepsNumbers(req) /\ req.preserveNumbers
<1>1. req \in Requests /\ changes \in 0 .. MaxChanges /\ MaxChanges \in Nat
    BY DiskAssumption DEF TypeInv, DiskTypeOK
<1>2. CASE MaxChanges = 0
    <2>1. ~ChangeRequest
        BY <1>1, <1>2 DEF ChangeRequest
    <2>2. req' = req
        BY <2>1, RequestFrame
    <2> QED BY <1>2, <2>2 DEF KeepsNumbers
<1>3. CASE MaxChanges # 0
    BY <1>1, <1>3 DEF KeepsNumbers
<1> QED BY <1>2, <1>3

LEMMA CallsInit == DiskInit => CallsInv
BY DiskTypeInit, ApartInit, IdentityInit, NumbersInit DEF CallsInv

LEMMA CallsNext ==
    ASSUME SensibleCalls, CallsInv, [DiskNext]_vars
    PROVE  CallsInv'
<1>1. TypeInv /\ ApartInv /\ IdentityInv /\ SlotsDistinct /\ NamedOnce /\ LabelsApart
    BY ApartSlots, SensibleNames DEF CallsInv
<1>2. TypeInv' /\ ApartInv' /\ IdentityInv'
    BY <1>1, DiskTypeNext, ApartNext, IdentityNext
<1>3. ASSUME KeepsNumbers(req)' PROVE NumbersInv'
    <2>1. KeepsNumbers(req) /\ req.preserveNumbers
        BY <1>1, <1>3, KeepsNumbersFrame
    <2> QED BY <1>1, <2>1, NumbersNext DEF CallsInv
<1> QED BY <1>2, <1>3 DEF CallsInv

\* All that the proofs say of a step holds at every step: which partitions the
\* items are about, that a partition has one item and an item one copy, that the
\* space laid out is clear, and that labels tell copies and originals apart.
THEOREM SensibleCallsKeepInvariant == ASSUME SensibleCalls PROVE DiskSpec => []CallsInv
<1> QED BY CallsInit, CallsNext, PTL DEF DiskSpec

\* Whatever runs of whatever sensible requests stop where, no step leaves an
\* entry, a plan or the disk in a form the next one cannot read: no index is out
\* of range, no partition gets an empty extent or the number 0.
THEOREM SensibleCallsKeepType == ASSUME SensibleCalls PROVE DiskSpec => []DiskTypeOK
<1>1. CallsInv => DiskTypeOK
    BY DEF CallsInv, TypeInv
<1> QED BY <1>1, SensibleCallsKeepInvariant, PTL

\* The entries never share bytes, slots or GUIDs: what calculateResizes hands out
\* is still unused when createPartitions writes it, also in a resumed run.
THEOREM SensibleCallsKeepApart == ASSUME SensibleCalls PROVE DiskSpec => []EntriesApart
<1>1. CallsInv => EntriesApart
    BY DEF CallsInv, ApartInv, EntriesApart
<1> QED BY <1>1, SensibleCallsKeepInvariant, PTL

\* Every partition is found under its GUID with its label, type and attributes
\* at every moment, and no copy can be taken for one: updatePartitions replaces
\* each original by its own copy, and in one table write.
THEOREM SensibleCallsKeepIdentity == ASSUME SensibleCalls PROVE DiskSpec => []IdentityKept
<1>1. CallsInv => IdentityKept
    BY DEF CallsInv, IdentityInv
<1> QED BY <1>1, SensibleCallsKeepInvariant, PTL

\* If all requests preserve numbers, every partition keeps its number.
THEOREM SensibleCallsKeepNumbers ==
    ASSUME SensibleCalls, \A r \in Requests : r.preserveNumbers
    PROVE  DiskSpec => []NumbersKept
<1>1. CallsInv => NumbersKept
    <2> SUFFICES ASSUME CallsInv PROVE NumbersKept
        OBVIOUS
    <2>1. req \in Requests
        BY DEF CallsInv, TypeInv, DiskTypeOK
    <2>2. KeepsNumbers(req)
        BY <2>1 DEF KeepsNumbers
    <2> QED BY <2>2, NumbersAreKept DEF CallsInv
<1> QED BY <1>1, SensibleCallsKeepInvariant, PTL

\* On a block device every partition has its files, its filesystem fits what it
\* is cut to, the place it is copied to is no shorter than it, and the copies
\* made have its files, at every moment.
THEOREM SensibleCallsKeepFilesInvariant ==
    ASSUME SensibleCalls, IsBlock
    PROVE  DiskSpec => []FilesInv
<1>1. DiskInit => DataInv(Guid) /\ pc \notin WritingBack
    BY DataInit DEF DiskInit, Init, WritingBack
<1>2. CallsInv /\ DataInv(Guid) /\ pc \notin WritingBack /\ [DiskNext]_vars
        => (DataInv(Guid) /\ pc \notin WritingBack)'
    <2> SUFFICES ASSUME CallsInv, DataInv(Guid), pc \notin WritingBack, [DiskNext]_vars
                 PROVE  DataInv(Guid)' /\ (pc \notin WritingBack)'
        OBVIOUS
    <2>1. pc' \notin WritingBack
        BY NoWriteBack
    <2>2. Spared(Guid) /\ Spared(Guid)'
        BY <2>1 DEF Spared, WritingBack
    <2> QED BY <2>1, <2>2, DataNext DEF CallsInv, WritingBack
<1>3. DataInv(Guid) => FilesInv
    BY DEF FilesInv
<1> QED BY <1>1, <1>2, <1>3, SensibleCallsKeepInvariant, PTL DEF DiskSpec

\* So no file is lost on a block device either, at no moment.
THEOREM SensibleCallsKeepFiles ==
    ASSUME SensibleCalls, IsBlock
    PROVE  DiskSpec => []NoDataLoss
<1>1. DiskInit => pc \notin WritingBack
    BY DEF DiskInit, Init, WritingBack
<1>2. pc \notin WritingBack /\ [DiskNext]_vars => (pc \notin WritingBack)'
    BY NoWriteBack DEF WritingBack
<1>3. CallsInv /\ FilesInv /\ pc \notin WritingBack => NoDataLoss
    BY AllFiles DEF CallsInv, FilesInv, DataInv
<1> QED BY <1>1, <1>2, <1>3, SensibleCallsKeepInvariant, SensibleCallsKeepFilesInvariant, PTL DEF DiskSpec
-----------------------------------------------------------------------------
\* A source that passed its check passes it as long as its filesystem stays as
\* it is or becomes a consistent one.
LEMMA CheckLasts ==
    ASSUME NEW p, NEW q, ~Inconsistent(p),
           ContentOf(q)' = ContentOf(p) \/ ~ContentOf(q)'.dirty
    PROVE  ~Inconsistent(q)'
<1>1. CASE ContentOf(q)' = ContentOf(p)
    BY <1>1 DEF Inconsistent, KindOf
<1>2. CASE ~ContentOf(q)'.dirty
    BY <1>2 DEF Inconsistent
<1> QED BY <1>1, <1>2

LEMMA JunkIsClean == ~Junk.dirty
BY DEF Junk, Made

\* Steps that write to no source.
LEMMA ChecksStay ==
    ASSUME ApartInv, ChecksMade, pc \notin {"off", "classify", "allocate"},
           UNCHANGED <<table, done, resizes>>, Checked' \subseteq Checked, pc' \notin WritingBack,
           \A p \in table : p.guid \in Ids => ContentOf(p)' = ContentOf(p)
    PROVE  ChecksMade'
<1>1. Plan' = Plan /\ \A k : Original(Plan[k])' = Original(Plan[k])
    BY DEF Plan, Original
<1>2. ASSUME NEW k \in Checked', NEW p \in Original(Plan[k]) PROVE ~Inconsistent(p)'
    <2>1. k \in Checked /\ k \in DOMAIN Plan
        BY DEF Checked
    <2>2. p \in table /\ p.guid \in Ids
        BY <2>1, SourceIs
    <2> QED BY <2>1, <2>2, CheckLasts DEF ChecksMade
<1> QED BY <1>1, <1>2 DEF ChecksMade, WritingBack

\* checkSourceFilesystems goes through the whole plan. A source that was found
\* consistent, now or at an earlier item, is as it was;
LEMMA ChecksPassed ==
    ASSUME TypeInv, ApartInv, ChecksMade, CheckPasses
    PROVE  ChecksMade'
<1>1. pc = "check" /\ pc' = pc /\ i' = i + 1 /\ UNCHANGED <<table, disk, done, resizes>> /\ i <= Len(Plan)
    BY DEF CheckPasses, At, Advance
<1>2. /\ Plan' = Plan /\ \A k : Original(Plan[k])' = Original(Plan[k])
      /\ \A x : ContentOf(x)' = ContentOf(x)
    BY <1>1, SameDisk DEF Plan, Original
<1>3. i \in Nat \ {0} /\ DOMAIN Plan = 1 .. Len(Plan) /\ Len(Plan) \in Nat
    BY TypeParts, PlanParts DEF RunOK, LocalsTypeOK
<1>4. ASSUME NEW x \in Original(Plan[i]) PROVE ~Inconsistent(x)'
    <2>1. PICK p \in Original(Plan[i]) : CheckedBefore(Plan[i]) \/ ~Inconsistent(p)
        BY DEF CheckPasses
    <2>2. CASE CheckedBefore(Plan[i])
        <3>1. PICK m \in 1 .. i - 1 : Plan[m].original.number = Plan[i].original.number
            BY <2>2 DEF CheckedBefore
        <3>2. m \in Checked /\ x \in Original(Plan[m])
            BY <1>1, <1>3, <3>1 DEF Checked, Original
        <3> QED BY <1>2, <3>2, CheckLasts DEF ChecksMade
    <2>3. CASE ~Inconsistent(p)
        <3>1. x = p
            BY ApartSlots DEF SlotsDistinct, Original
        <3> QED BY <1>2, <2>3, <3>1, CheckLasts
    <2> QED BY <2>1, <2>2, <2>3
<1>5. ASSUME NEW k \in Checked', NEW x \in Original(Plan[k]) PROVE ~Inconsistent(x)'
    <2>1. k \in DOMAIN Plan /\ k < i + 1
        BY <1>1, <1>2, <1>5 DEF Checked, AfterShrinks
    <2>2. CASE k = i
        BY <1>4, <2>2
    <2>3. CASE k # i
        <3>1. k \in Checked
            BY <1>1, <1>3, <2>1, <2>3 DEF Checked
        <3> QED BY <1>2, <3>1, CheckLasts DEF ChecksMade
    <2> QED BY <2>2, <2>3
<1> QED BY <1>1, <1>2, <1>5 DEF ChecksMade, WritingBack

\* one that was repaired is consistent, and the others are as they were.
LEMMA ChecksRepaired ==
    ASSUME TypeInv, ApartInv, WriteBackInside, ChecksMade, Checking, ~CheckPasses, ~CheckFails
    PROVE  ChecksMade'
<1>1. StoreOK /\ SlotsDistinct /\ i \in Nat \ {0} /\ DOMAIN Plan = 1 .. Len(Plan) /\ Len(Plan) \in Nat
    BY TypeParts, PlanParts, ApartSlots DEF RunOK, LocalsTypeOK
<1>2. /\ UNCHANGED <<table, req, done, resizes>> /\ Plan' = Plan
      /\ \A k : Original(Plan[k])' = Original(Plan[k])
    BY CheckingFrame DEF Plan, Original
<1>3. /\ pc \in {"check", "repair"} /\ pc' \in {"check", "repair"}
      /\ pc = "repair" => pc' = "check"
      /\ pc' = "check" => i' = i + 1
      /\ pc' = "repair" => i' = i
    BY DEF Checking, RepairOnDevice, RepairWriteBack, RepairWrittenBack, Repairing, At, Advance, GoTo, locals
<1>4. \E p \in Original(Plan[i]), c \in Content, n \in Nat :
        /\ i \in DOMAIN Plan /\ p \in table /\ n <= p.size
        /\ disk' = Written(Bytes(p.start, n), c) /\ disk'[p.start] = c
        /\ \/ /\ req.fixErrors /\ Inconsistent(p)
              /\ c = Repaired(ContentOf(p)) /\ n <= c.length
           \/ pc = "repair" /\ c = disk[p.start]
    <2>1. CASE RepairWrittenBack
        <3>1. pc = "repair"
            BY <2>1 DEF RepairWrittenBack
        <3> QED BY <3>1, CheckWrites
    <2>2. CASE RepairOnDevice \/ RepairWriteBack
        <3>1. PICK p \in table : /\ Repairing(p)
                                 /\ \E n \in 1 .. ContentOf(p).length :
                                       disk' = Written(Bytes(p.start, n), Repaired(ContentOf(p)))
            <4>1. ASSUME NEW p \in table, Repairing(p)
                  PROVE  ContentOf(p).length \in 1 .. ContentOf(p).length
                <5>1. ContentOf(p).length \in 1 .. p.size /\ p.size \in Nat
                    BY <1>1, <4>1, RepairedThere, EntryBytes DEF Repairing, StoreOK
                <5> QED BY <5>1
            <4> QED BY <2>2, <4>1 DEF RepairOnDevice, RepairWriteBack
        <3>2. PICK n \in 1 .. ContentOf(p).length :
                disk' = Written(Bytes(p.start, n), Repaired(ContentOf(p)))
            BY <3>1
        <3> DEFINE c == Repaired(ContentOf(p))
        <3>3. /\ req.fixErrors /\ Inconsistent(p) /\ p \in Original(Plan[i]) /\ i \in DOMAIN Plan
            BY <1>1, <3>1 DEF Repairing, At
        <3>4. c \in Content /\ c.length = ContentOf(p).length /\ c.length \in 1 .. p.size
            BY <1>1, <3>3, RepairedThere
        <3>5. p.size \in Nat /\ p.start \in Nat /\ p.start \in DOMAIN disk
            BY <1>1, EntryBytes DEF StoreOK
        <3>6. n \in Nat /\ n <= c.length /\ n <= p.size /\ n >= 1
            BY <3>2, <3>4, <3>5
        <3>7. p.start \in Bytes(p.start, n)
            BY <3>5, <3>6 DEF Bytes
        <3>8. disk'[p.start] = c
            BY <3>2, <3>5, <3>7 DEF Written
        <3> HIDE DEF c
        <3> QED BY <3>2, <3>3, <3>4, <3>6, <3>8 DEF c
    <2> QED BY <2>1, <2>2 DEF Checking
<1>5. PICK p \in Original(Plan[i]), c \in Content, n \in Nat :
        /\ i \in DOMAIN Plan /\ p \in table /\ n <= p.size
        /\ disk' = Written(Bytes(p.start, n), c) /\ disk'[p.start] = c
        /\ \/ /\ req.fixErrors /\ Inconsistent(p)
              /\ c = Repaired(ContentOf(p)) /\ n <= c.length
           \/ pc = "repair" /\ c = disk[p.start]
    BY <1>4
<1>6. ~c.dirty
    BY <1>1, <1>5, RepairedThere DEF ChecksMade, WritingBack
<1>7. \A q \in table : q # p => ContentOf(q)' = ContentOf(q)
    <2>1. p.start \in Nat /\ p.size \in Nat
        BY <1>1, <1>5, EntryBytes DEF StoreOK
    <2>2. Bytes(p.start, n) \subseteq Extent(p)
        BY <1>5, <2>1, RangesNest DEF Extent
    <2>3. \A b \in DOMAIN disk \ Bytes(p.start, n) : disk'[b] = disk[b]
        BY <1>1, <1>5, <2>2, WrittenThere
    <2> QED BY <1>1, <1>5, <2>2, <2>3, ContentElsewhere
<1>8. ~ContentOf(p)'.dirty
    <2>1. ContentOf(p)' = c \/ ContentOf(p)' = Junk
        BY <1>5 DEF ContentOf
    <2> QED BY <1>6, <2>1, JunkIsClean
<1>9. ASSUME NEW k \in Checked', NEW x \in Original(Plan[k]) PROVE ~Inconsistent(x)'
    <2>1. k \in DOMAIN Plan /\ k < i' /\ x \in table
        BY <1>2, <1>3 DEF Checked, Original, AfterShrinks
    <2>2. CASE x = p
        BY <1>8, <2>2 DEF Inconsistent
    <2>3. CASE x # p
        <3>1. k # i
            BY <1>1, <1>5, <2>3 DEF Original, SlotsDistinct
        <3>2. k \in Checked
            BY <1>1, <1>3, <2>1, <3>1 DEF Checked
        <3> QED BY <1>7, <2>1, <2>3, <3>2, CheckLasts DEF ChecksMade
    <2> QED BY <2>2, <2>3
<1>10. ASSUME pc' = "repair", NEW x \in Original(Plan[i])
       PROVE  /\ ~disk'[x.start].dirty /\ req.fixErrors
              /\ \A b \in Bytes(x.start, disk'[x.start].length) : Repaired(disk'[b]) = disk'[x.start]
    <2>1. x = p /\ pc # "repair"
        BY <1>1, <1>3, <1>5, <1>10 DEF Original, SlotsDistinct
    <2>2. req.fixErrors /\ Inconsistent(p) /\ c = Repaired(ContentOf(p))
        BY <1>5, <2>1
    <2>3. /\ c.length = ContentOf(p).length /\ Whole(p, ContentOf(p))
          /\ ContentOf(p) \in Content /\ p.size \in Nat /\ p.start \in Nat
          /\ p.start + p.size <= DiskSize /\ DOMAIN disk = 0 .. DiskSize - 1
        BY <1>1, <1>5, <2>2, RepairedThere, ContentOfKnown, EntryBytes DEF KnownContent, StoreOK
    <2>4. Repaired(c) = c /\ Repaired(ContentOf(p)) = c
        BY <2>2, <2>3 DEF Repaired, Content
    <2>5. ASSUME NEW b \in Bytes(p.start, c.length) PROVE Repaired(disk'[b]) = c
        <3>1. disk[b] = ContentOf(p) /\ b \in DOMAIN disk
            BY <2>3, SizeAssumption DEF Whole, Bytes
        <3>2. disk'[b] = c \/ disk'[b] = disk[b]
            BY <1>5, <3>1 DEF Written
        <3> QED BY <2>4, <3>1, <3>2
    <2> QED BY <1>5, <1>6, <2>1, <2>2, <2>5
<1>11. pc' = "repair" => req.fixErrors
    BY <1>3, <1>5
<1> QED BY <1>2, <1>3, <1>9, <1>10, <1>11 DEF ChecksMade, WritingBack

\* resize2fs leaves its filesystem as consistent as it was, and so does a
\* resized copy that is written back, in part or whole.
LEMMA ChecksShrunk ==
    ASSUME TypeInv, ApartInv, ChecksMade, pc \in {"shrinkFilesystems", "writeBack"}, i \in DOMAIN Plan,
           NEW p \in Original(Plan[i]), NEW bytes \in SUBSET Extent(p),
           \A b \in DOMAIN disk \ bytes : disk'[b] = disk[b],
           UNCHANGED <<table, done, resizes>>,
           (pc' = "writeBack" /\ i' = i) \/ pc' = "shrinkFilesystems",
           ~disk'[p.start].dirty
    PROVE  ChecksMade'
<1>1. StoreOK /\ SlotsDistinct
    BY TypeParts, ApartSlots
<1>2. Plan' = Plan /\ \A k : Original(Plan[k])' = Original(Plan[k])
    BY DEF Plan, Original
<1>3. p \in table
    BY DEF Original
<1>4. ASSUME NEW k \in Checked', NEW x \in Original(Plan[k]) PROVE ~Inconsistent(x)'
    <2>1. k \in DOMAIN Plan /\ k \in Checked /\ x \in table
        BY <1>2 DEF Checked, Original
    <2>2. ~Inconsistent(x)
        BY <2>1 DEF ChecksMade
    <2>3. CASE x # p
        <3>1. ContentOf(x)' = ContentOf(x)
            BY <1>1, <1>3, <2>1, <2>3, ContentElsewhere
        <3> QED BY <2>2, <3>1, CheckLasts
    <2>4. CASE x = p
        <3>1. ContentOf(p)' = disk'[p.start] \/ ContentOf(p)' = Junk
            BY DEF ContentOf
        <3> QED BY <2>2, <2>4, <3>1, CheckLasts, JunkIsClean
    <2> QED BY <2>3, <2>4
<1>5. ASSUME pc' = "writeBack", NEW x \in Original(Plan[i]) PROVE ~disk'[x.start].dirty
    <2>1. x = p
        BY <1>1 DEF SlotsDistinct, Original
    <2> QED BY <1>5, <2>1
<1> QED BY <1>2, <1>4, <1>5 DEF ChecksMade, WritingBack

LEMMA ChecksShrinkOnDevice ==
    ASSUME TypeInv, ApartInv, ChecksMade, ShrinkOnDevice \/ ShrinkWriteBack
    PROVE  ChecksMade'
<1>1. StoreOK /\ LocalsTypeOK
    BY TypeParts DEF RunOK
<1>2. PICK p \in Original(Plan[i]) :
        /\ ShrinkSupported(p, Plan[i])
        /\ \E n \in Nat : /\ n \in 1 .. Shrunk(p, Plan[i]).length
                          /\ disk' = Written(Bytes(p.start, n), Shrunk(p, Plan[i]))
    <2>1. /\ pc = "shrinkFilesystems" /\ i <= Len(Plan) /\ InPlace(Plan[i])
        BY DEF ShrinkOnDevice, ShrinkWriteBack, At
    <2>2. i \in DOMAIN Plan
        BY <1>1, <2>1, PlanParts DEF LocalsTypeOK
    <2>3. ASSUME NEW p \in Original(Plan[i]), ShrinkSupported(p, Plan[i])
          PROVE  Shrunk(p, Plan[i]).length \in Nat /\ Shrunk(p, Plan[i]).length \in 1 .. Shrunk(p, Plan[i]).length
        <3>1. p.size \in Nat /\ Shrunk(p, Plan[i]).length \in 1 .. p.size
            BY <1>1, <2>1, <2>2, <2>3, ShrunkThere, EntryBytes DEF StoreOK, Original
        <3> QED BY <3>1
    <2>4. CASE ShrinkOnDevice
        BY <2>3, <2>4 DEF ShrinkOnDevice
    <2>5. CASE ShrinkWriteBack
        BY <2>3, <2>5 DEF ShrinkWriteBack
    <2> QED BY <2>4, <2>5
<1>3. /\ UNCHANGED <<table, done, resizes>> /\ pc = "shrinkFilesystems" /\ InPlace(Plan[i])
      /\ i <= Len(Plan) /\ ((pc' = "writeBack" /\ i' = i) \/ pc' = "shrinkFilesystems")
    BY DEF ShrinkOnDevice, ShrinkWriteBack, At, GoTo, Advance, locals
<1>4. i \in DOMAIN Plan /\ p \in table
    BY <1>1, <1>3, PlanParts DEF LocalsTypeOK, Original
<1> DEFINE c == Shrunk(p, Plan[i])
<1>5. c.length \in 1 .. p.size /\ c.dirty = ContentOf(p).dirty
    BY <1>1, <1>2, <1>3, <1>4, ShrunkThere, ContentOfKnown DEF Shrunk, KnownContent, Content
<1>6. PICK n \in Nat : n \in 1 .. c.length /\ disk' = Written(Bytes(p.start, n), c)
    BY <1>2
<1> HIDE DEF c
<1>7. p.start \in Nat /\ p.size \in Nat /\ n <= p.size /\ n >= 1
    BY <1>1, <1>4, <1>5, <1>6, EntryBytes DEF StoreOK
<1>8. Bytes(p.start, n) \subseteq Extent(p) /\ p.start \in Bytes(p.start, n)
    BY <1>7, RangesNest DEF Extent, Bytes
<1>9. /\ \A b \in Bytes(p.start, n) : disk'[b] = c
      /\ \A b \in DOMAIN disk \ Bytes(p.start, n) : disk'[b] = disk[b]
    BY <1>1, <1>4, <1>6, <1>8, WrittenThere
<1>10. ~ContentOf(p).dirty
    <2>1. i \in Checked
        BY <1>3, <1>4 DEF Checked
    <2>2. ~Inconsistent(p) /\ KindOf(p) = "ext4"
        BY <1>2, <2>1 DEF ChecksMade, ShrinkSupported
    <2> QED BY <2>2 DEF Inconsistent
<1>11. ~disk'[p.start].dirty
    BY <1>5, <1>8, <1>9, <1>10
<1> QED BY <1>3, <1>4, <1>8, <1>9, <1>10, <1>11, ChecksShrunk

LEMMA ChecksWrittenBack ==
    ASSUME TypeInv, ApartInv, WriteBackInside, ChecksMade, ShrinkWrittenBack
    PROVE  ChecksMade'
<1>1. StoreOK /\ CursorAtItem
    BY TypeParts DEF RunOK
<1>2. PICK p \in Original(Plan[i]) : disk' = Written(Bytes(p.start, disk[p.start].length), disk[p.start])
    BY DEF ShrinkWrittenBack
<1>3. UNCHANGED <<table, done, resizes>> /\ pc = "writeBack" /\ pc' = "shrinkFilesystems"
    BY DEF ShrinkWrittenBack
<1>4. i \in DOMAIN Plan /\ p \in table /\ ~disk[p.start].dirty /\ disk[p.start].length <= p.size
    BY <1>1, <1>3 DEF CursorAtItem, Original, ChecksMade, WriteBackInside, WritingBack
<1>5. p.start \in Nat /\ p.size \in Nat /\ p.start \in DOMAIN disk /\ disk[p.start].length \in Nat
    BY <1>1, <1>4, EntryBytes DEF StoreOK, Content
<1> DEFINE bytes == Bytes(p.start, disk[p.start].length)
<1>6. bytes \subseteq Extent(p)
    BY <1>4, <1>5, RangesNest DEF Extent
<1>7. (\A b \in DOMAIN disk \ bytes : disk'[b] = disk[b]) /\ disk'[p.start] = disk[p.start]
    BY <1>2, <1>5 DEF Written
<1> HIDE DEF bytes
<1> QED BY <1>3, <1>4, <1>6, <1>7, ChecksShrunk

\* A copy is written to the relocated entry of its item.
LEMMA CopyWrites ==
    ASSUME TypeInv, ApartInv, IdentityInv, SourcesFit, Format \/ Fill \/ StartRawCopy \/ FinishRawCopy
    PROVE  \E q \in table :
              /\ q.guid \notin Ids
              /\ \A b \in DOMAIN disk \ Extent(q) : disk'[b] = disk[b]
<1>1. StoreOK /\ pc \in {"copyFilesystems", "fill", "rawCopy"}
    BY TypeParts DEF Format, Fill, StartRawCopy, FinishRawCopy, Copying, At
<1>2. i \in Moved
    BY DEF Format, Fill, StartRawCopy, FinishRawCopy, Copying, IdentityInv, CopyingMoved
<1>3. ASSUME NEW q \in Relocated(Plan[i])
      PROVE  q \in table /\ q.guid \notin Ids /\ q.size = Align(Plan[i].target.size)
    BY <1>1, <1>2 DEF Relocated, IdentityInv, CopyTargets, WhileCopying
<1>4. ASSUME NEW p \in Original(Plan[i]), NEW q \in Relocated(Plan[i]), NEW n \in Nat, n <= p.size,
             disk' = Copied(p.start, q.start, n)
      PROVE  \A b \in DOMAIN disk \ Extent(q) : disk'[b] = disk[b]
    <2>1. p.size <= q.size
        BY <1>1, <1>2, <1>3 DEF SourcesFit, WhileCopying, Moved
    <2>2. q.start \in Nat /\ q.size \in Nat /\ p.size \in Nat
        BY <1>1, <1>3, EntryBytes DEF StoreOK, Original
    <2>3. Bytes(q.start, n) \subseteq Extent(q)
        BY <1>4, <2>1, <2>2, RangesNest DEF Extent
    <2> QED BY <1>4, <2>3 DEF Copied
<1>5. CASE Format
    <2>1. PICK p, q \in table : /\ q \in Relocated(Plan[i])
                                /\ disk' = Written(Extent(q), Empty(ContentOf(p).fs, q.size))
        BY <1>5 DEF Format, Copying
    <2> QED BY <1>3, <2>1 DEF Written
<1>6. CASE Fill
    <2>1. PICK p \in Original(Plan[i]), q \in Relocated(Plan[i]) : disk' = Written(Extent(q), Filled(p, q))
        BY <1>6 DEF Fill
    <2> QED BY <1>3, <2>1 DEF Written
<1>7. CASE StartRawCopy
    <2>1. PICK p, q \in table : /\ p \in Original(Plan[i]) /\ q \in Relocated(Plan[i])
                                /\ \E n \in 0 .. p.size - 1 : disk' = Copied(p.start, q.start, n)
        BY <1>7 DEF StartRawCopy, Copying
    <2>2. p.size \in Nat
        BY <1>1, EntryBytes DEF StoreOK
    <2>3. PICK n \in Nat : n <= p.size /\ disk' = Copied(p.start, q.start, n)
        BY <2>1, <2>2
    <2> QED BY <1>3, <1>4, <2>1, <2>3
<1>8. CASE FinishRawCopy
    <2>1. PICK p \in Original(Plan[i]), q \in Relocated(Plan[i]) : disk' = Copied(p.start, q.start, p.size)
        BY <1>8 DEF FinishRawCopy
    <2>2. p.size \in Nat /\ p.size <= p.size
        BY <1>1, EntryBytes DEF StoreOK, Original
    <2> QED BY <1>3, <1>4, <2>1, <2>2
<1> QED BY <1>5, <1>6, <1>7, <1>8

LEMMA ChecksCopied ==
    ASSUME TypeInv, ApartInv, IdentityInv, SourcesFit, ChecksMade,
           Format \/ Fill \/ StartRawCopy \/ FinishRawCopy
    PROVE  ChecksMade'
<1>1. StoreOK /\ pc \in {"copyFilesystems", "fill", "rawCopy"} /\ pc' \in {"copyFilesystems", "fill", "rawCopy"}
      /\ UNCHANGED <<table, done, resizes>>
    BY TypeParts DEF Format, Fill, StartRawCopy, FinishRawCopy, Copying, At, GoTo, locals
<1>2. Checked' \subseteq Checked
    BY <1>1 DEF Checked, AfterShrinks, Plan
<1>3. PICK q \in table : /\ q.guid \notin Ids
                         /\ \A b \in DOMAIN disk \ Extent(q) : disk'[b] = disk[b]
    BY CopyWrites
<1>4. \A p \in table : p.guid \in Ids => ContentOf(p)' = ContentOf(p)
    BY <1>1, <1>3, ContentElsewhere
<1> QED BY <1>1, <1>2, <1>4, ChecksStay DEF WritingBack

\* Cutting an entry keeps its filesystem or leaves none.
LEMMA ChecksShrinkPartitions ==
    ASSUME TypeInv, ApartInv, ChecksMade, ShrinkPartitions
    PROVE  ChecksMade'
<1>1. /\ pc = "shrinkPartitions" /\ UNCHANGED disk /\ table' = {ShrunkEntry(p) : p \in table}
      /\ Exit \/ Restart("createPartitions")
    BY ShrinkWrites DEF ShrinkPartitions, Commit
<1>2. CASE Exit
    BY <1>2 DEF Exit, ChecksMade, Checked, AfterShrinks, WritingBack
<1>3. CASE Restart("createPartitions")
    <2>1. pc' = "createPartitions" /\ Plan' = Plan /\ Checked = DOMAIN Plan /\ Checked' = DOMAIN Plan
        BY <1>1, <1>3 DEF Restart, Plan, Checked, AfterShrinks
    <2>2. ASSUME NEW k \in DOMAIN Plan, NEW e \in table', e.number = Plan[k].original.number
          PROVE  ~Inconsistent(e)'
        <3>1. PICK p \in table : e = ShrunkEntry(p)
            BY <1>1
        <3>2. e.start = p.start /\ e.number = p.number /\ e.size <= p.size
            BY <1>1, <3>1, ShrunkFits
        <3>3. e.size \in Nat /\ p.size \in Nat
            BY <1>1, <3>1, ShrunkEntryIs, ApartSlots, EntryBytes, TypeParts DEF Entry, StoreOK
        <3>4. Whole(e, disk[e.start]) => Whole(p, disk[p.start])
            BY <3>2, <3>3 DEF Whole
        <3>5. ContentOf(e)' = ContentOf(e)
            BY <1>1, SameDisk
        <3>6. ContentOf(e)' = ContentOf(p) \/ ContentOf(e)' = Junk
            BY <3>2, <3>4, <3>5 DEF ContentOf
        <3>7. ~Inconsistent(p)
            BY <2>1, <2>2, <3>2 DEF ChecksMade, Original
        <3> QED BY <3>6, <3>7, CheckLasts, JunkIsClean
    <2> QED BY <2>1, <2>2 DEF ChecksMade, Original, WritingBack
<1> QED BY <1>1, <1>2, <1>3

LEMMA ChecksCreatePartitions ==
    ASSUME TypeInv, ApartInv, ChecksMade, CreatePartitions
    PROVE  ChecksMade'
<1>1. /\ pc = "createPartitions" /\ UNCHANGED disk /\ table \subseteq table'
      /\ Exit \/ Restart("copyFilesystems")
    BY DEF CreatePartitions, Commit
<1>2. SoundTable(table, DiskSize)'
    BY ApartCreated
<1>3. CASE Exit
    BY <1>3 DEF Exit, ChecksMade, Checked, AfterShrinks, WritingBack
<1>4. CASE Restart("copyFilesystems")
    <2>1. pc' = "copyFilesystems" /\ Plan' = Plan /\ Checked = DOMAIN Plan /\ Checked' = DOMAIN Plan
        BY <1>1, <1>4 DEF Restart, Plan, Checked, AfterShrinks
    <2>2. ASSUME NEW k \in DOMAIN Plan, NEW e \in table', e.number = Plan[k].original.number
          PROVE  ~Inconsistent(e)'
        <3>1. PICK p \in table : p.number = Plan[k].original.number
            BY TypeParts DEF RunOK, SourcesKnown
        <3>2. e = p
            BY <1>1, <1>2, <2>2, <3>1 DEF SoundTable
        <3>3. ~Inconsistent(p) /\ ContentOf(p)' = ContentOf(p)
            BY <1>1, <2>1, <2>2, <3>1, SameDisk DEF ChecksMade, Original
        <3> QED BY <1>1, <3>2, <3>3, CheckLasts
    <2> QED BY <2>1, <2>2 DEF ChecksMade, Original, WritingBack
<1> QED BY <1>1, <1>3, <1>4

LEMMA ChecksNext ==
    ASSUME TypeInv, ApartInv, IdentityInv, DataInv({}), ChecksMade, [DiskNext]_vars
    PROVE  ChecksMade'
<1> DEFINE before == {"off", "classify", "allocate", "planned", "failed"}
<1>1. ASSUME pc' \in before PROVE ChecksMade'
    BY <1>1 DEF ChecksMade, Checked, AfterShrinks, WritingBack
<1>2. i \in Nat \ {0} /\ DOMAIN Plan = 1 .. Len(Plan) /\ Len(Plan) \in Nat
    BY TypeParts, PlanParts DEF RunOK, LocalsTypeOK
<1>3. CASE \/ Planning \/ Abort \/ DryRun \/ Interrupt \/ OsWrites \/ ChangeRequest
           \/ CheckFails \/ ShrinkRefused \/ CopyUnsupported \/ UpdatePartitions
    <2>1. pc' \in before
        BY <1>3, NextFrame DEF Planning, Abort, DryRun, Interrupt, OsWrites, ChangeRequest, CheckFails,
            ShrinkRefused, CopyUnsupported, UpdatePartitions, Commit, GoTo, Exit, plannerVars
    <2> QED BY <1>1, <2>1
<1>4. CASE Execute
    <2>1. pc' = "check" /\ i' = 1 /\ Plan' = Plan
        BY <1>4 DEF Execute, Restart, Plan
    <2> QED BY <1>2, <2>1 DEF ChecksMade, Checked, AfterShrinks, WritingBack
<1>5. CASE NextPhase \/ KeepFilesystem \/ SkipUnmoved \/ SkipMatching
    <2>1. /\ UNCHANGED <<table, disk, done, resizes>>
          /\ pc \notin {"off", "classify", "allocate"} /\ pc' \notin WritingBack
        BY <1>5 DEF NextPhase, Loop, Restart, KeepFilesystem, SkipUnmoved, SkipMatching, Copying, At, Advance,
            WritingBack
    <2>2. pc = "check" => i > Len(Plan)
        BY <1>5 DEF NextPhase, Loop, Restart, KeepFilesystem, SkipUnmoved, SkipMatching, Copying, At
    <2>3. pc \in AfterShrinks \cup {"check", "shrinkFilesystems"} /\ pc' # "check"
        BY <1>5 DEF NextPhase, Loop, Restart, KeepFilesystem, SkipUnmoved, SkipMatching, Copying, At, Advance,
            AfterShrinks
    <2>4. Checked' \subseteq Checked
        BY <1>2, <2>1, <2>2, <2>3 DEF Checked, Plan
    <2> QED BY <2>1, <2>4, SameDisk, ChecksStay
<1>6. CASE Checking /\ ~CheckFails
    BY <1>6, ChecksPassed, ChecksRepaired DEF DataInv
<1>7. CASE ShrinkOnDevice \/ ShrinkWriteBack
    BY <1>7, ChecksShrinkOnDevice
<1>8. CASE ShrinkWrittenBack
    BY <1>8, ChecksWrittenBack DEF DataInv
<1>9. CASE ShrinkPartitions
    BY <1>9, ChecksShrinkPartitions
<1>10. CASE CreatePartitions
    BY <1>10, ChecksCreatePartitions
<1>11. CASE Format \/ Fill \/ StartRawCopy \/ FinishRawCopy
    BY <1>11, ChecksCopied DEF DataInv
<1>12. CASE UNCHANGED vars
    <2>1. UNCHANGED <<table, disk, pc, i, done, resizes>>
        BY <1>12 DEF vars, plannerVars, locals
    <2>2. Plan' = Plan /\ Checked' = Checked /\ \A k : Original(Plan[k])' = Original(Plan[k])
        BY <2>1 DEF Plan, Checked, Original
    <2>3. \A x : Inconsistent(x)' = Inconsistent(x)
        BY <2>1, SameDisk DEF Inconsistent, KindOf
    <2>4. req' = req
        BY <1>12 DEF vars, plannerVars
    <2> QED BY <2>1, <2>2, <2>3, <2>4 DEF ChecksMade
<1> QED BY <1>3, <1>4, <1>5, <1>6, <1>7, <1>8, <1>9, <1>10, <1>11, <1>12 DEF DiskNext, Run, Checking

\* The checks write no byte but those they repair,
LEMMA ChecksOnlyRepair ==
    ASSUME TypeInv, WriteBackInside, ChecksMade, Checking
    PROVE  OnlyRepairs
<1>1. StoreOK /\ table' = table
    BY TypeParts, CheckingFrame
<1>2. CASE disk' = disk
    BY <1>1, <1>2 DEF OnlyRepairs
<1>3. ASSUME NEW p \in Original(Plan[i]), NEW c \in Content, NEW n \in Nat,
             p \in table, n <= p.size, disk' = Written(Bytes(p.start, n), c), c.length <= p.size,
             \/ req.fixErrors /\ Inconsistent(p) /\ c = Repaired(ContentOf(p)) /\ n <= c.length
             \/ pc = "repair" /\ c = disk[p.start] /\ n = c.length
      PROVE  OnlyRepairs
    <2>1. p.start \in Nat /\ c.length \in Nat
        BY <1>1, <1>3, EntryBytes DEF StoreOK, Content
    <2>2. Bytes(p.start, n) \subseteq Bytes(p.start, c.length)
        BY <1>3, <2>1, RangesNest
    <2>3. ASSUME NEW b \in Bytes(p.start, n) PROVE req.fixErrors /\ c = Repaired(disk[b])
        <3>1. CASE req.fixErrors /\ Inconsistent(p) /\ c = Repaired(ContentOf(p))
            BY <1>1, <1>3, <2>2, <3>1, RepairedThere DEF Whole
        <3>2. CASE pc = "repair" /\ c = disk[p.start]
            BY <1>3, <2>2, <3>2 DEF ChecksMade
        <3> QED BY <1>3, <3>1, <3>2
    <2>4. ASSUME NEW b \in DOMAIN disk, disk'[b] # disk[b]
          PROVE  req.fixErrors /\ disk'[b] = Repaired(disk[b])
        <3>1. b \in Bytes(p.start, n) /\ disk'[b] = c
            BY <1>3, <2>4 DEF Written
        <3> QED BY <2>3, <3>1
    <2> QED BY <1>1, <2>4 DEF OnlyRepairs
<1> QED BY <1>2, <1>3, CheckWrites

\* and nothing else is written before all of them were made.
LEMMA WritesAfterChecks ==
    ASSUME Run, ~Checking, <<table, disk>>' # <<table, disk>>
    PROVE  pc \in AfterShrinks \cup {"shrinkFilesystems", "writeBack"}
<1>1. CASE \/ ShrinkOnDevice \/ ShrinkWriteBack \/ ShrinkWrittenBack \/ ShrinkPartitions \/ CreatePartitions
           \/ Format \/ Fill \/ StartRawCopy \/ FinishRawCopy \/ UpdatePartitions
    BY <1>1 DEF ShrinkOnDevice, ShrinkWriteBack, ShrinkWrittenBack, ShrinkPartitions, CreatePartitions, Format,
        Fill, StartRawCopy, FinishRawCopy, UpdatePartitions, Copying, At, AfterShrinks
<1>2. CASE \/ Planning \/ Abort \/ DryRun \/ Execute \/ NextPhase
           \/ KeepFilesystem \/ ShrinkRefused \/ SkipUnmoved \/ SkipMatching \/ CopyUnsupported
    <2>1. UNCHANGED <<table, disk>>
        BY <1>2, NextFrame DEF Planning, Abort, DryRun, Execute, NextPhase, KeepFilesystem, ShrinkRefused,
            SkipUnmoved, SkipMatching, CopyUnsupported
    <2> QED BY <2>1
<1> QED BY <1>1, <1>2 DEF Run, Checking

\* All checks of checkSourceFilesystems come before the first step of the resize
\* itself, and nothing a run does afterwards, nor anything a stopped run left,
\* makes a source inconsistent: while one is, no step writes the table, nor a
\* byte of the disk but to repair it, as the request then has to ask for. A
\* source in an image file is repaired by writing its copy back, before the later
\* sources of the plan are checked.
THEOREM SensibleCallsCheckFirst == ASSUME SensibleCalls PROVE DiskSpec => NoWriteBeforeChecks
<1>1. DiskInit => CallsInv /\ DataInv({}) /\ ChecksMade
    <2> SUFFICES ASSUME DiskInit PROVE ChecksMade
        BY CallsInit, DataInit
    <2>1. pc = "off"
        BY DEF DiskInit, Init
    <2> QED BY <2>1 DEF ChecksMade, Checked, AfterShrinks, WritingBack
<1>2. CallsInv /\ DataInv({}) /\ ChecksMade /\ [DiskNext]_vars => (CallsInv /\ DataInv({}) /\ ChecksMade)'
    <2> SUFFICES ASSUME CallsInv, DataInv({}), ChecksMade, [DiskNext]_vars
                 PROVE  CallsInv' /\ DataInv({})' /\ ChecksMade'
        OBVIOUS
    <2>1. Spared({}) /\ Spared({})'
        BY DEF Spared
    <2> QED BY <2>1, CallsNext, DataNext, ChecksNext DEF CallsInv
<1>3. CallsInv /\ DataInv({}) /\ ChecksMade /\ [DiskNext]_vars
        => [Run => \/ OnlyRepairs
                   \/ \A k \in DOMAIN Plan : \A p \in Original(Plan[k]) :
                         KindOf(p) \in {"ext4", "fat32"} => ~ContentOf(p).dirty]_vars
    <2> SUFFICES ASSUME CallsInv, DataInv({}), ChecksMade, Run, ~OnlyRepairs,
                        NEW k \in DOMAIN Plan, NEW p \in Original(Plan[k]), KindOf(p) \in {"ext4", "fat32"}
                 PROVE  ~ContentOf(p).dirty
        OBVIOUS
    <2>1. ~Checking
        BY ChecksOnlyRepair DEF CallsInv, DataInv
    <2>2. <<table, disk>>' # <<table, disk>>
        BY DEF OnlyRepairs
    <2>3. k \in Checked
        BY <2>1, <2>2, WritesAfterChecks DEF Checked
    <2> QED BY <2>3 DEF ChecksMade, Inconsistent
<1> QED BY <1>1, <1>2, <1>3, PTL DEF DiskSpec, NoWriteBeforeChecks
-----------------------------------------------------------------------------
\* What a grow names was meant by it from the start, and by no other.
LEMMA GrowNames ==
    ASSUME SensibleCalls, CallsInv, NEW k \in DOMAIN req.grows, NEW p \in FirstMatch(table, req.grows[k])
    PROVE  p \in table /\ GrownBy(k, p)
BY ChosenBefore DEF Requested, GrownBy, Named

LEMMA OfferNames ==
    ASSUME SensibleCalls, CallsInv, req.shrink # NoShrink, NEW p \in FirstMatch(table, req.shrink)
    PROVE  p \in table /\ Offered(p)
BY ChosenBefore DEF Requested, Offered, Named

LEMMA GrownByOne ==
    ASSUME SensibleCalls, CallsInv, NEW k \in DOMAIN req.grows, NEW p \in table, GrownBy(k, p)
    PROVE  ~Offered(p) /\ \A m \in DOMAIN req.grows : GrownBy(m, p) => m = k
<1>1. Sensible(req, origin)
    BY DEF SensibleCalls, CallsInv, TypeInv, DiskTypeOK
<1>2. Before(p.guid) \in Named(req.grows[k], origin)
    BY NamedAsBefore DEF CallsInv, GrownBy, Named
<1>3. ~Offered(p)
    BY <1>1, <1>2 DEF Sensible, Offered, Named
<1>4. ASSUME NEW m \in DOMAIN req.grows, GrownBy(m, p) PROVE m = k
    <2>1. Before(p.guid) \in Named(req.grows[m], origin)
        BY <1>2, <1>4 DEF GrownBy, Named
    <2> QED BY <1>1, <1>2, <2>1 DEF Sensible
<1> QED BY <1>3, <1>4

\* The partitions a request is about are told apart by their names.
AboutRequest(p) == Offered(p) \/ \E k \in DOMAIN req.grows : GrownBy(k, p)
LEMMA NamesTellApart ==
    ASSUME SensibleCalls, CallsInv, NEW p \in table, NEW q \in table, AboutRequest(p), AboutRequest(q),
           p.name = q.name
    PROVE  p = q
<1> DEFINE named == UNION {Named(id, origin) : id \in Asked(req)}
<1>1. Sensible(req, origin)
    BY DEF SensibleCalls, CallsInv, TypeInv, DiskTypeOK
<1>2. ASSUME NEW x \in table, AboutRequest(x)
      PROVE  x.guid \in Ids /\ Before(x.guid) \in named /\ Before(x.guid).guid = x.guid
             /\ Before(x.guid).name = x.name
    <2>1. x.guid \in Ids
        BY <1>2 DEF AboutRequest, Offered, GrownBy
    <2>2. /\ Before(x.guid) \in origin /\ Before(x.guid).guid = x.guid /\ Before(x.guid).name = x.name
        BY <2>1, NamedAsBefore DEF CallsInv
    <2> QED BY <1>2, <2>1, <2>2 DEF AboutRequest, Offered, GrownBy, Named, Asked
<1>3. Before(p.guid) = Before(q.guid)
    BY <1>1, <1>2 DEF Sensible
<1>4. p.guid = q.guid
    BY <1>2, <1>3
<1> QED BY <1>4 DEF CallsInv, ApartInv, SoundTable

\* What the request asks of a partition depends on its GUID only.
LEMMA AskedFrame ==
    ASSUME UNCHANGED <<req, origin>>
    PROVE  /\ Ids' = Ids /\ Others' = Others
           /\ \A p : Offered(p)' <=> Offered(p)
           /\ \A k, p : GrownBy(k, p)' <=> GrownBy(k, p)
           /\ \A p, q : p.guid = q.guid => (Offered(p) <=> Offered(q)) /\ \A k : GrownBy(k, p) <=> GrownBy(k, q)
BY DEF Ids, Others, Offered, GrownBy, Before, AtRisk, MayShrink, MayRepair

\* The items are asked for as long as their originals are the same partitions.
LEMMA AskedStays ==
    ASSUME UNCHANGED <<req, origin>>, NEW item, AskedFor(item),
           \A q \in table' : q.number = item.original.number =>
              \E p \in table : p.number = item.original.number /\ p.guid = q.guid
    PROVE  AskedFor(item)'
<1> SUFFICES ASSUME NEW q \in table', q.number = item.original.number
             PROVE  \/ Offered(q)
                    \/ ~InPlace(item) /\ \E k \in DOMAIN req.grows :
                          GrownBy(k, q) /\ item.target.size <= req.grows[k].size
    BY AskedFrame DEF AskedFor, Original, InPlace
<1>1. PICK p \in Original(item) : p.guid = q.guid
    BY DEF Original
<1> QED BY <1>1, AskedFrame DEF AskedFor

LEMMA AskedSame ==
    ASSUME UNCHANGED <<table, req, origin>>
    PROVE  \A item : AskedFor(item) => AskedFor(item)'
BY AskedStays

\* An item about an entry is asked for if it is for that one.
LEMMA AskedOf ==
    ASSUME ApartInv, NEW p \in table, NEW item, item.original = Data(p),
           \/ Offered(p)
           \/ ~InPlace(item) /\ \E k \in DOMAIN req.grows : GrownBy(k, p) /\ item.target.size <= req.grows[k].size
    PROVE  AskedFor(item)
<1>1. \A q \in Original(item) : q = p
    BY DEF Original, Data, ApartInv, SoundTable
<1> QED BY <1>1 DEF AskedFor

LEMMA AppendedAll ==
    ASSUME NEW s \in Seq(Item), NEW e
    PROVE  \A k \in DOMAIN Append(s, e) : Append(s, e)[k] = e \/ (k \in DOMAIN s /\ Append(s, e)[k] = s[k])
OBVIOUS

\* Planning asks for nothing else,
LEMMA GrowthPlanning ==
    ASSUME SensibleCalls, CallsInv, GrowthInv, Planning
    PROVE  GrowthInv'
<1>1. /\ Next /\ UNCHANGED <<table, req, origin>> /\ LocalsTypeOK /\ InStep
      /\ pc \in {"off", "classify", "allocate"} /\ pc' \in {"classify", "allocate", "planned", "failed"}
      /\ ApartInv
    BY NextFrame, TypeParts DEF CallsInv, Planning, environment, RunOK, ItemsCurrent, BeforeTableWrites
<1>2. TypeOK /\ done \in Seq(Item) /\ todo \in Seq(Item) /\ resizes \in Seq(Item)
    BY <1>1, TypeParts DEF CallsInv, TypeOK, StoreOK, TableOK, LocalsTypeOK
<1>3. SizesAsked' /\ CopiesAsked' /\ CopiesNamed' /\ WriteBackAsked'
    <2>1. SizesAsked' /\ CopiesAsked'
        BY <1>1, AskedFrame DEF GrowthInv, SizesAsked, CopiesAsked
    <2> QED BY <1>1, <2>1 DEF CopiesNamed, WriteBackAsked, WritingBack, WhileCopying
<1> SUFFICES ItemsAsked'
    BY <1>3 DEF GrowthInv
<1>4. \A item : AskedFor(item) => AskedFor(item)'
    BY <1>1, AskedSame
<1>5. /\ \A k \in DOMAIN done : AskedFor(done[k])
      /\ pc \in {"classify", "allocate"} => \A k \in DOMAIN todo : AskedFor(todo[k])
      /\ \A k \in DOMAIN resizes : AskedFor(resizes[k])
    BY DEF GrowthInv, ItemsAsked
<1> SUFFICES /\ \A k \in DOMAIN done' : AskedFor(done'[k])
             /\ pc' \in {"classify", "allocate"} => \A k \in DOMAIN todo' : AskedFor(todo'[k])
             /\ \A k \in DOMAIN resizes' : AskedFor(resizes'[k])
    BY <1>4 DEF ItemsAsked
<1>6. CASE Discover \/ NotDiscovered
    <2>1. UNCHANGED <<done, todo, resizes>> /\ todo = <<>>
        BY <1>6 DEF Discover, NotDiscovered, locals, CallsInv, ApartInv, NothingHeld, InitLocals
    <2> QED BY <1>5, <2>1
<1>7. CASE SkipSatisfied \/ NothingPending \/ LayoutComplete \/ InsufficientSpace
    <2>1. UNCHANGED <<done, todo, resizes>> /\ pc \in {"classify", "allocate"}
        BY <1>7 DEF SkipSatisfied, Classifying, NothingPending, LayoutComplete, InsufficientSpace, GiveUp,
            NoRoom, LayingOut, locals
    <2> QED BY <1>5, <2>1
<1>8. CASE ReuseRelocated
    <2>1. PICK p \in table : \E alt \in LastNamed(table, Alternate(p.name)) :
            /\ Classifying(p) /\ done' = Append(done, Existing(p, alt)) /\ UNCHANGED todo
        BY <1>8 DEF ReuseRelocated
    <2>2. PICK alt \in LastNamed(table, Alternate(p.name)) :
            /\ Classifying(p) /\ done' = Append(done, Existing(p, alt)) /\ UNCHANGED todo
        BY <2>1
    <2>3. i \in DOMAIN req.grows /\ p \in FirstMatch(table, req.grows[i]) /\ pc = "classify" /\ UNCHANGED resizes
        BY <1>2, <2>2, NextGrow DEF Classifying
    <2>4. GrownBy(i, p) /\ p \in Chosen
        BY <2>3, GrowNames, ChosenIs DEF Requested
    <2>5. alt \in table /\ alt.name = Alternate(p.name) /\ alt.guid \notin Ids
        BY <2>3, <2>4, SensibleNames DEF LastNamed, LabelsApart
    <2>6. p.size <= alt.size /\ alt.size <= req.grows[i].size
        BY <2>3, <2>4, <2>5 DEF GrowthInv, CopiesAsked
    <2>7. /\ Existing(p, alt).original = Data(p) /\ Existing(p, alt).target.size = alt.size
          /\ Existing(p, alt).original.size = p.size
        BY DEF Existing, Data
    <2>8. ~InPlace(Existing(p, alt))
        <3>1. p.size \in Int /\ alt.size \in Int
            BY <1>2, <2>5 DEF TypeOK, Entry
        <3> QED BY <2>6, <2>7, <3>1 DEF InPlace
    <2>9. AskedFor(Existing(p, alt))
        BY <1>1, <2>3, <2>4, <2>6, <2>7, <2>8, AskedOf
    <2> QED BY <1>2, <1>5, <2>2, <2>3, <2>9, AppendedAll
<1>9. CASE QueuePending
    <2>1. PICK p \in table :
            /\ Classifying(p) /\ todo' = Append(todo, Pending(p, req.grows[i].size)) /\ UNCHANGED done
        BY <1>9 DEF QueuePending
    <2> DEFINE e == Pending(p, req.grows[i].size)
    <2>2. /\ i \in DOMAIN req.grows /\ p \in FirstMatch(table, req.grows[i]) /\ pc = "classify"
          /\ UNCHANGED resizes /\ req.grows[i].size \in Int
        BY <1>2, <2>1, NextGrow DEF Classifying
    <2>3. GrownBy(i, p)
        BY <2>2, GrowNames
    <2>4. p.size <= req.grows[i].size /\ p.size \in Int
        BY <1>2, <2>2, <2>3 DEF GrowthInv, SizesAsked, TypeOK, Entry
    <2>5. e.original = Data(p) /\ e.target.size = req.grows[i].size /\ e.original.size = p.size
        BY DEF Pending, Data
    <2>6. ~InPlace(e)
        BY <2>2, <2>4, <2>5 DEF InPlace
    <2>7. AskedFor(e)
        BY <1>1, <2>2, <2>3, <2>4, <2>5, <2>6, AskedOf
    <2> QED BY <1>2, <1>5, <2>1, <2>2, <2>7, AppendedAll
<1>10. CASE FirstAttempt
    <2>1. UNCHANGED <<done, todo>> /\ resizes' = <<>> /\ pc = "classify"
        BY <1>10 DEF FirstAttempt, BeginLayout
    <2> QED BY <1>5, <2>1
<1>11. CASE LayOutShrink \/ LayOutGrow
    <2>1. PICK start, number : Settle(start, number)
        BY <1>11 DEF LayOutShrink, LayOutGrow, GiveSpace
    <2> DEFINE e == [todo[i] EXCEPT !.target = [number |-> number, start |-> start, size |-> @.size]]
    <2>2. /\ UNCHANGED <<done, todo>> /\ resizes' = Append(resizes, e) /\ pc = "allocate" /\ i \in DOMAIN todo
        BY <1>1, <1>11, <2>1 DEF Settle, LayOutShrink, LayOutGrow, LayingOut, LocalsTypeOK
    <2>3. todo[i] \in Item
        BY <1>2, <2>2
    <2>4. e.original = todo[i].original /\ e.target.size = todo[i].target.size
        BY <2>3 DEF Item, Target
    <2> HIDE DEF e
    <2>5. AskedFor(todo[i])
        BY <1>5, <2>2
    <2>6. AskedFor(e)
        BY <2>4, <2>5 DEF AskedFor, InPlace, Original
    <2> QED BY <1>2, <1>5, <2>2, <2>6, AppendedAll
<1>12. CASE RetryWithShrink
    <2>1. PICK p \in FirstMatch(table, req.shrink) : BeginLayout(<<ShrinkItem(p)>> \o todo)
        BY <1>12 DEF RetryWithShrink, Retry
    <2>2. req.shrink # NoShrink /\ pc = "allocate" /\ UNCHANGED done /\ resizes' = <<>>
          /\ todo' = <<ShrinkItem(p)>> \o todo
        BY <1>12, <2>1 DEF RetryWithShrink, Retry, NoRoom, LayingOut, BeginLayout
    <2>3. p \in table /\ Offered(p)
        BY <2>2, OfferNames
    <2>4. ShrinkItem(p).original = Data(p)
        BY DEF ShrinkItem
    <2>5. AskedFor(ShrinkItem(p))
        BY <1>1, <2>3, <2>4, AskedOf
    <2>6. \A k \in DOMAIN todo' : todo'[k] = ShrinkItem(p) \/ \E m \in DOMAIN todo : todo'[k] = todo[m]
        <3> SUFFICES ASSUME NEW k \in 1 .. Len(todo) + 1
                     PROVE  todo'[k] = ShrinkItem(p) \/ \E m \in DOMAIN todo : todo'[k] = todo[m]
            BY <1>2, <2>2
        <3>1. CASE k = 1
            BY <1>2, <2>2, <3>1
        <3>2. CASE k # 1
            <4>1. k - 1 \in DOMAIN todo /\ todo'[k] = todo[k - 1]
                BY <1>2, <2>2, <3>2
            <4> QED BY <4>1
        <3> QED BY <3>1, <3>2
    <2> QED BY <1>5, <2>2, <2>5, <2>6
<1> QED BY <1>1, <1>6, <1>7, <1>8, <1>9, <1>10, <1>11, <1>12 DEF Next

\* Nor does anything else that leaves the plan alone,
LEMMA GrowthStays ==
    ASSUME GrowthInv, UNCHANGED <<table, req, origin, done, resizes>>,
           pc' \notin {"classify", "allocate"} \/ (pc' = pc /\ todo' = todo),
           pc' \in WhileCopying => pc \in WhileCopying, WriteBackAsked'
    PROVE  GrowthInv'
<1>1. SizesAsked' /\ CopiesAsked'
    BY AskedFrame DEF GrowthInv, SizesAsked, CopiesAsked
<1>2. \A item : AskedFor(item) => AskedFor(item)'
    BY AskedSame
<1>3. ItemsAsked'
    BY <1>2 DEF GrowthInv, ItemsAsked
<1>4. /\ Moved' = Moved /\ Plan' = Plan
      /\ \A k : Original(Plan[k])' = Original(Plan[k]) /\ Relocated(Plan[k])' = Relocated(Plan[k])
    BY DEF Moved, Plan, Original, Relocated
<1>5. CopiesNamed'
    BY <1>4 DEF GrowthInv, CopiesNamed
<1> QED BY <1>1, <1>3, <1>5 DEF GrowthInv

\* and a run that ended remembers nothing of it.
LEMMA GrowthExited == Exit /\ SizesAsked' /\ CopiesAsked' => GrowthInv'
<1> SUFFICES ASSUME Exit, SizesAsked', CopiesAsked' PROVE GrowthInv'
    OBVIOUS
<1>1. pc' = "off" /\ done' = <<>> /\ todo' = <<>> /\ resizes' = <<>>
    BY DEF Exit
<1>2. ItemsAsked' /\ CopiesNamed' /\ WriteBackAsked'
    BY <1>1 DEF ItemsAsked, CopiesNamed, WriteBackAsked, WritingBack, WhileCopying
<1> QED BY <1>2 DEF GrowthInv

\* A size asked for is a number.
LEMMA SizeIsInt ==
    ASSUME StoreOK, NEW k \in DOMAIN req.grows
    PROVE  req.grows[k].size \in Int
<1>1. req.grows \in Seq(Change)
    BY RequestAssumption DEF StoreOK, Request
<1>2. req.grows[k] \in Change
    BY <1>1
<1> QED BY <1>2 DEF Change

\* No partition is smaller than before because of an item that is asked for,
\* unless it was offered.
LEMMA GrowthShrinkPartitions ==
    ASSUME TypeInv, ApartInv, GrowthInv, ShrinkPartitions
    PROVE  GrowthInv'
<1>1. /\ pc = "shrinkPartitions" /\ UNCHANGED <<req, origin>> /\ table' = {ShrunkEntry(p) : p \in table}
      /\ TableOK /\ \A p \in table : p.size \in Nat
    BY ShrinkWrites, TypeParts DEF ShrinkPartitions, environment, StoreOK, TableOK, Entry
<1>2. \A p \in table : /\ ShrunkEntry(p).size <= p.size /\ ShrunkEntry(p).guid = p.guid
                       /\ ShrunkEntry(p).number = p.number /\ ShrunkEntry(p).name = p.name
    BY <1>1, ShrunkFits
<1>3. \A q \in table : q.guid \notin Ids => ShrunkEntry(q) = q
    BY <1>1, CopiesKeepSize
<1>4. \A p \in table : ShrunkEntry(p).size \in Nat
    BY <1>1, ApartSlots, ShrunkEntryIs DEF Entry
<1>5. \A k \in DOMAIN req.grows : req.grows[k].size \in Int
    BY TypeParts, SizeIsInt
<1>6. SizesAsked'
    <2> SUFFICES ASSUME NEW k \in DOMAIN req.grows, NEW p \in table, GrownBy(k, ShrunkEntry(p))
                 PROVE  ShrunkEntry(p).size <= req.grows[k].size
        BY <1>1, AskedFrame DEF SizesAsked
    <2>1. GrownBy(k, p)
        BY <1>2 DEF GrownBy
    <2>2. p.size <= req.grows[k].size
        BY <2>1 DEF GrowthInv, SizesAsked
    <2> QED BY <1>1, <1>2, <1>4, <1>5, <2>2
<1>7. CopiesAsked'
    <2> SUFFICES ASSUME NEW k \in DOMAIN req.grows, NEW p \in table, NEW q \in table,
                        GrownBy(k, ShrunkEntry(p)), ShrunkEntry(q).guid \notin Ids,
                        ShrunkEntry(q).name = Alternate(ShrunkEntry(p).name)
                 PROVE  ShrunkEntry(p).size <= ShrunkEntry(q).size /\ ShrunkEntry(q).size <= req.grows[k].size
        BY <1>1, AskedFrame DEF CopiesAsked
    <2>1. GrownBy(k, p) /\ ShrunkEntry(q) = q /\ q.guid \notin Ids /\ q.name = Alternate(p.name)
        BY <1>2, <1>3 DEF GrownBy
    <2>2. p.size <= q.size /\ q.size <= req.grows[k].size
        BY <2>1 DEF GrowthInv, CopiesAsked
    <2> QED BY <1>1, <1>2, <1>4, <2>1, <2>2
<1>8. Exit \/ Restart("createPartitions")
    BY DEF ShrinkPartitions, Commit
<1>9. CASE Exit
    BY <1>6, <1>7, <1>9, GrowthExited
<1>10. CASE Restart("createPartitions")
    <2>1. pc' = "createPartitions" /\ UNCHANGED <<done, resizes>>
        BY <1>10 DEF Restart
    <2>2. \A item : AskedFor(item) => AskedFor(item)'
        BY <1>1, <1>2, AskedStays
    <2>3. ItemsAsked'
        BY <2>1, <2>2 DEF GrowthInv, ItemsAsked
    <2>4. CopiesNamed' /\ WriteBackAsked'
        BY <2>1 DEF CopiesNamed, WriteBackAsked, WritingBack, WhileCopying
    <2> QED BY <1>6, <1>7, <2>3, <2>4 DEF GrowthInv
<1> QED BY <1>8, <1>9, <1>10

\* A new copy is large enough for its original and no larger than asked for.
LEMMA GrowthCreatePartitions ==
    ASSUME SensibleCalls, CallsInv, SourcesFit, GrowthInv, CreatePartitions
    PROVE  GrowthInv'
<1>1. /\ pc = "createPartitions" /\ UNCHANGED <<req, origin>> /\ table \subseteq table' /\ Ids' = Ids
      /\ SoundTable(table, DiskSize)' /\ TypeInv /\ ApartInv /\ IdentityInv
      /\ StoreOK /\ LocalsTypeOK /\ SourcesKnown
    BY ApartCreated, TypeParts DEF CreatePartitions, environment, Commit, Ids, CallsInv, RunOK
<1>2. \A p \in table : p.name \in Label /\ p.size \in Nat
    BY <1>1 DEF StoreOK, TableOK, Entry
<1>3. \A e \in table' : e.guid \in Ids => e \in table
    <2> SUFFICES ASSUME NEW e \in table', e \notin table PROVE e.guid \notin Ids
        OBVIOUS
    <2>1. PICK m \in Grown, k \in Moved, p \in table : e = NewEntry(p, resizes[m])
        BY <1>1, CreatedIs
    <2>2. e.guid = <<"fresh", resizes[m].target.number>>
        BY <2>1, NewEntryParts
    <2> QED BY <1>1, <2>2, IdsAreOriginal
<1>4. SizesAsked'
    BY <1>1, <1>3, AskedFrame DEF GrowthInv, SizesAsked, GrownBy
<1>5. ASSUME NEW k \in DOMAIN req.grows, NEW p \in table, NEW q \in table', GrownBy(k, p),
             q \notin table, q.name = Alternate(p.name)
      PROVE  p.size <= q.size /\ q.size <= req.grows[k].size
    <2>1. PICK m \in Grown, j \in Moved, x \in table :
            Plan[j] = resizes[m] /\ x.number = resizes[m].original.number /\ q = NewEntry(x, resizes[m])
        BY <1>1, <1>5, CreatedIs
    <2>2. q.name = Alternate(x.name) /\ q.size = Align(resizes[m].target.size)
        BY <2>1, NewEntryParts DEF NewEntry
    <2>3. x.name = p.name
        BY <1>2, <1>5, <2>2, AlternateInjective
    <2>4. m \in DOMAIN resizes /\ ~InPlace(resizes[m]) /\ x \in Original(resizes[m]) /\ j \in DOMAIN Plan
        BY <2>1 DEF Grown, Original, Moved
    <2>5. AskedFor(resizes[m])
        BY <2>4 DEF GrowthInv, ItemsAsked
    <2>6. AboutRequest(x) /\ AboutRequest(p)
        BY <1>5, <2>4, <2>5 DEF AskedFor, AboutRequest
    <2>7. x = p
        BY <2>3, <2>6, NamesTellApart
    <2>8. resizes[m].target.size <= req.grows[k].size
        BY <1>5, <2>4, <2>5, <2>7, GrownByOne DEF AskedFor
    <2>9. resizes[m].target.size \in Int /\ req.grows[k].size \in Int
        <3>1. resizes[m] \in Item
            BY <1>1, <2>4 DEF LocalsTypeOK
        <3> QED BY <1>1, <3>1, SizeIsInt DEF Item, Target
    <2>10. Align(resizes[m].target.size) \in Int /\ Align(resizes[m].target.size) <= resizes[m].target.size
        BY <2>9, AlignBounds
    <2>11. p.size <= Align(resizes[m].target.size)
        BY <1>1, <2>1, <2>4, <2>7 DEF SourcesFit
    <2> QED BY <2>2, <2>8, <2>9, <2>10, <2>11
<1>6. CopiesAsked'
    <2> SUFFICES ASSUME NEW k \in DOMAIN req.grows, NEW p \in table', NEW q \in table',
                        GrownBy(k, p), q.guid \notin Ids, q.name = Alternate(p.name)
                 PROVE  p.size <= q.size /\ q.size <= req.grows[k].size
        BY <1>1, AskedFrame DEF CopiesAsked
    <2>1. p \in table
        BY <1>3 DEF GrownBy
    <2>2. CASE q \in table
        BY <2>1, <2>2 DEF GrowthInv, CopiesAsked
    <2> QED BY <1>5, <2>1, <2>2
<1>7. Exit \/ Restart("copyFilesystems")
    BY DEF CreatePartitions, Commit
<1>8. CASE Exit
    BY <1>4, <1>6, <1>8, GrowthExited
<1>9. CASE Restart("copyFilesystems")
    <2>1. /\ pc' = "copyFilesystems" /\ UNCHANGED <<done, resizes>> /\ Plan' = Plan /\ Moved' = Moved
          /\ \A k \in Moved : k \in DOMAIN Plan
        BY <1>9 DEF Restart, Plan, Moved
    <2>2. ASSUME NEW k \in DOMAIN Plan, NEW e \in table', e.number = Plan[k].original.number
          PROVE  e \in table
        BY <1>1, <2>2 DEF SourcesKnown, SoundTable
    <2>3. ItemsAsked'
        <3>1. \A k \in DOMAIN Plan : AskedFor(Plan[k])
            BY <1>1, PlanParts DEF GrowthInv, ItemsAsked
        <3>2. ASSUME NEW k \in DOMAIN Plan, NEW item, item = Plan[k] PROVE AskedFor(item)'
            BY <1>1, <2>2, <3>1, <3>2, AskedStays
        <3>3. /\ \A k \in DOMAIN done : \E m \in DOMAIN Plan : done[k] = Plan[m]
              /\ \A k \in DOMAIN resizes : \E m \in DOMAIN Plan : resizes[k] = Plan[m]
            BY <1>1, PlanParts
        <3>4. \A k \in DOMAIN Plan : \A item : item = Plan[k] => AskedFor(item)'
            BY <3>2
        <3> QED BY <2>1, <3>3, <3>4 DEF ItemsAsked
    <2>4. CopiesNamed'
        <3> SUFFICES ASSUME NEW k \in Moved, NEW p \in table', NEW q \in table',
                            p.number = Plan[k].original.number, q.number = Plan[k].target.number
                     PROVE  q.name = Alternate(p.name)
            BY <2>1 DEF CopiesNamed, Original, Relocated
        <3>1. p \in table
            BY <2>1, <2>2
        <3>2. CASE k \in DOMAIN done
            <4>1. Plan[k] = done[k]
                BY <1>1, <3>2, PlanParts
            <4>2. PICK x, y \in table : /\ x.number = done[k].original.number
                                        /\ y.number = done[k].target.number
                                        /\ y.name = Alternate(x.name)
                BY <1>1, <3>2 DEF ApartInv, DoneThere
            <4>3. x = p /\ y = q
                BY <1>1, <4>1, <4>2 DEF SoundTable
            <4> QED BY <4>2, <4>3
        <3>3. CASE k \notin DOMAIN done
            <4>1. PICK m \in Grown : Plan[k] = resizes[m]
                BY <1>1, <3>3, MovedTarget DEF AfterShrinks
            <4>2. q \notin table
                BY <1>1, <4>1 DEF ApartInv, PlacesClear
            <4>3. PICK n \in Grown, j \in Moved, x \in table :
                    x.number = resizes[n].original.number /\ q = NewEntry(x, resizes[n])
                BY <1>1, <4>2, CreatedIs
            <4>4. q.number = resizes[n].target.number /\ q.name = Alternate(x.name)
                BY <4>3, NewEntryParts DEF NewEntry
            <4>5. n = m
                BY <1>1, <4>1, <4>4 DEF ApartInv, PlacesClear
            <4>6. x = p
                BY <1>1, <3>1, <4>1, <4>3, <4>5 DEF ApartInv, SoundTable
            <4> QED BY <4>4, <4>6
        <3> QED BY <3>2, <3>3
    <2>5. WriteBackAsked'
        BY <2>1 DEF WriteBackAsked, WritingBack
    <2> QED BY <1>4, <1>6, <2>3, <2>4, <2>5 DEF GrowthInv
<1> QED BY <1>7, <1>8, <1>9

\* What gets an identity is the copy of the partition whose identity it was.
LEMMA BecomesOriginal ==
    ASSUME TypeInv, ApartInv, IdentityInv, GrowthInv, pc = "updatePartitions", NEW q \in table, MovedTo(q) # {}
    PROVE  \E p \in table : /\ FinalEntry(q).guid = p.guid /\ FinalEntry(q).name = p.name /\ p.guid \in Ids
                            /\ q.guid \notin Ids /\ q.name = Alternate(p.name)
<1>1. PICK k \in MovedTo(q) : /\ OriginalAt(k) \in table
                              /\ OriginalAt(k).start = Plan[k].original.start
                              /\ FinalEntry(q) = Identified(q, OriginalAt(k), k)
    BY FinalEntryIs
<1>2. k \in Moved /\ k \in DOMAIN Plan /\ q \in Entry
    BY TypeParts DEF StoreOK, TableOK, MovedTo, Moved
<1>3. FinalEntry(q).guid = OriginalAt(k).guid /\ FinalEntry(q).name = OriginalAt(k).name
    BY <1>1, <1>2 DEF Identified, Entry
<1>4. OriginalAt(k).number = Plan[k].original.number
    BY <1>1, <1>2, SourceAt
<1>5. OriginalAt(k).guid \in Ids
    <2>1. Items = Plan
        BY DEF Items
    <2> QED BY <1>1, <1>2, <1>4, <2>1 DEF ApartInv, SourcesOriginal
<1>6. q \in Relocated(Plan[k]) /\ q.guid \notin Ids
    BY <1>1, MovedToIs
<1>7. q.name = Alternate(OriginalAt(k).name)
    BY <1>1, <1>2, <1>4, <1>6 DEF GrowthInv, CopiesNamed, WhileCopying, Original
<1> QED BY <1>1, <1>3, <1>5, <1>6, <1>7

\* A copy that takes its original's place is as large as that, and it was the
\* only one.
LEMMA GrowthUpdatePartitions ==
    ASSUME TypeInv, ApartInv, IdentityInv, GrowthInv, UpdatePartitions
    PROVE  GrowthInv'
<1> DEFINE kept == {q \in table : ~Superseded(q)}
<1>1. /\ pc = "updatePartitions" /\ UNCHANGED <<req, origin>> /\ Exit
      /\ table' = {FinalEntry(q) : q \in kept}
    BY DEF UpdatePartitions, Commit, environment
<1>2. \A q \in table : FinalEntry(q).size = q.size /\ (MovedTo(q) = {} => FinalEntry(q) = q)
    BY FinalEntryIs
<1>3. ASSUME NEW q \in table, MovedTo(q) # {}
      PROVE  \E p \in table : /\ FinalEntry(q).guid = p.guid /\ FinalEntry(q).name = p.name /\ p.guid \in Ids
                              /\ q.guid \notin Ids /\ q.name = Alternate(p.name)
    BY <1>1, <1>3, BecomesOriginal
<1>4. SizesAsked'
    <2> SUFFICES ASSUME NEW k \in DOMAIN req.grows, NEW q \in table, GrownBy(k, FinalEntry(q))
                 PROVE  FinalEntry(q).size <= req.grows[k].size
        BY <1>1, AskedFrame DEF SizesAsked
    <2>1. CASE MovedTo(q) = {}
        BY <1>2, <2>1 DEF GrowthInv, SizesAsked
    <2>2. CASE MovedTo(q) # {}
        <3>1. PICK p \in table : /\ FinalEntry(q).guid = p.guid
                                 /\ q.guid \notin Ids /\ q.name = Alternate(p.name)
            BY <1>3, <2>2
        <3>2. GrownBy(k, p)
            BY <3>1 DEF GrownBy
        <3> QED BY <1>2, <3>1, <3>2 DEF GrowthInv, CopiesAsked
    <2> QED BY <2>1, <2>2
<1>5. CopiesAsked'
    <2> SUFFICES ASSUME NEW k \in DOMAIN req.grows, NEW x \in table, NEW y \in table,
                        GrownBy(k, FinalEntry(x)), FinalEntry(y).guid \notin Ids,
                        FinalEntry(y).name = Alternate(FinalEntry(x).name)
                 PROVE  FinalEntry(x).size <= FinalEntry(y).size /\ FinalEntry(y).size <= req.grows[k].size
        BY <1>1, AskedFrame DEF CopiesAsked
    <2>1. MovedTo(y) = {} /\ FinalEntry(y) = y /\ y.guid \notin Ids
        BY <1>2, <1>3
    <2>2. CASE MovedTo(x) = {}
        BY <1>2, <2>1, <2>2 DEF GrowthInv, CopiesAsked
    <2>3. CASE MovedTo(x) # {}
        <3>1. PICK p \in table : FinalEntry(x).name = p.name /\ x.guid \notin Ids /\ x.name = Alternate(p.name)
            BY <1>3, <2>3
        <3>2. x.name = y.name
            BY <2>1, <3>1
        <3>3. x = y
            BY <2>1, <3>1, <3>2 DEF IdentityInv, IdentityKept
        <3> QED BY <2>1, <2>3, <3>3
    <2> QED BY <2>2, <2>3
<1> QED BY <1>1, <1>4, <1>5, GrowthExited

\* On the disk such a caller starts with nothing is larger than he asks for.
LEMMA GrowthInit == ASSUME GrowsOnly PROVE DiskInit => GrowthInv
<1> SUFFICES ASSUME DiskInit PROVE GrowthInv
    OBVIOUS
<1>1. table = origin /\ origin \in Layouts /\ req \in Requests /\ pc = "off" /\ done = <<>> /\ resizes = <<>>
    BY DEF DiskInit, Init, InitLocals
<1>2. \A p \in table : Before(p.guid) = p /\ p.guid \in Ids
    BY <1>1, DiskTypeInit, TypeParts, BeforeIs
<1>3. SizesAsked /\ CopiesAsked
    BY <1>1, <1>2 DEF SizesAsked, CopiesAsked, GrowsOnly, GrownBy, Named
<1>4. ItemsAsked /\ CopiesNamed /\ WriteBackAsked
    BY <1>1 DEF ItemsAsked, CopiesNamed, WriteBackAsked, WritingBack, WhileCopying
<1> QED BY <1>3, <1>4 DEF GrowthInv

LEMMA GrowthNext ==
    ASSUME SensibleCalls, MaxChanges = 0, CallsInv, SourcesFit, GrowthInv, [DiskNext]_vars
    PROVE  GrowthInv'
<1>1. TypeInv /\ ApartInv /\ IdentityInv /\ changes = 0
    BY DEF CallsInv, TypeInv, DiskTypeOK
<1>2. CASE Planning
    BY <1>2, GrowthPlanning
<1>3. CASE Abort \/ DryRun \/ Interrupt
    <2>1. Exit /\ UNCHANGED <<table, req, origin>>
        BY <1>3 DEF Abort, DryRun, Interrupt, environment
    <2>2. SizesAsked' /\ CopiesAsked'
        BY <2>1, AskedFrame DEF GrowthInv, SizesAsked, CopiesAsked
    <2> QED BY <2>1, <2>2, GrowthExited
<1>4. CASE Execute \/ NextPhase \/ KeepFilesystem \/ ShrinkRefused \/ ShrinkOnDevice \/ ShrinkWrittenBack
    <2>1. /\ UNCHANGED <<table, req, origin, done, resizes>>
          /\ pc' \notin {"classify", "allocate"} \cup WritingBack
          /\ pc' \in WhileCopying => pc \in WhileCopying
        BY <1>4 DEF Execute, NextPhase, Loop, Restart, KeepFilesystem, ShrinkRefused, ShrinkOnDevice,
            ShrinkWrittenBack, Advance, GoTo, At, locals, environment, WhileCopying, WritingBack
    <2>2. WriteBackAsked'
        BY <2>1 DEF WriteBackAsked, WritingBack
    <2> QED BY <2>1, <2>2, GrowthStays
<1>5. CASE Checking
    <2>1. /\ UNCHANGED <<table, req, origin, done, resizes>>
          /\ pc' \notin {"classify", "allocate", "writeBack"} \cup WhileCopying
          /\ pc' = "repair" => ~IsBlock /\ req.fixErrors
        BY <1>5, CheckingFrame DEF environment, WhileCopying
    <2>2. WriteBackAsked'
        BY <2>1 DEF WriteBackAsked, WritingBack
    <2> QED BY <2>1, <2>2, GrowthStays
<1>12. CASE ShrinkWriteBack
    <2>1. /\ UNCHANGED <<table, req, origin, done, resizes, i>> /\ pc' = "writeBack" /\ InPlace(Plan[i])
          /\ ~IsBlock
        BY <1>12 DEF ShrinkWriteBack, GoTo, locals, environment
    <2>2. Plan' = Plan
        BY <2>1 DEF Plan
    <2>3. WriteBackAsked'
        BY <2>1, <2>2 DEF WriteBackAsked, InPlace
    <2> QED BY <2>1, <2>3, GrowthStays DEF WhileCopying
<1>6. CASE ShrinkPartitions
    BY <1>1, <1>6, GrowthShrinkPartitions
<1>7. CASE CreatePartitions
    BY <1>7, GrowthCreatePartitions
<1>8. CASE SkipUnmoved \/ SkipMatching \/ Format \/ Fill \/ StartRawCopy \/ FinishRawCopy \/ CopyUnsupported
    <2>1. /\ UNCHANGED <<table, req, origin, done, resizes>>
          /\ pc' \notin {"classify", "allocate"} \cup WritingBack /\ pc \in WhileCopying
        BY <1>8 DEF SkipUnmoved, SkipMatching, Format, Fill, StartRawCopy, FinishRawCopy, CopyUnsupported,
            Copying, Advance, GoTo, At, locals, environment, WhileCopying, WritingBack
    <2>2. WriteBackAsked'
        BY <2>1 DEF WriteBackAsked, WritingBack
    <2> QED BY <2>1, <2>2, GrowthStays
<1>9. CASE UpdatePartitions
    BY <1>1, <1>9, GrowthUpdatePartitions
<1>10. CASE OsWrites \/ UNCHANGED vars
    <2>1. UNCHANGED <<table, req, origin, done, todo, resizes, i, pc>>
        BY <1>10 DEF OsWrites, vars, plannerVars, locals, environment
    <2>2. WriteBackAsked'
        BY <2>1 DEF GrowthInv, WriteBackAsked, WritingBack, Plan, InPlace
    <2> QED BY <2>1, <2>2, GrowthStays
<1>11. ~ChangeRequest
    BY <1>1 DEF ChangeRequest
<1> QED BY <1>2, <1>3, <1>4, <1>5, <1>6, <1>7, <1>8, <1>9, <1>10, <1>11, <1>12 DEF DiskNext, Run, Checking

\* What is written back is at risk: the partition that was offered, if it is
\* after a shrink,
ShrinkSpared == pc = "writeBack" => \A p \in Original(Plan[i]) : p.guid \notin Others
LEMMA ShrinkSpares == ASSUME TypeInv, GrowthInv PROVE ShrinkSpared
<1> SUFFICES ASSUME pc = "writeBack", NEW p \in Original(Plan[i]) PROVE p.guid \notin Others
    BY DEF ShrinkSpared
<1>1. InPlace(Plan[i]) /\ ~IsBlock /\ StoreOK /\ LocalsTypeOK /\ i \in DOMAIN Plan
    BY TypeParts DEF GrowthInv, WriteBackAsked, WritingBack, RunOK, CursorAtItem
<1>2. AskedFor(Plan[i])
    BY <1>1, PlanParts DEF GrowthInv, ItemsAsked
<1>3. Offered(p)
    BY <1>1, <1>2 DEF AskedFor
<1> QED BY <1>1, <1>3, BeforeIs DEF Others, Offered, AtRisk, MayShrink

\* and after a repair that or an ext4 one that is to grow.
LEMMA RepairSpares ==
    ASSUME CallsInv, GrowthInv, HaveFiles(Others), RepairWriteBack, NEW p \in Original(Plan[i])
    PROVE  p.guid \notin Others
<1>1. PICK q \in table : Repairing(q)
    BY DEF RepairWriteBack
<1>2. q = p /\ p \in table /\ req.fixErrors /\ KindOf(p) = "ext4" /\ ~IsBlock /\ i \in DOMAIN Plan
    <2>1. i <= Len(Plan) /\ i \in Nat \ {0} /\ Plan \in Seq(Item)
        BY <1>1, TypeParts, PlanParts DEF Repairing, At, CallsInv, RunOK, LocalsTypeOK
    <2> QED BY <1>1, <2>1 DEF Repairing, Original, CallsInv, ApartInv, SoundTable, RepairWriteBack
<1> SUFFICES ASSUME p.guid \in Others PROVE FALSE
    OBVIOUS
<1>3. p.guid \in Ids
    BY DEF Others, Ids
<1>4. ContentOf(p).fs = p.guid
    <2>1. PICK g : g = Others
        OBVIOUS
    <2> QED BY <1>2, <1>3, <2>1, OwnFiles DEF CallsInv
<1>5. Kind[p.guid] = "ext4"
    BY <1>2, <1>4 DEF KindOf
<1>6. AskedFor(Plan[i])
    BY <1>2, PlanParts, TypeParts DEF GrowthInv, ItemsAsked, CallsInv, RunOK
<1>7. \/ Offered(p)
      \/ \E k \in DOMAIN req.grows : GrownBy(k, p)
    BY <1>6 DEF AskedFor
<1>8. AtRisk(Before(p.guid))
    <2>1. Before(p.guid).guid = p.guid
        BY <1>2, <1>3, NamedAsBefore DEF CallsInv
    <2> QED BY <1>2, <1>5, <1>7, <2>1 DEF AtRisk, MayShrink, MayRepair, Offered, GrownBy
<1> QED BY <1>8, BeforeIs, TypeParts DEF Others, CallsInv

LEMMA RepairStarts ==
    ASSUME [DiskNext]_vars, pc' = "repair"
    PROVE  RepairWriteBack \/ UNCHANGED vars
<1>1. ~(Planning \/ Abort \/ DryRun \/ Interrupt \/ OsWrites \/ ChangeRequest)
    BY NextFrame DEF Planning, Abort, DryRun, Interrupt, OsWrites, ChangeRequest, Exit, plannerVars, locals
<1>2. ~(Execute \/ NextPhase \/ CheckPasses \/ RepairOnDevice \/ RepairWrittenBack \/ CheckFails)
    BY DEF Execute, NextPhase, Loop, Restart, CheckPasses, RepairOnDevice, Repairing, RepairWrittenBack,
        CheckFails, At, Advance, GoTo
<1>3. ~(KeepFilesystem \/ ShrinkRefused \/ ShrinkOnDevice \/ ShrinkWriteBack \/ ShrinkWrittenBack)
    BY DEF KeepFilesystem, ShrinkRefused, ShrinkOnDevice, ShrinkWriteBack, ShrinkWrittenBack, At, Advance, GoTo
<1>4. ~(ShrinkPartitions \/ CreatePartitions \/ UpdatePartitions)
    BY DEF ShrinkPartitions, CreatePartitions, UpdatePartitions, Commit, Restart, Exit
<1>5. ~(SkipUnmoved \/ SkipMatching \/ Format \/ Fill \/ StartRawCopy \/ FinishRawCopy \/ CopyUnsupported)
    BY DEF SkipUnmoved, SkipMatching, Format, Fill, StartRawCopy, FinishRawCopy, CopyUnsupported,
        Copying, At, Advance, GoTo
<1> QED BY <1>1, <1>2, <1>3, <1>4, <1>5 DEF DiskNext, Run

\* So the partitions that are not at risk are spared,
LEMMA OthersSpared ==
    ASSUME CallsInv, GrowthInv, HaveFiles(Others), Spared(Others), [DiskNext]_vars,
           CallsInv', GrowthInv', UNCHANGED <<req, origin>>
    PROVE  Spared(Others)'
<1>1. Others' = Others
    BY AskedFrame
<1> SUFFICES ASSUME pc' \in WritingBack, NEW p \in Original(Plan[i])' PROVE p.guid \notin Others
    BY <1>1 DEF Spared
<1>2. CASE pc' = "writeBack"
    <2>1. TypeInv'
        BY DEF CallsInv
    <2>2. ShrinkSpared'
        BY <2>1, ShrinkSpares, PTL
    <2> QED BY <1>1, <1>2, <2>2 DEF ShrinkSpared
<1>3. CASE pc' = "repair"
    <2>1. UNCHANGED <<table, i, done, resizes>>
        BY <1>3, RepairStarts DEF RepairWriteBack, GoTo, locals, vars, plannerVars
    <2>2. p \in Original(Plan[i])
        BY <2>1 DEF Original, Plan
    <2>3. CASE RepairWriteBack
        BY <2>2, <2>3, RepairSpares
    <2>4. CASE UNCHANGED vars
        BY <1>3, <2>2, <2>4 DEF Spared, WritingBack, vars, plannerVars
    <2> QED BY <1>3, <2>3, <2>4, RepairStarts
<1> QED BY <1>2, <1>3 DEF WritingBack

\* and keep their files.
OthersInv == CallsInv /\ GrowthInv /\ DataInv(Others) /\ Spared(Others)

LEMMA OthersInit == ASSUME GrowsOnly PROVE DiskInit => OthersInv
<1> SUFFICES ASSUME DiskInit PROVE OthersInv
    OBVIOUS
<1>1. PICK g : g = Others
    OBVIOUS
<1>2. DataInv(g)
    BY DataInit
<1>3. pc = "off"
    BY DEF DiskInit, Init
<1> QED BY <1>1, <1>2, <1>3, CallsInit, GrowthInit DEF OthersInv, Spared, WritingBack

LEMMA OthersNext ==
    ASSUME SensibleCalls, MaxChanges = 0, OthersInv, [DiskNext]_vars
    PROVE  OthersInv'
<1> USE DEF OthersInv
<1>1. CallsInv' /\ GrowthInv'
    BY CallsNext, GrowthNext DEF DataInv
<1>2. UNCHANGED <<req, origin>>
    <2>1. ~ChangeRequest
        BY DEF ChangeRequest, CallsInv, TypeInv, DiskTypeOK
    <2> QED BY <2>1, RequestFrame, TableFrame
<1>3. Spared(Others)'
    BY <1>1, <1>2, OthersSpared DEF DataInv
<1>4. PICK g : g = Others
    OBVIOUS
<1>5. Others' = g
    BY <1>2, <1>4, AskedFrame
<1>6. Spared(g)'
    BY <1>3, <1>5 DEF Spared
<1>7. DataInv(g)'
    BY <1>4, <1>6, DataNext DEF CallsInv
<1> QED BY <1>1, <1>3, <1>5, <1>7

LEMMA OthersHaveFiles == HaveFiles(Others) => OthersKeepFiles
BY DEF HaveFiles, Others, OthersKeepFiles, Ids

\* In an image file a filesystem that was repaired or shrunk is written back
\* over its partition, and a run that stops half way destroys it. A caller who
\* never asks for less than there is risks that for the partition he offered to
\* shrink and, if he wants errors fixed, for the ext4 ones that are to grow, but
\* for no other, wherever a run stops and however often he repeats his call.
THEOREM OthersAlwaysKeepFiles ==
    ASSUME SensibleCalls, GrowsOnly, MaxChanges = 0
    PROVE  DiskSpec => []OthersKeepFiles
<1>1. DiskInit => OthersInv
    BY OthersInit
<1>2. OthersInv /\ [DiskNext]_vars => OthersInv'
    BY OthersNext
<1>3. OthersInv => OthersKeepFiles
    BY OthersHaveFiles DEF OthersInv, DataInv
<1> QED BY <1>1, <1>2, <1>3, PTL DEF DiskSpec
-----------------------------------------------------------------------------
\* Every entry lies outside the GPT, and so does every place laid out until
\* the entries for it are created.
EntriesUsable == \A p \in table : Extent(p) \subseteq Usable
PlacesUsed == {"planned", "check", "repair", "shrinkFilesystems", "writeBack", "shrinkPartitions",
               "createPartitions"}
PlacesUsable ==
    pc \in PlacesUsed => \A k \in Grown : Extent(resizes[k].target) \subseteq Usable

LEMMA AlignedUsable ==
    ASSUME Align(Metadata) = Metadata, NEW start \in Nat, NEW size \in Int, Align(size) \in Nat \ {0},
           Bytes(start, size) \subseteq Usable
    PROVE  Bytes(Align(start), Align(size)) \subseteq Usable
<1>1. size > 0 /\ size \in Nat
    BY AlignBounds
<1>2. start \in Bytes(start, size) /\ start + size - 1 \in Bytes(start, size)
    BY <1>1 DEF Bytes
<1>3. Metadata <= start /\ start + size - 1 <= DiskSize - Metadata - 1
    BY <1>2, SizeAssumption DEF Usable
<1>4. Metadata <= Align(start)
    BY <1>3, AlignMonotone, SizeAssumption
<1>5. Align(start) \in Nat /\ Align(start) + Align(size) <= start + size
    BY AlignedRange
<1> QED BY <1>1, <1>3, <1>4, <1>5, SizeAssumption DEF Bytes, Usable

LEMMA UsableTable ==
    ASSUME Align(Metadata) = Metadata, CallsInv, EntriesUsable, PlacesUsable, [DiskNext]_vars
    PROVE  EntriesUsable'
<1> USE DEF EntriesUsable, CallsInv
<1>1. CASE table' = table
    BY <1>1
<1>2. CASE ShrinkPartitions
    <2>1. pc = "shrinkPartitions"
        BY <1>2 DEF ShrinkPartitions
    <2> SUFFICES ASSUME NEW p \in table PROVE Extent(ShrunkEntry(p)) \subseteq Usable
        BY <1>2, ShrinkWrites
    <2> QED BY <2>1, ShrunkFits DEF Remaining
<1>3. CASE CreatePartitions
    <2>1. pc = "createPartitions"
        BY <1>3 DEF CreatePartitions
    <2> SUFFICES ASSUME NEW e \in table' PROVE Extent(e) \subseteq Usable
        OBVIOUS
    <2>2. CASE e \in table
        BY <2>2
    <2>3. CASE e \notin table
        <3>1. PICK m \in Grown, k \in Moved, p \in table : Plan[k] = resizes[m] /\ e = NewEntry(p, resizes[m])
            BY <1>3, <2>3, CreatedIs
        <3>2. /\ resizes[m].target.start \in Nat /\ Align(resizes[m].target.size) \in Nat \ {0}
              /\ resizes[m].target.size \in Int
            BY <2>1, <3>1, MovedTarget DEF AfterShrinks, Item, Target
        <3>3. Bytes(resizes[m].target.start, resizes[m].target.size) \subseteq Usable
            BY <2>1, <3>1 DEF PlacesUsable, PlacesUsed, Extent
        <3> QED BY <3>1, <3>2, <3>3, AlignedUsable, NewEntryParts DEF Extent
    <2> QED BY <2>2, <2>3
<1>4. CASE UpdatePartitions
    <2> SUFFICES ASSUME NEW q \in table PROVE Extent(FinalEntry(q)) \subseteq Usable
        BY <1>4 DEF UpdatePartitions, Commit
    <2> QED BY FinalEntryIs DEF Extent
<1> QED BY <1>1, <1>2, <1>3, <1>4, TableFrame

LEMMA UsablePlaces ==
    ASSUME PlacesUsable, GrownIntoFreeSpace', [DiskNext]_vars
    PROVE  PlacesUsable'
<1>1. CASE pc' = "planned"
    BY <1>1 DEF PlacesUsable, GrownIntoFreeSpace
<1>2. CASE pc' \in {"off", "classify", "allocate", "failed", "copyFilesystems", "fill", "rawCopy", "updatePartitions"}
    BY <1>2 DEF PlacesUsable, PlacesUsed
<1>3. CASE UNCHANGED resizes /\ pc \in PlacesUsed
    BY <1>3 DEF PlacesUsable, Grown, InPlace
<1>4. CASE Planning
    BY <1>1, <1>2, <1>4, NextFrame DEF Planning, PlacesUsed
<1>5. CASE \/ Abort \/ DryRun \/ Execute \/ NextPhase \/ Interrupt \/ OsWrites \/ ChangeRequest \/ UNCHANGED vars
    BY <1>1, <1>2, <1>3, <1>5 DEF Abort, DryRun, Execute, NextPhase, Loop, Restart, Interrupt, Exit, OsWrites,
        ChangeRequest, vars, plannerVars, locals, PlacesUsable, PlacesUsed, Grown, InPlace
<1>6. CASE \/ Checking
           \/ KeepFilesystem \/ ShrinkRefused \/ ShrinkOnDevice \/ ShrinkWriteBack \/ ShrinkWrittenBack
    BY <1>3, <1>2, <1>6, CheckingFrame DEF KeepFilesystem, ShrinkRefused, ShrinkOnDevice,
        ShrinkWriteBack, ShrinkWrittenBack, Advance, GoTo, At, locals, PlacesUsed
<1>7. CASE SkipUnmoved \/ SkipMatching \/ Format \/ Fill \/ StartRawCopy \/ FinishRawCopy \/ CopyUnsupported
    BY <1>2, <1>7 DEF SkipUnmoved, SkipMatching, Format, Fill, StartRawCopy, FinishRawCopy, CopyUnsupported, Advance,
        GoTo, At, Copying
<1>8. CASE ShrinkPartitions \/ CreatePartitions \/ UpdatePartitions
    BY <1>2, <1>3, <1>8 DEF ShrinkPartitions, CreatePartitions, UpdatePartitions, Commit, Restart, Exit, PlacesUsed
<1> QED BY <1>4, <1>5, <1>6, <1>7, <1>8 DEF DiskNext, Run, Checking

\* The only way an entry can get onto the GPT is that calculateResizes lays it
\* out there: whole sectors are rounded away from it, and shrinks, resumed runs
\* and the last table write keep to the places laid out. So a disk whose plans
\* use the free space alone can be booted after every table write.
THEOREM SensibleCallsKeepUsable ==
    ASSUME SensibleCalls, Align(Metadata) = Metadata
    PROVE  DiskSpec /\ []GrownIntoFreeSpace => []TableSound
<1>1. DiskInit => EntriesUsable /\ PlacesUsable
    BY LayoutAssumption DEF DiskInit, Init, EntriesUsable, PlacesUsable, PlacesUsed
<1>2. /\ CallsInv /\ EntriesUsable /\ PlacesUsable /\ GrownIntoFreeSpace' /\ [DiskNext]_vars
      => (EntriesUsable /\ PlacesUsable)'
    BY UsableTable, UsablePlaces
<1>3. CallsInv /\ EntriesUsable => TableSound
    BY DEF CallsInv, ApartInv, EntriesApart, EntriesUsable, TableSound
<1> QED BY <1>1, <1>2, <1>3, SensibleCallsKeepInvariant, PTL DEF DiskSpec
=============================================================================
