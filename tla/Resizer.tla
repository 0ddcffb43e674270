------------------------------ MODULE Resizer ------------------------------
(***************************************************************************)
(* A disk and the runs of the resizer on it: Run plans (module Planner),   *)
(* checks the source filesystems, and resize shrinks filesystems, shrinks  *)
(* partitions, creates the relocated partitions, copies the filesystems    *)
(* and gives the copies their originals' identities.  A run may stop at    *)
(* any step, and a later run starts from what it left on the disk; between *)
(* runs the operating system writes to the filesystems, and the user may   *)
(* ask for something else.                                                 *)
(*                                                                         *)
(* A table write is one step: the table on the disk and the one the run    *)
(* holds in memory are the same.                                           *)
(***************************************************************************)
EXTENDS Planner

CONSTANTS
    SectorSize,     \* the logical sector size
    MB,             \* what resize2fs sizes are rounded down to
    Kind,           \* the type of the filesystem each original partition holds
    Used,           \* the size resize2fs cannot shrink that filesystem below
    Deferral,       \* can the kernel re-read a new table: {FALSE}, {TRUE}, BOOLEAN
    MaxInterrupts,  \* bound on interrupted runs
    MaxWrites,      \* bound on writes by the operating system
    MaxChanges      \* bound on changes of the request

ASSUME DiskAssumption ==
    /\ SectorSize \in Nat \ {0} /\ MB \in Nat \ {0}
    /\ Deferral \subseteq BOOLEAN /\ Deferral # {}
    /\ MaxInterrupts \in Nat /\ MaxWrites \in Nat /\ MaxChanges \in Nat
    /\ "linux" \in Types
\* The filesystems are those of the partitions a disk starts with.
ASSUME FilesystemAssumption ==
    /\ DOMAIN Kind \subseteq {"original"} \X Nat
    /\ Used \in [DOMAIN Kind -> Nat \ {0}]
    /\ \A layout \in Layouts : \A p \in layout : p.guid \in DOMAIN Kind

Align(n) == (n \div SectorSize) * SectorSize
\* A GPT counts in sectors, and a megabyte is a number of them.
ASSUME SectorAssumption ==
    /\ Align(MB) = MB
    /\ \A layout \in Layouts : \A p \in layout : Align(p.start) = p.start /\ Align(p.size) = p.size

VARIABLES
    disk,           \* what each byte of the disk belongs to
    finished,       \* some run of the request returned success
    origin,         \* the table before the first run
    latest,         \* the version last written to each filesystem
    interrupts,     \* runs interrupted so far
    writes,         \* writes by the operating system so far
    changes         \* changes of the request so far

environment == <<origin, latest, interrupts, writes, changes>>
vars == <<plannerVars, disk, finished, environment>>

\* The content of a filesystem: which one it is, the version of its files, how
\* many bytes it spans, and whether a checker finds it inconsistent. Every byte
\* it spans holds the same token. Version 0 is a filesystem that was made but
\* not filled yet.
Content == [fs : Guid, version : Nat, length : Nat, dirty : BOOLEAN]
Made(fs, version, length) == [fs |-> fs, version |-> version, length |-> length, dirty |-> FALSE]
Junk == Made(<<"fresh", 0>>, 0, 0)
Empty(fs, length) == Made(fs, 0, length)
\* What e2fsck and fsck.fat make of it.
Repaired(content) == [content EXCEPT !.dirty = FALSE]

\* The filesystem on an entry, Junk if its bytes are not all there.
Whole(p, content) ==
    /\ content.length \in 1 .. p.size
    /\ \A b \in Bytes(p.start, content.length) : disk[b] = content
ContentOf(p) == IF Whole(p, disk[p.start]) THEN disk[p.start] ELSE Junk

\* GetFilesystem: the type it recognizes, if any.
KindOf(p) == IF ContentOf(p).fs \in DOMAIN Kind THEN Kind[ContentOf(p).fs] ELSE "unknown"

\* disk' when the given bytes are overwritten.
Written(bytes, content) == [b \in DOMAIN disk |-> IF b \in bytes THEN content ELSE disk[b]]
\* disk' when length bytes are copied.
Copied(from, to, length) ==
    [b \in DOMAIN disk |-> IF b \in Bytes(to, length) THEN disk[b - to + from] ELSE disk[b]]
-----------------------------------------------------------------------------
Phases == {"off", "classify", "allocate", "planned", "failed", "check", "repair",
           "shrinkFilesystems", "writeBack", "shrinkPartitions", "createPartitions",
           "copyFilesystems", "fill", "rawCopy", "updatePartitions"}

\* The type invariant of the disk, the run and its environment.
DiskTypeOK ==
    /\ table \subseteq Entry /\ IsFiniteSet(table)
    /\ req \in Requests
    /\ pc \in Phases
    /\ LocalsTypeOK
    /\ disk \in [0 .. DiskSize - 1 -> Content]
    /\ finished \in BOOLEAN
    /\ origin \in Layouts
    /\ latest \in [{p.guid : p \in origin} -> Nat]
    /\ interrupts \in 0 .. MaxInterrupts
    /\ writes \in 0 .. MaxWrites
    /\ changes \in 0 .. MaxChanges

DiskInit ==
    /\ Init
    /\ origin = table
    /\ latest = [g \in {p.guid : p \in table} |-> 1]
    /\ disk = [b \in 0 .. DiskSize - 1 |->
                  IF \E p \in table : b \in Extent(p)
                  THEN LET p == CHOOSE p \in table : b \in Extent(p)
                       IN Made(p.guid, 1, p.size)
                  ELSE Junk]
    /\ finished = FALSE
    /\ interrupts = 0
    /\ writes = 0
    /\ changes = 0
-----------------------------------------------------------------------------
\* The run ends and its memory is gone.
Exit ==
    /\ pc' = "off"
    /\ i' = 1 /\ done' = <<>> /\ todo' = <<>> /\ total' = 0 /\ retried' = FALSE
    /\ free' = {} /\ taken' = {} /\ resizes' = <<>>

\* Planning reads the table only.
Planning == Next /\ UNCHANGED <<disk, finished, environment>>

Abort ==
    /\ pc = "failed"
    /\ Exit
    /\ UNCHANGED <<table, req, disk, finished, environment>>

DryRun ==
    /\ pc = "planned"
    /\ req.dryRun
    /\ Exit
    /\ UNCHANGED <<table, req, disk, finished, environment>>

\* The loops over the plan share the cursor i.
At(phase) == pc = phase /\ i <= Len(Plan)
Advance == i' = i + 1 /\ UNCHANGED <<pc, done, todo, total, retried, free, taken, resizes>>
GoTo(phase) == pc' = phase /\ UNCHANGED locals
Restart(phase) ==
    /\ pc' = phase /\ i' = 1
    /\ UNCHANGED <<done, todo, total, retried, free, taken, resizes>>
Loop(phase, next) == pc = phase /\ i > Len(Plan) /\ Restart(next)

Execute ==
    /\ pc = "planned"
    /\ ~req.dryRun
    /\ Restart("check")
    /\ UNCHANGED <<table, req, disk, finished, environment>>

NextPhase ==
    /\ \/ Loop("check", "shrinkFilesystems")
       \/ Loop("shrinkFilesystems", "shrinkPartitions")
       \/ Loop("copyFilesystems", "updatePartitions")
    /\ UNCHANGED <<table, req, disk, finished, environment>>

\* The entry an item's original number names.
Original(item) == {p \in table : p.number = item.original.number}
Relocated(item) == {p \in table : p.number = item.target.number}
-----------------------------------------------------------------------------
\* checkSourceFilesystems, one source at a time. Only ext4 and fat32 have a
\* checker; a source that was checked already is not checked again.
\* The mutant knows the checker for ext4 only.
BugInconsistent(p) == KindOf(p) = "ext4" /\ ContentOf(p).dirty
Inconsistent(p) == KindOf(p) \in {"ext4", "fat32"} /\ ContentOf(p).dirty
CheckedBefore(item) == \E k \in 1 .. i - 1 : Plan[k].original.number = item.original.number

\* In an image file a copy of the partition is checked and, with fixErrors,
\* written back. One that had no errors is written back as it was.
CheckPasses ==
    /\ At("check")
    /\ \E p \in Original(Plan[i]) : CheckedBefore(Plan[i]) \/ ~Inconsistent(p)
    /\ Advance
    /\ UNCHANGED <<table, req, disk, finished, environment>>

\* e2fsck -y repairs the source: exit status 1 and 2 mean that it did. The
\* mutant takes status 1 of fsck.fat for the same.
BugRepairing(p) ==
    /\ At("check")
    /\ req.fixErrors
    /\ p \in Original(Plan[i])
    /\ ~CheckedBefore(Plan[i])
    /\ Inconsistent(p)
Repairing(p) ==
    /\ At("check")
    /\ req.fixErrors
    /\ p \in Original(Plan[i])
    /\ ~CheckedBefore(Plan[i])
    /\ Inconsistent(p)
    /\ KindOf(p) = "ext4"

\* On a block device it works on the partition's device node.
RepairOnDevice ==
    /\ IsBlock
    /\ \E p \in table :
        /\ Repairing(p)
        /\ disk' = Written(Bytes(p.start, ContentOf(p).length), Repaired(ContentOf(p)))
    /\ Advance
    /\ UNCHANGED <<table, req, finished, environment>>

\* In an image file the repaired copy is written back over the whole partition,
\* in order: some of it is on the disk in between.
RepairWriteBack ==
    /\ ~IsBlock
    /\ \E p \in table :
        /\ Repairing(p)
        /\ \E n \in 1 .. ContentOf(p).length :
            disk' = Written(Bytes(p.start, n), Repaired(ContentOf(p)))
    /\ GoTo("repair")
    /\ UNCHANGED <<table, req, finished, environment>>

RepairWrittenBack ==
    /\ pc = "repair"
    /\ \E p \in Original(Plan[i]) :
        disk' = Written(Bytes(p.start, disk[p.start].length), disk[p.start])
    /\ pc' = "check"
    /\ i' = i + 1
    /\ UNCHANGED <<table, req, done, todo, total, retried, free, taken, resizes,
                   finished, environment>>

\* Without fixErrors any inconsistency fails the check. fsck.fat -a exits with
\* status 1 when it repaired something, which is taken for a failure; on an
\* image file the repaired copy is then discarded.
CheckFails ==
    /\ At("check")
    /\ \E p \in Original(Plan[i]) :
        /\ ~CheckedBefore(Plan[i])
        /\ Inconsistent(p)
        /\ ~req.fixErrors \/ KindOf(p) = "fat32"
        /\ disk' = IF req.fixErrors /\ IsBlock
                   THEN Written(Bytes(p.start, ContentOf(p).length), Repaired(ContentOf(p)))
                   ELSE disk
    /\ GoTo("failed")
    /\ UNCHANGED <<table, req, finished, environment>>
-----------------------------------------------------------------------------
\* shrinkFilesystems and resizeFilesystem. resize2fs is given whole megabytes,
\* rounded down, and by the mutant up.
BugMegabytes(size) == ((size + MB - 1) \div MB) * MB
Megabytes(size) == (size \div MB) * MB
Shrunk(p, item) == [ContentOf(p) EXCEPT !.length = Megabytes(item.target.size)]
\* A shrink that has to start from a filesystem filling its partition.
BugShrinkSupported(p, item) ==
    /\ KindOf(p) = "ext4"
    /\ Megabytes(item.target.size) >= Used[ContentOf(p).fs]
    /\ ContentOf(p).length = p.size
ShrinkSupported(p, item) ==
    /\ KindOf(p) = "ext4"
    /\ Megabytes(item.target.size) >= Used[ContentOf(p).fs]

KeepFilesystem ==
    /\ At("shrinkFilesystems")
    /\ ~InPlace(Plan[i])
    /\ Advance
    /\ UNCHANGED <<table, req, disk, finished, environment>>

ShrinkRefused ==
    /\ At("shrinkFilesystems")
    /\ InPlace(Plan[i])
    /\ \E p \in Original(Plan[i]) : ~ShrinkSupported(p, Plan[i])
    /\ GoTo("failed")
    /\ UNCHANGED <<table, req, disk, finished, environment>>

\* On a block device resize2fs works on the partition's device node.
ShrinkOnDevice ==
    /\ IsBlock
    /\ At("shrinkFilesystems")
    /\ InPlace(Plan[i])
    /\ \E p \in Original(Plan[i]) :
        /\ ShrinkSupported(p, Plan[i])
        /\ disk' = Written(Bytes(p.start, Shrunk(p, Plan[i]).length), Shrunk(p, Plan[i]))
    /\ Advance
    /\ UNCHANGED <<table, req, finished, environment>>

\* In an image file a copy is resized and written back over the partition, in
\* order: some of it is on the disk in between.
ShrinkWriteBack ==
    /\ ~IsBlock
    /\ At("shrinkFilesystems")
    /\ InPlace(Plan[i])
    /\ \E p \in Original(Plan[i]) :
        /\ ShrinkSupported(p, Plan[i])
        /\ \E n \in 1 .. Shrunk(p, Plan[i]).length :
            disk' = Written(Bytes(p.start, n), Shrunk(p, Plan[i]))
    /\ GoTo("writeBack")
    /\ UNCHANGED <<table, req, finished, environment>>

ShrinkWrittenBack ==
    /\ pc = "writeBack"
    /\ \E p \in Original(Plan[i]) :
        disk' = Written(Bytes(p.start, disk[p.start].length), disk[p.start])
    /\ pc' = "shrinkFilesystems"
    /\ i' = i + 1
    /\ UNCHANGED <<table, req, done, todo, total, retried, free, taken, resizes,
                   finished, environment>>
-----------------------------------------------------------------------------
\* A table write. When the kernel cannot re-read the table the run ends with
\* ErrRebootToApply, the table committed; otherwise it goes on.
Commit(t, onward) ==
    /\ table' = t
    /\ \/ FALSE \in Deferral /\ onward
       \/ TRUE \in Deferral /\ Exit /\ UNCHANGED finished

\* shrinkPartitions: the last item that shrinks an entry sets its size. The
\* table keeps whole sectors, and nothing is written if nothing shrinks.
Shrinks(p) == {k \in DOMAIN Plan : InPlace(Plan[k]) /\ Plan[k].original.number = p.number}
BugShrunkEntry(p) == p
ShrunkEntry(p) ==
    IF Shrinks(p) = {} THEN p
    ELSE LET k == CHOOSE k \in Shrinks(p) : \A m \in Shrinks(p) : m <= k
         IN [p EXCEPT !.size = Align(Plan[k].target.size)]

ShrinkPartitions ==
    /\ pc = "shrinkPartitions"
    /\ IF \E p \in table : Shrinks(p) # {}
       THEN Commit({ShrunkEntry(p) : p \in table}, Restart("createPartitions") /\ UNCHANGED finished)
       ELSE Restart("createPartitions") /\ UNCHANGED <<table, finished>>
    /\ UNCHANGED <<req, disk, environment>>

\* createPartitions: a new entry for every relocated item whose alternate name
\* no entry had before. The table is written even if nothing is new.
\* The mutants leave the slot to the library and copy the type.
Moved == {k \in DOMAIN Plan : Plan[k].original.start # Plan[k].target.start}
BugNewEntryNumber(p, item) ==
    [number |-> 0, start |-> Align(item.target.start), size |-> Align(item.target.size),
     name |-> Alternate(p.name), type |-> "linux", guid |-> <<"fresh", 0>>,
     attributes |-> p.attributes]
BugNewEntryType(p, item) ==
    [number |-> item.target.number, start |-> Align(item.target.start),
     size |-> Align(item.target.size), name |-> Alternate(p.name), type |-> p.type,
     guid |-> <<"fresh", item.target.number>>, attributes |-> p.attributes]
NewEntry(p, item) ==
    [number |-> item.target.number, start |-> Align(item.target.start),
     size |-> Align(item.target.size), name |-> Alternate(p.name), type |-> "linux",
     guid |-> <<"fresh", item.target.number>>, attributes |-> p.attributes]
HasAlternate(p) == \E q \in table : q.name = Alternate(p.name)

CreatePartitions ==
    /\ pc = "createPartitions"
    /\ LET new == {x \in table \X Moved :
                      x[1].number = Plan[x[2]].original.number /\ ~HasAlternate(x[1])}
       IN Commit(table \cup {NewEntry(x[1], Plan[x[2]]) : x \in new},
                 Restart("copyFilesystems") /\ UNCHANGED finished)
    /\ UNCHANGED <<req, disk, environment>>
-----------------------------------------------------------------------------
\* copyFilesystems, one item at a time.
\* The mutant compares what filesystem it is, not what is in it.
BugSameFiles(a, b) == a # Junk /\ a.fs = b.fs
SameFiles(a, b) == a # Junk /\ a.fs = b.fs /\ a.version = b.version

\* The item being copied, from entry p to entry q.
Copying(p, q) ==
    /\ At("copyFilesystems")
    /\ i \in Moved
    /\ p \in Original(Plan[i])
    /\ q \in Relocated(Plan[i])

SkipUnmoved ==
    /\ At("copyFilesystems")
    /\ i \notin Moved
    /\ Advance
    /\ UNCHANGED <<table, req, disk, finished, environment>>

\* An ext4 target that matches its source is kept.
Matching(p, q) == KindOf(p) = "ext4" /\ SameFiles(ContentOf(p), ContentOf(q))

SkipMatching ==
    /\ \E p, q \in table : Copying(p, q) /\ Matching(p, q)
    /\ Advance
    /\ UNCHANGED <<table, req, disk, finished, environment>>

\* Any other ext4 or fat32 target is made anew over the whole partition,
Format ==
    /\ \E p, q \in table :
        /\ Copying(p, q)
        /\ KindOf(p) \in {"ext4", "fat32"}
        /\ ~Matching(p, q)
        /\ disk' = Written(Extent(q), Empty(ContentOf(p).fs, q.size))
    /\ GoTo("fill")
    /\ UNCHANGED <<table, req, finished, environment>>

\* then filled with the source's files and compared with it. The mutant copies
\* the filesystem as it is.
BugFilled(p, q) == ContentOf(p)
Filled(p, q) == Made(ContentOf(p).fs, ContentOf(p).version, q.size)

Fill ==
    /\ pc = "fill"
    /\ \E p \in Original(Plan[i]), q \in Relocated(Plan[i]) :
        disk' = Written(Extent(q), Filled(p, q))
    /\ pc' = "copyFilesystems"
    /\ i' = i + 1
    /\ UNCHANGED <<table, req, done, todo, total, retried, free, taken, resizes,
                   finished, environment>>

\* squashfs and anything unrecognized is copied byte by byte, never compared.
StartRawCopy ==
    /\ \E p, q \in table :
        /\ Copying(p, q)
        /\ KindOf(p) \in {"squashfs", "unknown"}
        /\ \E n \in 0 .. p.size - 1 : disk' = Copied(p.start, q.start, n)
    /\ GoTo("rawCopy")
    /\ UNCHANGED <<table, req, finished, environment>>

FinishRawCopy ==
    /\ pc = "rawCopy"
    /\ \E p \in Original(Plan[i]), q \in Relocated(Plan[i]) :
        disk' = Copied(p.start, q.start, p.size)
    /\ pc' = "copyFilesystems"
    /\ i' = i + 1
    /\ UNCHANGED <<table, req, done, todo, total, retried, free, taken, resizes,
                   finished, environment>>

CopyUnsupported ==
    /\ \E p, q \in table : Copying(p, q) /\ KindOf(p) = "other"
    /\ GoTo("failed")
    /\ UNCHANGED <<table, req, disk, finished, environment>>
-----------------------------------------------------------------------------
\* updatePartitions: entries are found by their start; the last item that
\* relocates to an entry gives it its original's identity, and the originals go.
Superseded(p) == \E k \in Moved : p.start = Align(Plan[k].original.start)
MovedTo(q) == {k \in Moved : q.start = Align(Plan[k].target.start)}
BugFinalEntry(q) ==
    IF MovedTo(q) = {} THEN q
    ELSE LET k == CHOOSE k \in MovedTo(q) : TRUE
             p == CHOOSE p \in table : p.start = Align(Plan[k].original.start)
         IN [q EXCEPT !.name = p.name, !.type = p.type, !.guid = p.guid]
FinalEntry(q) ==
    IF MovedTo(q) = {} THEN q
    ELSE LET k == CHOOSE k \in MovedTo(q) : \A m \in MovedTo(q) : m <= k
             p == CHOOSE p \in table : p.start = Align(Plan[k].original.start)
         IN [q EXCEPT !.name = p.name, !.type = p.type, !.guid = p.guid,
                      !.attributes = p.attributes,
                      !.number = IF req.preserveNumbers THEN Plan[k].original.number ELSE @]

UpdatePartitions ==
    /\ pc = "updatePartitions"
    /\ Commit({FinalEntry(p) : p \in {q \in table : ~Superseded(q)}}, Exit /\ finished' = TRUE)
    /\ UNCHANGED <<req, disk, environment>>
-----------------------------------------------------------------------------
\* The run is killed, power is lost, or a step returns an error.
Interrupt ==
    /\ pc # "off"
    /\ interrupts < MaxInterrupts
    /\ interrupts' = interrupts + 1
    /\ Exit
    /\ UNCHANGED <<table, req, disk, finished, origin, latest, writes, changes>>

\* Between runs the operating system writes to a filesystem it finds by its
\* partition's GUID, and may leave it inconsistent.
OsWrites ==
    /\ pc = "off"
    /\ writes < MaxWrites
    /\ \E p \in table, left \in BOOLEAN :
        LET content == ContentOf(p) IN
        /\ content # Junk /\ content.fs = p.guid
        /\ KindOf(p) \in {"ext4", "fat32"}
        /\ disk' = Written(Bytes(p.start, content.length),
                           [content EXCEPT !.version = latest[p.guid] + 1, !.dirty = @ \/ left])
        /\ latest' = [latest EXCEPT ![p.guid] = @ + 1]
    /\ writes' = writes + 1
    /\ UNCHANGED <<plannerVars, finished, origin, interrupts, changes>>

\* The user runs the command with other arguments, be it on a finished disk, as
\* the chaos test does to shrink and then grow, or on what a stopped run left.
ChangeRequest ==
    /\ pc = "off"
    /\ changes < MaxChanges
    /\ req' \in Requests \ {req}
    /\ changes' = changes + 1
    /\ finished' = FALSE
    /\ UNCHANGED <<table, pc, locals, disk, origin, latest, interrupts, writes>>
-----------------------------------------------------------------------------
Run ==
    \/ Planning \/ Abort \/ DryRun \/ Execute \/ NextPhase
    \/ CheckPasses \/ RepairOnDevice \/ RepairWriteBack \/ RepairWrittenBack \/ CheckFails
    \/ KeepFilesystem \/ ShrinkRefused \/ ShrinkOnDevice \/ ShrinkWriteBack \/ ShrinkWrittenBack
    \/ ShrinkPartitions \/ CreatePartitions
    \/ SkipUnmoved \/ SkipMatching \/ Format \/ Fill
    \/ StartRawCopy \/ FinishRawCopy \/ CopyUnsupported
    \/ UpdatePartitions

DiskNext == Run \/ Interrupt \/ OsWrites \/ ChangeRequest

DiskSpec == DiskInit /\ [][DiskNext]_vars
\* A run takes its next step, and a run that ended without success is started
\* again; nothing makes the operating system write or the power fail.
FairDiskSpec == DiskSpec /\ WF_vars(Run)
-----------------------------------------------------------------------------
\* The identity of a partition is the GUID it had before the first run.
Ids == {p.guid : p \in origin}
Now(g) == CHOOSE p \in table : p.guid = g
Before(g) == CHOOSE p \in origin : p.guid = g

\* At every moment, between any two writes of a run and after any number of
\* interrupted runs, every partition is found under its GUID and holds its
\* whole filesystem with the files last written to it.
HasItsFiles(g) ==
    \E p \in table : p.guid = g /\ ContentOf(p).fs = g /\ ContentOf(p).version = latest[g]
NoDataLoss == \A g \in Ids : HasItsFiles(g)

\* The same but for what a request puts at risk in an image file, where a
\* filesystem is written back over itself: the partition offered to shrink and,
\* if errors are to be fixed, the ext4 ones that are to grow. All others keep
\* their files, fat32 ones too, for which no repair is ever written back.
MayShrink(p) == req.shrink # NoShrink /\ Matches(req.shrink, p)
MayRepair(p) ==
    req.fixErrors /\ Kind[p.guid] = "ext4" /\ \E k \in DOMAIN req.grows : Matches(req.grows[k], p)
AtRisk(p) == ~IsBlock /\ (MayShrink(p) \/ MayRepair(p))
OthersKeepFiles == \A p \in origin : AtRisk(p) \/ HasItsFiles(p.guid)

\* No two entries of the table share bytes, numbers or GUIDs at any moment,
\* whatever runs of whatever requests left copies on the disk.
EntriesApart == SoundTable(table, DiskSize)

\* And none lies on the GPT, so the disk can be booted after every table write.
TableSound == EntriesApart /\ \A p \in table : Extent(p) \subseteq Usable

\* Every GUID that existed names one entry, with its name, type and attributes;
\* the copies in the making are ordinary Linux partitions under alternate names,
\* at most one for each name, so nothing that looks for an EFI System Partition
\* or a label finds two (the comment in resize above createPartitions).
IdentityKept ==
    /\ \A g \in Ids : \E p \in table :
        /\ p.guid = g
        /\ p.name = Before(g).name /\ p.type = Before(g).type
        /\ p.attributes = Before(g).attributes
    /\ \A q \in table : q.guid \notin Ids =>
        /\ q.type = "linux"
        /\ \E p \in origin : q.name = Alternate(p.name)
        /\ \A p \in table : p.name = q.name => p = q

\* With preserveNumbers every partition keeps its number at every moment.
NumbersKept == req.preserveNumbers => \A g \in Ids : Now(g).number = Before(g).number

\* Once a run has succeeded every partition asked for has the size asked for
\* and its filesystem fills it if the filesystem can grow, and no copy is left.
\* Sizes are kept in whole sectors.
Delivered(id, size) ==
    \E g \in Ids :
        /\ Matches(id, Before(g))
        /\ Now(g).size = Align(size)
        /\ Kind[g] \in {"ext4", "fat32"} /\ size > Before(g).size =>
              ContentOf(Now(g)).length = Now(g).size
FinishedDelivers ==
    finished =>
        /\ {p.guid : p \in table} = Ids
        /\ \A k \in DOMAIN req.grows : Delivered(req.grows[k], req.grows[k].size)

\* While a source of its plan is inconsistent a run does not write the table,
\* and no byte but those of repairs it was asked for: all checks come before
\* the first step of the resize itself.
OnlyRepairs ==
    /\ table' = table
    /\ \A b \in DOMAIN disk :
          disk'[b] # disk[b] => req.fixErrors /\ disk'[b] = Repaired(disk[b])
NoWriteBeforeChecks ==
    [][Run => \/ OnlyRepairs
              \/ \A k \in DOMAIN Plan : \A p \in Original(Plan[k]) :
                    KindOf(p) \in {"ext4", "fat32"} => ~ContentOf(p).dirty]_vars

\* A finished resize is left alone by any later run of the same request.
FinishedIsStable == [][finished => UNCHANGED table]_vars

\* The relocated partition of a label never changes its place once it is
\* created, and the shrunk partition is not shrunk again, in whatever order
\* runs stop and start: a resumed plan agrees with the interrupted one.
ResumeAgrees ==
    [][\A p, q \in table \cup table' : p \in table /\ q \in table' /\ p.guid = q.guid =>
          \/ p.start = q.start /\ (p.size = q.size \/ p \in origin)
          \/ \E r \in table : r.guid \notin Ids /\ r.start = q.start /\ r.size = q.size]_vars

\* A resize that can be done gets done, if it is run again after every failure.
Converges == <>finished

\* Seen by identity, the runs implement the abstract resize.
VersionOf(g) == IF ContentOf(Now(g)).fs = g THEN ContentOf(Now(g)).version ELSE 0
PlaceOf(p) == [start |-> p.start, size |-> p.size]
Promise == INSTANCE AbstractResize WITH
    place <- [g \in Ids |-> PlaceOf(Now(g))],
    version <- [g \in Ids |-> VersionOf(g)],
    first <- [g \in Ids |-> PlaceOf(Before(g))]
ImplementsPromise == Promise!AbstractSpec
=============================================================================
