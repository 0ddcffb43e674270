# TLA+ models of partitionresizer

partitionresizer grows partitions of a GPT disk by copying each one to a new,
larger partition in free space and removing the original. If there is not
enough free space it first shrinks one ext4 partition. It is a sequential
program whose hard part is that it may stop at any step (a kill, a power cut, an
error, a reboot it asks for itself) and must be able to start again from
whatever it left on the disk.

This directory holds TLA+ models of it, configurations that check them with TLC,
and proofs about the planner, the resize and its interruptions, the table write and the
copy loop that TLAPS checks.

## Inventory

| Part | State it keeps | Operations | What makes it correct |
|---|---|---|---|
| Vocabulary (`types.go`, `name.go`) | none | identifiers, alternate labels | a copy is found again by its original's label |
| Command line (`cmd/resizer/main.go`) | none | parse flags and sizes | what was asked for is what is planned |
| Discovery (`discover.go`, `run.go:46`) | none; reads sysfs or the image | find the disk that has all named partitions, open it | a command that names partitions of one disk reaches it |
| Planning (`run_helpers.go:208`, `calculate.go`, `convert.go`) | a plan and a list of unused blocks in memory, from the table on disk | classify grows, lay out, retry with a shrink | nothing given out twice; a resumed plan agrees with the first; ends |
| Checks (`resize.go:455`, `run_helpers.go:49-81,163`) | the filesystems | check or repair every source | all before the first destructive step |
| Shrinking (`resize.go:495,525`, `run_helpers.go:98`) | a filesystem, one entry of the table | filesystem first, then partition | can be repeated; never cuts a filesystem |
| Relocation (`resize.go:158,218`) | the table, the new partitions' bytes | create the entries, copy, verify | a copy in the making is never taken for an original or for a finished copy |
| Finalization (`resize.go:90`) | the table | identity, number, removal | all in one write |
| Table writes (go-diskfs, `delaybackend_chaos.go`) | two GPT headers and arrays | write, ask the kernel to re-read | one of them is always whole |
| CopyRange (`fastcopy.go`) | a file | copy in blocks | wherever it stops, a beginning of the copy and nothing else |
| Device lookup and tools (`run_helpers.go`) | none | find a partition's device node, run a tool | paths and processes, not modelled |
| Legacy finalization (`resize.go:290-444`) | the table | swap, remove, renumber | no longer called |

The parts call one another in one thread; they share the disk. Between two
runs others write to it: the operating system, which boots from the disk and
uses its filesystems. What is hard is therefore the order of the writes, what a
later run concludes from what it finds, and arithmetic on offsets. PROJECT.json
lists each such hazard with its line and the properties about it.

## Modules

`Partitions` has the shared vocabulary. Offsets and sizes are bytes. A label is
a base label and the number of `_resized2` suffixes on it. A partition GUID is
that of an original partition or one the library generated for a slot. A kernel
name is the number of the partition it names.

`Launch` models what comes before the plan: `main.go` parses the flags,
`findDisks` collects the partitions of the disk that was given or of all disks,
`filterDisksByPartitions` keeps the disks that have all of them, and `Run` opens
the one that is left. A machine is a set of files (device nodes and images) and
the directories under `/sys/class/block`. Sizes have `Width` bits.

`Planner` models `Run` up to the plan. `table` is the GPT's active entries, `req`
the arguments of `Run`, and the other variables are the locals of `planResizes` and
`calculateResizes`. One action is one branch of a loop body or one exit:

| Action | Code |
|---|---|
| `Discover`, `NotDiscovered` | `findDisks`, `filterDisksByPartitions` |
| `SkipSatisfied`, `ReuseRelocated`, `QueuePending` | one grow of the loop at `run_helpers.go:241` |
| `NothingPending`, `FirstAttempt` | `run_helpers.go:267`, `:272` |
| `LayOutShrink`, `LayOutGrow` | one item of the loop at `calculate.go:43` |
| `LayoutComplete`, `RetryWithShrink`, `InsufficientSpace` | the returns of `calculateResizes` and what `planResizes` does with them |

Here the list of unused blocks is the set `free` of unused bytes: the blocks are
the maximal runs of that set, and "the first block with room" is the least start
in `Fits`. `FreeSpace` extends `Planner` with the list itself: first fit, the head cut off
a block, and the two loops that make a list, one round a step. `NextUsed` and `AfterLastUsed` are
the rounds of `computeUnused`, `CombineNext` and `Combined` those of `sortAndCombineUsableBlocks`.
Both go through blocks that were just sorted, by `sort.Slice`, which leaves those of equal starts
in any order: `rest` is the set of those left, and a round takes a lowest one. Guards look at the list alone
and `free` only records what happened,
so that `ImplementsPlanner`, which is `Planner`'s specification, says that the
list and the set make the same choices.

`Resizer` extends `Planner` with the bytes of the disk and the rest of `Run`.
Each byte of `disk` holds the content it belongs to: which filesystem, in which
version, of which length. A filesystem is there only if all its bytes are
(`ContentOf`), so a truncated, overwritten or half-copied one is `Junk`. It also
records whether a checker finds the filesystem inconsistent (`dirty`). Each
loop over the plan takes one step per item, with several writes per item where a
stop in between leaves a different disk (`Format` and `Fill`, `StartRawCopy`
and `FinishRawCopy`, and in an image file the two copies that are written back over their
source: `RepairWriteBack` and `RepairWrittenBack` in `checkFilesystem`, `ShrinkWriteBack`
and `ShrinkWrittenBack` in `resizeFilesystem`).
On a block device `RepairOnDevice` and `ShrinkOnDevice` are the tools' own work in place.
`ShrinkPartitions`, `CreatePartitions` and `UpdatePartitions` each write the table
once, and `Commit` lets the write end the run with `ErrRebootToApply` if the
configuration says the kernel cannot re-read the table. `Interrupt` stops a run
anywhere and loses its locals; the next `Discover` starts another one over the
disk as it is. `OsWrites` is the outside world between runs, and `ChangeRequest`
lets the next run ask for something else.

`TableWrite` opens up that one step. A GPT is two copies, each an array of entries
and a header with the array's checksum, written backup first
(`delaybackend_chaos.go:14`). `WriteSomeEntries` and `WriteOtherEntries` are one write of
an array, which is many sectors; `Stop` is a kill between any two steps; `OpenDisk`
takes the primary copy if its checksum is right and else the backup. `OldOrNew`
is what makes one step of it in `Resizer`. The code of go-diskfs is not in the
repository: its order is taken from the backend that delays those writes, and the
choice between the copies from the tests (`gpt_raw_test.go:16`).

`CopyRange` is the loop of `fastcopy.go`, one round a step. A byte of the destination is
a copy of a byte of the source, what it was before, absent, or the zero in a
gap behind the old end of the file. It, too, justifies a step of `Resizer`: what an
interrupted copy leaves is a beginning of it.

`AbstractResize` says what an observer who finds partitions by GUID sees: the
shrunk partition loses space at its end once, and the grown ones move, with
their files, all in one step. `Resizer` implements it (`ImplementsPromise`) under
the mapping that takes each original GUID to the place and the version of the
entry that has it now. All else, creation, copying, failed and repeated runs, is a
stutter.

`ResizerInvariants` extends `Resizer` with what holds of a run at each of its steps: the
inductive invariants, and what a caller may ask so that they hold.

`PlannerProofs` holds the theorems about `Planner`, `FreeSpaceProofs` those about the list, `WriteProofs` those about `TableWrite` and
`CopyRange`. Those about `Resizer` build on one another: `ResizerTypeProofs` (types and bounds),
`ResizerTableProofs` (entries stay apart; identities and numbers), `ResizerProofs` (files; the
same for callers of whom only the requests and the first table are known, the GPT's own
bytes, and the order of checks and writes), `ResizerFinishProofs`
(what a successful run leaves, and that it lasts) and `ResizerResumeProofs` (resumed runs
agree with the interrupted ones, and all of them implement `AbstractResize`).

`MCPlanner` (of `FreeSpace`), `MCResizer`, `MCLaunch`, `MCTableWrite` and `MCCopyRange` are
the instances. `MCSensible` and `MCGrowing` add to `MCResizer` the hypotheses of the theorems
as assumptions, which TLC evaluates: they hold of the requests of those runs. An operator named `Bug...` is a plausible mistake in
the definition after it; it is used by no specification and serves to see that
the properties notice it.

## What the runs check

| Run | Module, configuration | Shows |
|---|---|---|
| plan | MCPlanner | For seven disks and every request of one or two changes (by label, kernel name or UUID; satisfied, growing, shrinking, unknown, zero or negative), with no, a large or a small shrink partition: plans are safe, the shrink makes room, the list of blocks is the set of free bytes, its inductive invariant `ListInv` holds at every round of the loops that make it, planning ends. |
| resume | MCSensible, Resume | Two interrupts anywhere and one outside write, which may leave a filesystem inconsistent: nothing lost at any moment, sound table, identities and numbers kept, nothing destructive before the checks, resumed plans agree with the interrupted ones, a finished resize is stable and is reached. |
| failures | MCSensible, Failures | Nothing lost, no overlapping entries and no identity confused when runs end in errors, dry runs, refused shrinks, unsupported filesystems and reboots, are interrupted twice, and are followed by a run that asks for something else; sizes are odd, with sectors of two bytes, or negative. The inductive invariants `CallsInv` and `FilesInv` hold at every step. |
| image | MCGrowing, Image | The disk is an image, where a stop may hit the write-back of a repaired or of a shrunk filesystem: every partition but those at risk by that (the one offered to shrink and, with `fixErrors`, the ext4 ones to grow) keeps its files, and before the checks are done nothing is written but repairs. The inductive invariants `SettlingInv`, `FillInv` and `ResumeInv`, about what the copies, a finished resize and a resumed run are, hold at every step. |
| table_write | MCTableWrite, TableWrite | One stop anywhere inside any of the table writes of a resize: there is a table to read and it is the old or the new one. |
| copy_range | MCCopyRange, CopyRange | Copies out of an image and back into it, with buffers shorter and longer than the range, none given, and sources that end early: a beginning of the copy at every moment, the whole range and no other byte after a success if the source has it, and an end. |

The remaining runs each show a statement of the documentation, a comment or a
test that the code does not keep:

| Run | The statement | What happens |
|---|---|---|
| head_of_disk | copies go to available free space (README.md:4) | with a vacant head, byte 1 is planned, which becomes sector 0; at the other end, the last bytes, which hold the backup GPT, are planned likewise |
| torn_write_back | the shrink is idempotent when stopped (resize.go:34), and the checks come before any destructive operation (run.go:21, resize.go:446) | in an image, a stop while a shrunk filesystem is copied back over its only copy (`run_helpers.go:147`), or, with `fixErrors`, a repaired one during the checks (`run_helpers.go:196`), leaves a mixture of the two; TLC shows the stop in a repair, and with `MaxWrites = 0` the one in a shrink |
| torn_table | after a stop the originals are still there (resize.go:50) | a second stop, in the table write of the run that recovered from the backup, tears the backup too |
| boot_disk | reboot, and the committed table applies (resize.go:14) | every run after it ends at the same table write |
| same_label | resumed runs match an uninterrupted one (README.md:159) | two copies of one name; both originals go, one copy stays unused |
| discovery | with no disk given it is discovered (run.go:36), and partitions are selected by UUID (README.md:109) | the empty path is opened; a link under `/sys/class/block` is not scanned; no device's partition has a UUID |

### Other statements that do not hold

These are plain from the code, or touch no more than one line, and have no run:

* A label that names two partitions is resolved to the first (`convert.go:49`,
  against `main.go:46`).
* A dry run succeeds with a shrink partition that is too small
  (`run_helpers.go:307`, against `main.go:39`).
* The shrink partition is used only if there is not enough free space
  (README.md:68), but first fit may fail, and shrink, where another placement or
  order of the grows fits (`calculate.go:61`).
* A grow to a size that is no multiple of a sector is never found satisfied, as
  the table rounded it (`run_helpers.go:246`, against `:242`): a finished resize is done again.
* `CopyRange` "copies `length` bytes" (`fastcopy.go:14`), but when the source ends early it
  copies what there is and returns no error (`fastcopy.go:55`). `CopiesLength` says what the
  comment does; the run and the proof have `CopiesRange`, which is that of a source
  long enough.
* New partitions should have other Type GUIDs than their originals
  (`resize.go:48`), but all get the Linux type (`resize.go:199`), which is no other if the
  original has it. `IdentityKept` holds nevertheless: the copy's label and GUID differ.
* `--fix-errors` repairs instead of aborting (README.md:69), but `fsck.fat` exits
  with 1 after a repair and the run aborts (`run_helpers.go:81`). The next run
  finds the filesystem repaired.
* A partition named by two grows is planned twice (`run_helpers.go:241`): two copies
  of one name, both of which `updatePartitions` gives the one GUID.
* A run that asks for another size than the interrupted one takes the copy that
  exists, and finishes with its size (`run_helpers.go:250`).
* The example with an image (README.md:51-55) selects by `name:`, which is a kernel
  name; an image's partitions have none. A `name:` with nothing behind it matches them all.
* README.md:38-41 says that block devices are shrunk through a temporary file; the
  code does so for images, and runs `resize2fs` on devices in place.
* An image file with the base name of a kernel block device is matched against that
  device (`discover.go:44`), and opened by its path.
* An empty size makes `parseSize` look at the last character of an empty string
  (`main.go:126`), and large ones overflow (`main.go:151`).

### Bounds

A disk has 24 bytes, two of them at each end for the GPT; a GB is 4 bytes, and an
MB and a sector 1 or 2. Four partitions with a gap in the numbering, as on the
disks the tests build, are enough to have one that shrinks, two that grow (of
them a FAT32 and a raw, or a FAT32 and an ext4 one) and one that must be left alone. Two
interrupts reach a run that resumes a resumed run. One outside write suffices
for staleness: every check in the code compares with the present. One change of
the request reaches a run that meets another's copies. These bounds are
`MaxInterrupts`, `MaxWrites` and `MaxChanges`; all else is finite because a
finished resize stays as it is, or, with odd sizes, because the disk is.

`MaxStops` bounds the stops inside table writes with no completed one between
them: one for the properties that hold, two for the one that does not. A copy
range is up to 5 bytes, so that a buffer fits into it several times, once, or not, and
`Span` covers every byte written. `Width` is 8 bits, with units of 1, 4 and
16: wide enough for a size that fits, one that overflows in the multiplication
and one that does not parse.

### Fairness

`FairSpec`, `FairListSpec`, `FairDiskSpec` and `FairCopySpec` ask weak fairness of
the program's own steps only. A run is one thread that waits for nothing but its
own I/O and tools, so it takes its next step. That `Discover` follows the end of a
failed run is the user, or the boot script, running it again, which the resume
tests and the soak test do until it succeeds; without that nothing could be said
of an interrupted resize. No fairness is asked of interrupts, failures, outside
writes or changes of the request.

### Assumptions of the model

* In `Resizer` a table write happens as a whole, as `TableWrite` shows of a disk
  with two whole copies. A second stop before any table write has completed can
  leave none, which is what `torn_table` is about and `Resizer` leaves out.
* A stop is a kill of the process or machine after which all writes issued so far
  are there, in order. Caches that lose or reorder them are not modelled.
* `resize2fs` on a block device happens as a whole. A power cut inside it is
  its own concern, and so is one inside `e2fsck` or `fsck.fat`. In an image file these
  tools work on a temporary copy, and the write-back of the copy is the program's: neither
  that of a shrunk nor that of a repaired filesystem is taken to be atomic. A filesystem
  written back in part counts as lost, though a later `e2fsck` may happen to make something of it.
  `e2fsck` and `fsck.fat` change no files, and what they find in order they leave as it is,
  so that writing it back changes nothing.
* Outside writes happen between runs only, to filesystems found by GUID; `Run`
  demands unmounted partitions.
* In `resume` and `image` the runs ask for the same thing again, of positive
  sizes; `failures` has neither restriction.
* A slot always gets the same generated GUID; two copies in different slots
  never share one.
* `dirty` says of a filesystem that a checker finds it wrong, which only outside writes
  make it. A check of a torn filesystem recognizes none.
* `updatePartitions` has an error for a target it cannot find. Each target was
  created or found by the same run, so no reachable state takes it, and it is
  not an action.
* `failures` checks `EntriesApart`, the part of `TableSound` that says entries do
  not overlap: with a request that changes, a copy may be planned on the bytes of the
  backup GPT, which is what `head_of_disk` shows.

## What is proved

### The planner

`PlannerProofs` proves for every disk size, every set of sound layouts and every
set of requests, hence for every length of request, which TLC cannot cover:

* `TypeCorrect`: `TypeOK`.
* `FreeSpaceAccounted`: while items are laid out, `free` and `taken` account
  for the disk: no free byte is one an entry keeps or a relocated partition got.
* `PlanSafe`: hence in a finished plan no byte and no slot is given out twice.
* `ShrinkAlwaysMakesRoom`: once the partition offered has been cut by the total rounded
  up to a GB, no item is left without room, however fragmented the disk is.

From the assumptions `SizeAssumption`, `LayoutAssumption` and
`RequestAssumption`, that is: a disk of some size and a table without overlaps to
start with. Sizes asked for may be any integers; `ShrinkMakesRoom` itself asks that they
are positive. `PlanIsSafe` says nothing of a plan that names a partition twice or
leaves nothing of the shrunk one (`OncePerPartition`, `ShrinkLeavesRoom`). Both
happen: nothing in the code compares the partitions a request names, and the
rounded total may exceed the shrink partition (`run_helpers.go:307`), which is
noticed by `resize2fs` only (`ShrinkRefused`).

`PlanIsSafe` speaks of finished plans and is not inductive. The inductive invariant is
`PlanInv`: the types, the soundness of the table, `InStep` and `SpaceAccounted`.
`InStep` ties the plan to the list it is made from (what was laid out is the
list's first items, in order, with their sizes). It is needed where an in-place
shrink gives bytes back: as each partition occurs once in the list, none of it
was given out before (`ShrinkFreesOwn`), so the bytes freed are in nobody's
possession. `SpaceAccounted` is needed for each grow: what it gets comes from
`free`, so it is apart from the rest.

`ShrinkMakesRoom` rests on a sum, the sizes still to be placed, which a recursive
definition would put out of the provers' reach. `PlannerProofs` speaks instead of any
function of prefix sums that satisfies the defining equations (`Sums`), and its
invariant `RoomInv` says that `total` is the last of them and that, on the second
attempt, `free` has a run as long as what is left of it: the shrink is first in the
list, it frees `RoundUp(total)` bytes at one place, and first fit either leaves that run
alone or takes the head of it.

What is proved of `Planner` holds of the code's list, which `FreeSpaceProofs` proves to be
the free space:

* `ListIsTheFreeSpace`: `ListAgrees`, at each item the list is the maximal runs of `free`, in order.
* `ListKeepsItsLoops`: `ListInv`, the inductive invariant behind it.
* `ListPlansAlike`: `FreeSpace` implements `Planner` (`ImplementsPlanner`).
* `ListPlansSafely`: hence `PlanIsSafe` and the rest for plans made with the list.

They need none of the restrictions of `PlanIsSafe`: a partition named twice gives back
bytes that are free already, and a negative size gives back more than the partition has, yet the list
stays the maximal runs of the union. `ListInv` says of `computeUnused` that what it made so far
is the free bytes up to `prevEnd` (`GapsSoFar`), and of `sortAndCombineUsableBlocks` that what it
made and what is left are the free bytes, all blocks made starting before those left
(`CombinedSoFar`). First fit in the list is the lowest run with room because no run goes on from one block into the
next: between any two there is a byte that is not free.

### The resize

The theorems of `Resizer` are about every disk, layout and set of requests, any number
of interrupted runs, outside writes and changes of the request (the bounds are constants).
Each is proved from an inductive invariant of `ResizerInvariants`:

| Invariant | Adds to the one before | Gives |
|---|---|---|
| `TypeInv` | where the entries, the bytes and the items of a plan come from, and that no shrink that was carried out leaves less than an MB | `DiskTypeOK` |
| `ApartInv` | the free space the planner accounted for is still clear at `createPartitions` (`PlacesClear`), items are about different originals, a generated GUID is that of its slot | `EntriesApart` |
| `IdentityInv` | the item's label is its partition's, its target is a copy in its place, no two items share a target, and by `updatePartitions` each has one | `IdentityKept` |
| `NumbersInv` | an entry with an original's GUID has its number | `NumbersKept` |
| `DataInv(guids)` | a shrunk filesystem fits what its partition is cut to, a copy is large enough, and those behind the cursor are complete and up to date | `NoDataLoss`, `OthersKeepFiles` |
| `ChecksMade` | no source that was checked becomes inconsistent again, nor is what is written back over one; a repair differs from what it is written over only by being clean | `NoWriteBeforeChecks` |
| `GrowthInv` | nothing is planned to shrink but the partition offered; only in an image file is anything written back, and a repair only if asked for (`WriteBackAsked`) | |
| `OthersInv` | no partition that is not at risk is being written back (`Spared`) | `OthersKeepFiles` |
| `SettlingInv` | every copy, and every item that relocates, is of a partition still too small and has the size asked for; no grow is forgotten; once all have their sizes nothing is planned | `FinishedIsStable` |
| `FillInv` | the filesystems of grown partitions and of their finished copies fill them, and those of partitions still to move are nowhere but in them and in their copies | `FinishedDelivers` |
| `ResumeInv` | until the grows have their sizes every original entry is as it was but for the one offered, which is cut once; either all that grow have copies or none has; once there are copies nothing is laid out | |
| `RoomyInv` (`ResumeInv` and the sums) | while there are no copies the cut partition leaves a vacant run as long as the grows need together, and first fit keeps the rest of it | `ResumeAgrees`, `ImplementsPromise` |
| `EntriesUsable`, `PlacesUsable` | places laid out, and entries, are whole sectors clear of the GPT | `TableSound` |

None of the properties is inductive: each speaks of the disk between two writes, and
the reason why a write is harmless is what the run concluded from the disk some steps
earlier. `EntriesApart`, for instance, is preserved by `createPartitions` because of what
`calculateResizes` handed out, with the shrinks of `shrinkPartitions` in between;
`NoDataLoss` by `updatePartitions` because every copy was verified or made since the run
began, and nobody wrote to its source meanwhile.

They need hypotheses, as the code compares neither the identifiers of a request nor the
labels. First they are stated as invariants of the run:

* `DiskTypeCorrect`: the types, if no two entries share a slot.
* `EntriesStayApart`, `DiskTypeWhenNamedOnce`: from `NamedOnce`, each partition is
  named once and no copy is.
* `IdentityAlwaysKept`: from `LabelsApart` too, labels tell the named partitions and
  the copies apart. `NumbersAlwaysKept`: if moreover numbers are preserved.
* `FilesAlwaysKept`: while nothing is being written back into an image;
  `FilesAlwaysKeptOnDevices` needs no such clause.

`ResizerProofs` then derives these hypotheses from what can be read off the requests and
the first table, `SensibleCalls`: each partition is named by one identifier, by kernel name
only if numbers are preserved, and by a label that is no other partition's alternate
label; no two named partitions share a label. The proof that such a caller
never names a copy uses `IdentityInv` and `NumbersInv`, so hypotheses and properties are
proved together (`CallsInv`). That gives `SensibleCallsKeepType`, `SensibleCallsKeepApart`,
`SensibleCallsKeepIdentity`, `SensibleCallsKeepNumbers` and, on block devices,
`SensibleCallsKeepFiles` with no hypothesis about the run, and `SensibleCallsCheckFirst`
for `NoWriteBeforeChecks`: while a source of its plan is inconsistent a run writes no table, and no
byte but to repair it. It cannot say more, since in an image file each source is repaired and
written back before the next one is checked. The invariants themselves are theorems too
(`SensibleCallsKeepInvariant`, and `SensibleCallsKeepFilesInvariant` on block devices). TLC evaluates `SensibleCalls` as an assumption of the runs
`resume`, `failures` and `image`. The requests of `same_label` do not satisfy it, and lose a
partition's files.

`SensibleCallsKeepUsable` is about the rest of `TableSound`, that no entry lies on the bytes of the
GPT. That is not so in general (`head_of_disk`): `calculateResizes` may lay a copy out there.
The theorem says that this is the only way: if no plan does (`GrownIntoFreeSpace`, and
`Align(Metadata) = Metadata`, the GPT takes whole sectors), no rounding, shrink, resumed run or last
table write puts an entry there.

`OthersAlwaysKeepFiles` is about image files, where a filesystem that is written back over its only copy
is at risk (`AtRisk`): the partition offered to shrink and, if errors are to
be fixed, the ext4 ones that are to grow (`torn_write_back`). No other is, whichever write-back stops where.
A fat32 filesystem that needed a repair is never written back, as `fsck.fat` then exits with 1 and
`checkFilesystem` returns first. The theorem asks besides that the caller repeats one call that asks
for no less than there is (`GrowsOnly`), since an image partition that is shrunk in place by a
grow is written back as well. TLC evaluates this for `image`.

`ResizerFinishProofs` is about success. `FinishedStaysFinished` proves that once a run returned
success no later one changes the table, and `FinishedAlwaysDelivers` that what it leaves is
what was asked for: every original's GUID and no copy, each partition grown to its size and
filled by its filesystem. Both are for a caller who makes `SensibleCalls`, repeats one call
(`MaxChanges = 0`) that asks for no less than there is (`GrowsOnly`), and for whole
sectors (`WholeSectorsAsked`). `FinishedAlwaysDelivers` asks moreover for no repairs in an image file
(`RepairsInPlace`): a stop there can leave a filesystem that is none, which is then moved as it is. `GrowsOnly`
and `WholeSectorsAsked` are needed too: `planResizes` compares the size in the table,
which is a multiple of a sector, with the one asked for (`run_helpers.go:246`), so that a size that
is not one is never found satisfied, and the resize is done again; and a grow that shrinks in place and one
that relocates would give their sizes at different moments, where the proof uses that all
partitions get theirs in the one table write of `updatePartitions` (`Settled`). That no grow is
forgotten, `GrowsHandled`, is what ties the end of a run to its plan: a grow is satisfied, or has a copy
of an earlier run, or has an item, from `planResizes` to the write. `NoStrays` is needed where a resumed run finds a copy that
matches its source and keeps it (`resize.go:242`): only a copy the program itself filled can match. The
invariants are theorems as well, `GrowsAreSettled` and `GrownPartitionsAreFilled`. TLC
evaluates these hypotheses for `image`.

`ResizerResumeProofs` is about what a run makes of an interrupted one, for the same
caller. `ResumedPlansAgree` proves that a copy keeps its place from the table write that
makes it to the one that gives it its original's GUID, and that a partition that was cut
is not cut again, however many runs stop where. The danger is the run that finds the partition
offered cut and no copy made: it plans all grows again, and were first fit to fail it would cut
once more. It does not, because the cut freed a run of bytes as long as the sum of all
grows, nothing has been put there since (copies are all made in one table write), and first
fit takes each grow from elsewhere or from the head of that run. The sum is again that of a
function of prefix sums (`SumsTo`), here carried along `planResizes`, which adds up the grows
one by one: a resumed run arrives at the sum the interrupted one cut by, since it finds
the same grows still to be done (`RoomHeld`). Once there are copies
every grow has one (`CopiedTogether`), `planResizes` takes them all, and lays out nothing. `ResumedRunsAgree`
states the part of the invariant that speaks of the disk and the plan.

`ResizeKeepsItsPromise` proves that `Resizer` implements `AbstractResize`: the first table maps to
`AbstractInit`, `ShrinkPartitions` to `ShrinkOnce` (or a stutter, when resumed), `UpdatePartitions` to
`MoveAll` (every partition that changes its place gets larger and lies apart from the others), `OsWrites`
to `WriteFiles`, and every other step to a stutter. That the versions of the files stay through copies
and moves is `NoDataLoss`, so this theorem is about block devices (`IsBlock`); in
an image a stop during the write-back is not in `AbstractResize`, nor should it be (`torn_write_back`). The requests
of `resume`, on a block device, meet the hypotheses of both theorems but for the one that shrinks `P`
in place; that the properties hold for it as well TLC alone shows.

The assumptions on constants are those of the planner and `DiskAssumption`,
`FilesystemAssumption` (the filesystems are those of the partitions at the start) and
`SectorAssumption` (a GPT counts in sectors, so partitions start and end on one, and an MB
is a whole number of them).

### The table write and the copy loop

`WriteProofs` proves `TableRecoverable`, `CopiesStayEqual` and `WriteIsAtomic` of `TableWrite`,
for every set of tables and every order of writing them, with any number of writes and
any bound on stops. None of the three is inductive: while a write is under way the copies
differ. `TableInv` adds how far it is (`Reached`: once the primary's turn has come
the backup is whole and new) and that before its turn the primary is what the run
read (`PrimaryUntouched`), so at each step one copy is whole, and which.

It proves `StopsAtAPrefix` and `SuccessCopiesRange` of `CopyRange`, for every buffer,
range, offset and file size; the latter for a source that has the whole range, as it is not so
otherwise. The invariant, `CopyInv`, says that in the loop
exactly the first `copied` bytes are there and that these are no more than the
source has. One round from there is arithmetic on
the bounds of the bytes it writes.

### What TLC alone shows

* Liveness, which is out of the prover's reach: `Terminates`, `Converges` and `Ends`.
* That plans use the free space alone (`GrownIntoFreeSpace`), on which `SensibleCallsKeepUsable`
  rests, depends on the layouts and requests: `head_of_disk` refutes it in general. `TableSound` is
  checked for the disks of `resume` and `image`, where grows fit before the last bytes and the
  head becomes vacant only when all is done.
* `FinishedIsStable`, `FinishedDelivers`, `ResumeAgrees` and `ImplementsPromise` where a grow asks for less
  than there is and shrinks a partition in place: one request of `resume`.

## Not modelled

* `partitionDevicePath` and `runTool`: paths under sysfs, processes and their
  output. `Resizer` takes the lookup to find the partition that was meant, and
  has the exit codes of the tools that the code looks at.
* Errors of reading sysfs, and the starts and sizes read there: nothing downstream
  uses them, since `Run` reads the table of the disk it opens.
* The waiting of the delay backend, which is for the chaos test only.
* `swapPartitions`, `removePartitions` and `removeAndRenumberPartitions`, which
  nothing calls any more.
* The number of slots of the partition array: a plan may take a slot beyond it
  (`calculate.go:73`); what happens then is the library's.
* Help texts, logging, and the wording of errors.

## Plan

Done: the planner and its list, the resize with its interruptions, the table
write, the copy loop, the way from the command line to the disk. Proved, for every disk:
that plans are safe and the code's list makes them, what a table write and a copy leave;
and, for every sensible caller, the safety invariants of the resize, what a finished resize is,
what a resumed run does, and the refinement of `AbstractResize`. What is left:

1. What a finished or resumed resize is when a grow asks for less than there is: then sizes
   change in two table writes, and `Settled` would have to tell them apart.
2. Requests that name a partition twice: a property that says what they end in.
