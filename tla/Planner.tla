------------------------------ MODULE Planner ------------------------------
(***************************************************************************)
(* Planning a resize: the disk is matched against the caller's identifiers *)
(* (run.go, discover.go, convert.go), planResizes sorts the requested      *)
(* grows into satisfied, already relocated and pending ones, and           *)
(* calculateResizes lays the pending ones out in the free space, a second  *)
(* time with the shrink partition in front when the first attempt found no *)
(* room.  Planning reads the table and changes nothing on the disk, so a   *)
(* run with dryRun ends in "planned".                                      *)
(*                                                                         *)
(* The sorted list of unused blocks is modelled by the set of free bytes:  *)
(* the blocks are the maximal runs of that set. Module FreeSpace has the   *)
(* list itself.                                                            *)
(***************************************************************************)
EXTENDS Partitions, Sequences, FiniteSets

CONSTANTS
    DiskSize,   \* the size of the disk in bytes
    Metadata,   \* how many of them the GPT takes at either end of the disk
    GB,         \* what a shrink is rounded up to
    Layouts,    \* the partition tables a disk may start with
    Requests,   \* what the callers ask for
    NoShrink    \* the nil shrinkPartition

\* PartitionChange, and the arguments of Run. Nothing checks the size, and what
\* the command line parses may be zero or negative.
Change == [by : {"name"}, value : Nat \ {0}, size : Int] \cup
          [by : {"label"}, value : Label, size : Int] \cup
          [by : {"uuid"}, value : Guid, size : Int]
Request == [grows : Seq(Change), shrink : Identifier \cup {NoShrink},
            fixErrors : BOOLEAN, preserveNumbers : BOOLEAN, dryRun : BOOLEAN]

\* The bytes partitions may occupy.
Usable == Metadata .. (DiskSize - Metadata - 1)

ASSUME SizeAssumption == DiskSize \in Nat \ {0} /\ Metadata \in Nat \ {0} /\ GB \in Nat \ {0}
ASSUME LayoutAssumption ==
    \A layout \in Layouts :
        /\ layout \subseteq Entry /\ IsFiniteSet(layout)
        /\ SoundTable(layout, DiskSize)
        /\ \A p \in layout : Extent(p) \subseteq Usable
ASSUME RequestAssumption == Requests \subseteq Request

VARIABLES
    table,      \* the active entries of the partition table
    req,        \* the arguments of Run
    pc,         \* where the run is
    i,          \* the item the current loop is at
    done,       \* items whose relocated partition exists already
    todo,       \* what calculateResizes is given: the pending items
    total,      \* the sum of the pending target sizes
    retried,    \* the attempt with the shrink partition has begun
    free,       \* the unused bytes
    taken,      \* usedPartitionNumbers
    resizes     \* what calculateResizes has laid out

locals == <<i, done, todo, total, retried, free, taken, resizes>>
plannerVars == <<table, req, pc, locals>>

\* A partitionResizeTarget. Until it is laid out its target has a size only.
Target == [number : Nat, start : Int, size : Int]
Item == [original : Source, target : Target]
Pending(p, size) ==
    [original |-> Data(p), target |-> [number |-> 0, start |-> 0, size |-> size]]
Existing(p, alt) ==
    [original |-> Data(p), target |-> [number |-> alt.number, start |-> alt.start, size |-> alt.size]]

\* Whole gigabytes, as Go divides: towards zero.
Gigabytes(n) == IF n < 0 THEN -((-n) \div GB) ELSE n \div GB
\* The total rounded down to a GB, and, as the code has it, up.
BugRoundUp(n) == Gigabytes(n) * GB
RoundUp(n) == IF n % GB = 0 THEN n ELSE (Gigabytes(n) + 1) * GB
ShrinkItem(p) ==
    [original |-> Data(p),
     target |-> [number |-> p.number, start |-> p.start, size |-> p.size - RoundUp(total)]]

InPlace(item) == item.target.size < item.original.size
\* What an in-place shrink gives back to the free space, and the same with the
\* last byte the partition keeps.
BugFreed(item) ==
    (item.original.start + item.target.size - 1) .. (item.original.start + item.original.size - 1)
Freed(item) ==
    (item.original.start + item.target.size) .. (item.original.start + item.original.size - 1)

\* The starts of the unused blocks that have room for size bytes.
Fits(size) == {s \in free : s - 1 \notin free /\ Bytes(s, size) \subseteq free}

\* The plan planResizes returns: done first, then what was laid out.
Plan == done \o resizes
-----------------------------------------------------------------------------
LocalsTypeOK ==
    /\ i \in Nat \ {0}
    /\ done \in Seq(Item)
    /\ todo \in Seq(Item)
    /\ total \in Int
    /\ retried \in BOOLEAN
    /\ free \subseteq Int
    /\ taken \subseteq Nat /\ IsFiniteSet(taken)
    /\ resizes \in Seq(Item)

\* The type invariant: the table's entries and the items of every list are well
\* formed at every step of the planning code.
TypeOK ==
    /\ table \subseteq Entry /\ IsFiniteSet(table)
    /\ req \in Requests
    /\ pc \in {"off", "classify", "allocate", "planned", "failed"}
    /\ LocalsTypeOK

InitLocals ==
    /\ i = 1 /\ done = <<>> /\ todo = <<>> /\ total = 0 /\ retried = FALSE
    /\ free = {} /\ taken = {} /\ resizes = <<>>

Init ==
    /\ table \in Layouts
    /\ req \in Requests
    /\ pc = "off"
    /\ InitLocals
-----------------------------------------------------------------------------
\* findDisks and filterDisksByPartitions: every identifier of the request, the
\* shrink partition's too, must be found on the disk.
Requested == {req.grows[k] : k \in DOMAIN req.grows} \cup ({req.shrink} \ {NoShrink})
AllDiscovered == \A id \in Requested : \E p \in table : Discovered(id, p)

Discover ==
    /\ pc = "off"
    /\ AllDiscovered
    /\ pc' = "classify"
    /\ UNCHANGED <<table, req, locals>>

NotDiscovered ==
    /\ pc = "off"
    /\ ~AllDiscovered
    /\ pc' = "failed"
    /\ UNCHANGED <<table, req, locals>>

Classifying(p) ==
    /\ pc = "classify"
    /\ i <= Len(req.grows)
    /\ p \in FirstMatch(table, req.grows[i])
    /\ i' = i + 1
    /\ UNCHANGED <<table, req, pc, retried, free, taken, resizes>>

\* The partition has the requested size already. The mutant never notices.
BugSatisfied(p) == FALSE
Satisfied(p) == p.size = req.grows[i].size

SkipSatisfied ==
    \E p \in table :
        /\ Classifying(p)
        /\ Satisfied(p)
        /\ UNCHANGED <<done, todo, total>>

\* An earlier run created the relocated partition: keep its geometry.
ReuseRelocated ==
    \E p \in table : \E alt \in LastNamed(table, Alternate(p.name)) :
        /\ Classifying(p)
        /\ ~Satisfied(p)
        /\ done' = Append(done, Existing(p, alt))
        /\ UNCHANGED <<todo, total>>

QueuePending ==
    \E p \in table :
        /\ Classifying(p)
        /\ ~Satisfied(p)
        /\ LastNamed(table, Alternate(p.name)) = {}
        /\ todo' = Append(todo, Pending(p, req.grows[i].size))
        /\ total' = total + req.grows[i].size
        /\ UNCHANGED done

NothingPending ==
    /\ pc = "classify"
    /\ i > Len(req.grows)
    /\ todo = <<>>
    /\ pc' = "planned"
    /\ UNCHANGED <<table, req, locals>>
-----------------------------------------------------------------------------
\* The loop over the items begun at index 0.
BugBeginLayout(items) ==
    /\ pc' = "allocate" /\ i' = 0 /\ todo' = items
    /\ UNCHANGED <<table, req, done, total, free, taken, resizes>>

\* calculateResizes, entered with the given items: computeUnused leaves byte 0
\* out and counts every other byte outside the partitions as unused.
BeginLayout(items) ==
    /\ pc' = "allocate"
    /\ i' = 1
    /\ todo' = items
    /\ free' = (1 .. DiskSize - 1) \ UNION {Extent(p) : p \in table}
    /\ taken' = {p.number : p \in table}
    /\ resizes' = <<>>
    /\ UNCHANGED <<table, req, done, total>>

FirstAttempt ==
    /\ pc = "classify"
    /\ i > Len(req.grows)
    /\ todo # <<>>
    /\ BeginLayout(todo)
    /\ UNCHANGED retried

LayingOut ==
    /\ pc = "allocate"
    /\ i <= Len(todo)

\* The current item laid out at the given start and slot.
Settle(start, number) ==
    /\ i' = i + 1
    /\ resizes' = Append(resizes,
          [todo[i] EXCEPT !.target = [number |-> number, start |-> start, size |-> @.size]])
    /\ UNCHANGED <<table, req, pc, done, todo, total, retried>>

LayOutShrink ==
    /\ LayingOut
    /\ InPlace(todo[i])
    /\ Settle(todo[i].original.start, todo[i].original.number)
    /\ free' = free \cup Freed(todo[i])
    /\ UNCHANGED taken

\* The current item given the bytes from start on and the lowest free slot.
GiveSpace(start) ==
    \E number \in 1 .. (Cardinality(taken) + 1) :
        /\ number \notin taken /\ (1 .. number - 1) \subseteq taken
        /\ Settle(start, number)
        /\ free' = free \ Bytes(start, todo[i].target.size)
        /\ taken' = taken \cup {number}

\* First fit: the head of the lowest block with room.
LayOutGrow ==
    /\ LayingOut
    /\ ~InPlace(todo[i])
    /\ \E start \in Fits(todo[i].target.size) :
        /\ \A s \in Fits(todo[i].target.size) : start <= s
        /\ GiveSpace(start)

LayoutComplete ==
    /\ pc = "allocate"
    /\ i > Len(todo)
    /\ pc' = "planned"
    /\ UNCHANGED <<table, req, locals>>

NoRoom ==
    /\ LayingOut
    /\ ~InPlace(todo[i])
    /\ Fits(todo[i].target.size) = {}

\* What planResizes does with an InsufficientSpaceError: once, it puts the shrink
\* partition in front and starts over.
Retry ==
    /\ ~retried
    /\ req.shrink # NoShrink
    /\ \E p \in FirstMatch(table, req.shrink) : BeginLayout(<<ShrinkItem(p)>> \o todo)
    /\ retried' = TRUE

GiveUp ==
    /\ retried \/ req.shrink = NoShrink
    /\ pc' = "failed"
    /\ UNCHANGED <<table, req, locals>>

RetryWithShrink == NoRoom /\ Retry
InsufficientSpace == NoRoom /\ GiveUp
-----------------------------------------------------------------------------
Next ==
    \/ Discover \/ NotDiscovered
    \/ SkipSatisfied \/ ReuseRelocated \/ QueuePending \/ NothingPending
    \/ FirstAttempt \/ LayOutShrink \/ LayOutGrow \/ LayoutComplete
    \/ RetryWithShrink \/ InsufficientSpace

Spec == Init /\ [][Next]_plannerVars
\* Planning is one call that nothing blocks, so it takes its next step.
FairSpec == Spec /\ WF_plannerVars(Next)
-----------------------------------------------------------------------------
\* The items of the plan that calculateResizes placed elsewhere.
Grown == {k \in DOMAIN resizes : ~InPlace(resizes[k])}

\* What is left of an entry once the plan's in-place shrinks are done.
Remaining(p) ==
    {b \in Extent(p) : \A k \in DOMAIN resizes :
        InPlace(resizes[k]) /\ resizes[k].original = Data(p)
            => b < p.start + resizes[k].target.size}

\* The caller names every partition once, the shrink partition too, and the
\* shrink leaves something of it.
OncePerPartition == \A k, m \in DOMAIN todo : k # m => todo[k].original # todo[m].original
ShrinkLeavesRoom == \A k \in DOMAIN todo : todo[k].target.size >= 1

\* A place for a relocated partition: on the disk, on bytes no entry keeps, in
\* a slot no entry has, and apart from every other relocated partition.
PlacedApart(k) ==
    LET t == resizes[k].target IN
    /\ Extent(t) \subseteq 1 .. (DiskSize - 1)
    /\ \A p \in table : Extent(t) \cap Remaining(p) = {} /\ t.number # p.number
    /\ \A m \in Grown \ {k} :
        Extent(t) \cap Extent(resizes[m].target) = {} /\ t.number # resizes[m].target.number

\* A finished plan that names each partition once places every relocated
\* partition apart: calculateResizes hands out space first fit and frees some
\* on the way, and must give no byte and no slot twice.
PlanIsSafe ==
    pc = "planned" /\ OncePerPartition /\ ShrinkLeavesRoom => \A k \in Grown : PlacedApart(k)

\* While calculateResizes lays items out, its free space and slots account for
\* the whole disk: no unused byte is kept by an entry or was given to a
\* relocated partition, and no slot in use is thought free.
SpaceAccounted ==
    OncePerPartition /\ ShrinkLeavesRoom =>
        /\ free \subseteq 1 .. (DiskSize - 1)
        /\ \A p \in table : Remaining(p) \cap free = {} /\ (pc = "allocate" => p.number \in taken)
        /\ \A k \in Grown :
            /\ PlacedApart(k)
            /\ Extent(resizes[k].target) \cap free = {}
            /\ resizes[k].target.number \in taken

\* What was laid out are the first items given to calculateResizes.
InStep ==
    /\ \A k \in DOMAIN todo : \E p \in table : todo[k].original = Data(p)
    /\ pc \in {"off", "classify"} => resizes = <<>> /\ free = {}
    /\ pc = "allocate" => Len(resizes) = i - 1 /\ i <= Len(todo) + 1
    /\ Len(resizes) <= Len(todo)
    /\ \A k \in DOMAIN resizes :
        /\ resizes[k].original = todo[k].original
        /\ resizes[k].target.size = todo[k].target.size

PlanInv == TypeOK /\ SoundTable(table, DiskSize) /\ InStep /\ SpaceAccounted

\* Shrinking by the rounded total always makes room: the second attempt of
\* planResizes never reports insufficient space, however the rest of the disk
\* is fragmented and whatever other partitions shrink in place, as long as the
\* sizes asked for are positive.
ShrinkMakesRoom ==
    retried /\ (\A k \in DOMAIN req.grows : req.grows[k].size > 0) => pc # "failed"

\* planResizes ends, with a plan or an error.
Terminates == <>(pc \in {"planned", "failed"})

\* The README: grown partitions are copied to new partitions in free space on
\* the disk. The bytes of the GPT itself are not free.
GrownIntoFreeSpace ==
    pc = "planned" => \A k \in Grown : Extent(resizes[k].target) \subseteq Usable
=============================================================================
