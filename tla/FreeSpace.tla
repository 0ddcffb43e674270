----------------------------- MODULE FreeSpace ------------------------------
(***************************************************************************)
(* The list of unused blocks of calculateResizes, beside the set of free   *)
(* bytes it stands for.  computeUnused makes it from the partitions in the *)
(* order of their starts, a grow takes the head of the first block that    *)
(* has room, and what an in-place shrink gives back is added, and the list *)
(* sorted and combined.  Both of those loops go through blocks that were   *)
(* sorted by start, in no certain order if starts are equal: one round is  *)
(* one step, which takes a lowest of the blocks that are left.             *)
(*                                                                         *)
(* What happens is decided by the list alone; `free' only records what was *)
(* taken and given back.  That every step is one of Planner's, which       *)
(* decides by the set, or none, shows that the list is handled correctly.  *)
(***************************************************************************)
EXTENDS Planner, SequencesExt

VARIABLES
    unused,     \* the unused blocks
    loop,       \* where calculateResizes is: at an item, or in one of the loops
    rest,       \* the blocks that loop has still to go through
    prevEnd     \* computeUnused's prevEnd

loopVars == <<loop, rest, prevEnd>>
listVars == <<plannerVars, unused, loopVars>>

\* A usableBlock. Its size is set for used blocks only, and never read.
UsableBlock == [start : Int, end : Int]
Block(first, last) == [start |-> first, end |-> last]
Used(p) == Block(p.start, p.start + p.size - 1)
Lowest(block) == block \in rest /\ \A b \in rest : block.start <= b.start

\* There is a gap before a used block. The mutant misses a gap of one byte.
BugGap(block) == block.start > prevEnd + 2
Gap(block) == block.start > prevEnd + 1

\* A block joins the one before it; in the mutant only if they overlap.
BugJoins(current, block) == current.end >= block.start
Joins(current, block) == current.end + 1 >= block.start
Combine(combined, block) ==
    IF combined = <<>> \/ ~Joins(Last(combined), block) THEN Append(combined, block)
    ELSE [combined EXCEPT ![Len(combined)].end = IF block.end > @ THEN block.end ELSE @]

\* What an in-place shrink gives back; the mutant begins with the last byte
\* that is kept.
BugGivenBack(item) ==
    Block(item.original.start + item.target.size - 1, item.original.start + item.original.size - 1)
GivenBack(item) ==
    Block(item.original.start + item.target.size, item.original.start + item.original.size - 1)

\* The first block that has room, as a set of at most one index. The mutant
\* wants a byte more.
BugHasRoom(block, size) == block.end - block.start + 1 > size
HasRoom(block, size) == block.end - block.start + 1 >= size
FirstWithRoom(size) ==
    {j \in DOMAIN unused :
        HasRoom(unused[j], size) /\ \A k \in 1 .. j - 1 : ~HasRoom(unused[k], size)}

\* The list without the first size bytes of block j.
WithoutHead(j, size) ==
    IF unused[j].start + size > unused[j].end THEN RemoveAt(unused, j)
    ELSE [unused EXCEPT ![j].start = @ + size]
-----------------------------------------------------------------------------
ListInit == Init /\ unused = <<>> /\ loop = "items" /\ rest = {} /\ prevEnd = 0

\* computeUnused.
ComputeUnused ==
    /\ loop' = "gaps" /\ rest' = {Used(p) : p \in table} /\ prevEnd' = 0
    /\ unused' = <<>>

NextUsed ==
    /\ loop = "gaps"
    /\ \E block \in rest :
        /\ Lowest(block)
        /\ unused' = IF Gap(block) THEN Append(unused, Block(prevEnd + 1, block.start - 1))
                     ELSE unused
        /\ prevEnd' = block.end
        /\ rest' = rest \ {block}
    /\ UNCHANGED <<plannerVars, loop>>

AfterLastUsed ==
    /\ loop = "gaps"
    /\ rest = {}
    /\ unused' = IF prevEnd < DiskSize - 1 THEN Append(unused, Block(prevEnd + 1, DiskSize - 1))
                 ELSE unused
    /\ loop' = "items"
    /\ UNCHANGED <<plannerVars, rest, prevEnd>>

FirstLayout == FirstAttempt /\ ComputeUnused
-----------------------------------------------------------------------------
\* An in-place shrink, up to the call of sortAndCombineUsableBlocks.
ShrinkInPlace ==
    /\ loop = "items"
    /\ LayOutShrink
    /\ loop' = "combine" /\ rest' = Range(unused) \cup {GivenBack(todo[i])}
    /\ unused' = <<>>
    /\ UNCHANGED prevEnd

CombineNext ==
    /\ loop = "combine"
    /\ \E block \in rest :
        /\ Lowest(block)
        /\ unused' = Combine(unused, block)
        /\ rest' = rest \ {block}
    /\ UNCHANGED <<plannerVars, loop, prevEnd>>

Combined ==
    /\ loop = "combine"
    /\ rest = {}
    /\ loop' = "items"
    /\ UNCHANGED <<plannerVars, unused, rest, prevEnd>>
-----------------------------------------------------------------------------
TakeFirstFit ==
    /\ loop = "items"
    /\ LayingOut
    /\ ~InPlace(todo[i])
    /\ \E j \in FirstWithRoom(todo[i].target.size) :
        /\ GiveSpace(unused[j].start)
        /\ unused' = WithoutHead(j, todo[i].target.size)
    /\ UNCHANGED loopVars

\* No block was found. The mutant gives up only when there are none.
BugNotFound == loop = "items" /\ LayingOut /\ ~InPlace(todo[i]) /\ unused = <<>>
NotFound ==
    /\ loop = "items"
    /\ LayingOut
    /\ ~InPlace(todo[i])
    /\ FirstWithRoom(todo[i].target.size) = {}

LayoutWithShrink == NotFound /\ Retry /\ ComputeUnused

NoSpace == NotFound /\ GiveUp /\ UNCHANGED <<unused, loopVars>>

\* The steps that have nothing to do with the list.
Classify ==
    /\ loop = "items"
    /\ \/ Discover \/ NotDiscovered
       \/ SkipSatisfied \/ ReuseRelocated \/ QueuePending \/ NothingPending
       \/ LayoutComplete
    /\ UNCHANGED <<unused, loopVars>>

ListNext ==
    \/ Classify
    \/ FirstLayout \/ NextUsed \/ AfterLastUsed
    \/ ShrinkInPlace \/ CombineNext \/ Combined
    \/ TakeFirstFit \/ LayoutWithShrink \/ NoSpace

ListSpec == ListInit /\ [][ListNext]_listVars
\* Planning is one call that nothing blocks, so it takes its next step.
FairListSpec == ListSpec /\ WF_listVars(ListNext)
-----------------------------------------------------------------------------
\* The bytes of a set of blocks.
Covered(blocks) == UNION {b.start .. b.end : b \in blocks}

\* The blocks of the list are in order, none is empty, and there is a byte
\* between any two.
InOrder ==
    /\ \A j \in DOMAIN unused : unused[j].start <= unused[j].end
    /\ \A j, k \in DOMAIN unused : j < k => unused[j].end + 1 < unused[k].start

\* The list stands for the free bytes: its blocks are their maximal runs, in
\* order, so that the first block with room is the first run with room,
\* however often blocks were taken, given back and combined.
ListAgrees ==
    pc = "allocate" /\ loop = "items" => free = Covered(Range(unused)) /\ InOrder

\* What computeUnused has found of the free bytes so far: those up to prevEnd.
GapsSoFar ==
    loop = "gaps" =>
        /\ free = (1 .. DiskSize - 1) \ UNION {Extent(p) : p \in table}
        /\ free \cap (1 .. prevEnd) = Covered(Range(unused))
        /\ \A j \in DOMAIN unused : unused[j].end < prevEnd
        /\ rest \subseteq {Used(p) : p \in table}
        /\ \A p \in table : IF Used(p) \in rest THEN prevEnd < p.start ELSE Used(p).end <= prevEnd

\* What was combined and what is left are the free bytes.
CombinedSoFar ==
    loop = "combine" =>
        /\ free = Covered(Range(unused)) \cup Covered(rest)
        /\ \A b \in rest : b.start <= b.end
        /\ \A j \in DOMAIN unused : \A b \in rest : unused[j].start <= b.start

\* The list at every round of the loops that make it.
ListInv ==
    /\ unused \in Seq(UsableBlock) /\ rest \subseteq UsableBlock /\ prevEnd \in Nat
    /\ loop \in {"items", "gaps", "combine"}
    /\ loop # "items" => pc = "allocate"
    /\ \A p \in table : p.start > 0
    /\ pc = "allocate" => InOrder
    /\ GapsSoFar
    /\ CombinedSoFar
    /\ ListAgrees

\* Laying out with the list is laying out with the set of free bytes: what is
\* proved of Planner is true of the code's list.
ImplementsPlanner == Spec
=============================================================================
