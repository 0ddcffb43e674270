-------------------------- MODULE FreeSpaceProofs --------------------------
(***************************************************************************)
(* The list of unused blocks is handled correctly: after both loops that   *)
(* make it and after every grow it is the maximal runs of the free bytes,  *)
(* in order, so that calculateResizes lays out with the list as Planner    *)
(* does with the set, for every disk, layout and request.                  *)
(***************************************************************************)
EXTENDS FreeSpace, PlannerProofs

LEMMA CoveredByList ==
    \A b : b \in Covered(Range(unused)) <=> \E j \in DOMAIN unused : b \in unused[j].start .. unused[j].end
BY DEF Covered, Range

LEMMA BlockFields ==
    ASSUME ListInv
    PROVE  /\ Len(unused) \in Nat /\ DOMAIN unused = 1 .. Len(unused)
           /\ \A j \in DOMAIN unused : /\ unused[j] \in UsableBlock
                                       /\ unused[j].start \in Int /\ unused[j].end \in Int
<1>1. unused \in Seq(UsableBlock)
    BY DEF ListInv
<1>2. \A j \in DOMAIN unused : unused[j] \in UsableBlock
    BY <1>1
<1> QED BY <1>1, <1>2 DEF UsableBlock

\* The blocks with room are the starts of runs with room: a run does not go on
\* from one block into another.
LEMMA RoomIsFit ==
    ASSUME ListInv, pc = "allocate", loop = "items", NEW size \in Int, size > 0
    PROVE  /\ \A j \in DOMAIN unused : HasRoom(unused[j], size) => unused[j].start \in Fits(size)
           /\ \A s \in Fits(size) :
                  \E j \in DOMAIN unused : s = unused[j].start /\ HasRoom(unused[j], size)
<1>1. /\ free = Covered(Range(unused))
      /\ \A j \in DOMAIN unused : unused[j].start <= unused[j].end
      /\ \A j, k \in DOMAIN unused : j < k => unused[j].end + 1 < unused[k].start
    BY DEF ListInv, ListAgrees, InOrder
<1>2. \A b : b \in free <=> \E j \in DOMAIN unused : b \in unused[j].start .. unused[j].end
    BY <1>1, CoveredByList
<1>3. ASSUME NEW j \in DOMAIN unused PROVE unused[j].start - 1 \notin free /\ unused[j].end + 1 \notin free
    <2> SUFFICES ASSUME NEW k \in DOMAIN unused
                 PROVE  /\ unused[j].start - 1 \notin unused[k].start .. unused[k].end
                        /\ unused[j].end + 1 \notin unused[k].start .. unused[k].end
        BY <1>2
    <2>1. /\ unused[j].start \in Int /\ unused[j].end \in Int /\ unused[k].start \in Int /\ unused[k].end \in Int
          /\ j \in Int /\ k \in Int
        BY BlockFields
    <2>2. CASE j < k
        BY <1>1, <2>1, <2>2
    <2>3. CASE k < j
        BY <1>1, <2>1, <2>3
    <2>4. CASE j = k
        BY <2>1, <2>4
    <2> QED BY <2>1, <2>2, <2>3, <2>4
<1>4. ASSUME NEW j \in DOMAIN unused, HasRoom(unused[j], size) PROVE unused[j].start \in Fits(size)
    <2>1. unused[j].start \in Int /\ unused[j].end \in Int /\ unused[j].start <= unused[j].end
        BY <1>1, BlockFields
    <2>2. Bytes(unused[j].start, size) \subseteq unused[j].start .. unused[j].end
        BY <1>4, <2>1 DEF HasRoom, Bytes
    <2>3. unused[j].start .. unused[j].end \subseteq free /\ unused[j].start \in unused[j].start .. unused[j].end
        BY <1>2, <2>1
    <2> QED BY <1>3, <2>2, <2>3 DEF Fits
<1>5. ASSUME NEW s \in Fits(size)
      PROVE  \E j \in DOMAIN unused : s = unused[j].start /\ HasRoom(unused[j], size)
    <2>1. s \in free /\ s - 1 \notin free /\ Bytes(s, size) \subseteq free
        BY DEF Fits
    <2>2. PICK j \in DOMAIN unused : s \in unused[j].start .. unused[j].end
        BY <1>2, <2>1
    <2>3. unused[j].start \in Int /\ unused[j].end \in Int /\ s \in Int
        BY <2>2, BlockFields
    <2>4. s = unused[j].start
        <3>1. s - 1 \notin unused[j].start .. unused[j].end
            BY <1>2, <2>1
        <3> QED BY <2>2, <2>3, <3>1
    <2>5. unused[j].end + 1 \notin Bytes(s, size)
        BY <1>3, <2>1
    <2>6. HasRoom(unused[j], size)
        BY <2>2, <2>3, <2>4, <2>5 DEF HasRoom, Bytes
    <2> QED BY <2>4, <2>6
<1> QED BY <1>4, <1>5

\* Hence the first block with room is the first fit, and there is one or none.
LEMMA FirstIsLowest ==
    ASSUME ListInv, pc = "allocate", loop = "items", NEW size \in Int, size > 0
    PROVE  /\ \A j \in FirstWithRoom(size) :
                  unused[j].start \in Fits(size) /\ \A s \in Fits(size) : unused[j].start <= s
           /\ FirstWithRoom(size) = {} => Fits(size) = {}
<1>1. ASSUME NEW j \in FirstWithRoom(size), NEW s \in Fits(size) PROVE unused[j].start <= s
    <2>1. PICK k \in DOMAIN unused : s = unused[k].start /\ HasRoom(unused[k], size)
        BY RoomIsFit
    <2>2. j \in 1 .. Len(unused) /\ k \in 1 .. Len(unused) /\ k \notin 1 .. j - 1
        BY <2>1, BlockFields DEF FirstWithRoom
    <2>3. k = j \/ j < k
        BY <2>2, BlockFields
    <2>4. unused[j].start \in Int /\ unused[k].start \in Int /\ unused[j].end \in Int
        BY <2>2, BlockFields
    <2>5. unused[j].start <= unused[j].end /\ (j < k => unused[j].end + 1 < unused[k].start)
        BY <2>2, BlockFields DEF ListInv, InOrder
    <2> QED BY <2>1, <2>3, <2>4, <2>5
<1>2. ASSUME FirstWithRoom(size) = {}, Fits(size) # {} PROVE FALSE
    <2> DEFINE T == {j \in DOMAIN unused : HasRoom(unused[j], size)}
    <2>1. T \in SUBSET Nat /\ T # {}
        BY <1>2, RoomIsFit, BlockFields
    <2>2. PICK j \in T : \A k \in T : j <= k
        BY <2>1, LeastNatural
    <2>3. ASSUME NEW k \in 1 .. j - 1 PROVE ~HasRoom(unused[k], size)
        <3>1. k \in DOMAIN unused /\ ~(j <= k)
            BY <2>2, BlockFields
        <3> QED BY <2>2, <3>1
    <2> QED BY <1>2, <2>2, <2>3 DEF FirstWithRoom
<1> QED BY <1>1, <1>2, RoomIsFit DEF FirstWithRoom
-----------------------------------------------------------------------------
LEMMA RemoveAtIs ==
    ASSUME NEW S, NEW s \in Seq(S), NEW j \in 1 .. Len(s)
    PROVE  /\ RemoveAt(s, j) \in Seq(S)
           /\ Len(RemoveAt(s, j)) = Len(s) - 1
           /\ \A k \in 1 .. Len(s) - 1 : RemoveAt(s, j)[k] = IF k < j THEN s[k] ELSE s[k + 1]
<1> DEFINE head == SubSeq(s, 1, j - 1)
           tail == SubSeq(s, j + 1, Len(s))
<1>1. Len(s) \in Nat
    OBVIOUS
<1>2. head \in Seq(S) /\ Len(head) = j - 1 /\ \A k \in 1 .. j - 1 : head[k] = s[k]
    BY <1>1
<1>3. /\ tail \in Seq(S) /\ Len(tail) = Len(s) - j
      /\ \A k \in 1 .. Len(s) - j : tail[k] = s[k + j]
    BY <1>1
<1>4. RemoveAt(s, j) = head \o tail
    BY DEF RemoveAt
<1> HIDE DEF head, tail
<1>5. /\ head \o tail \in Seq(S) /\ Len(head \o tail) = Len(s) - 1
      /\ \A k \in 1 .. Len(s) - 1 :
            (head \o tail)[k] = IF k <= Len(head) THEN head[k] ELSE tail[k - Len(head)]
    <2>1. head \o tail \in Seq(S) /\ Len(head \o tail) = Len(head) + Len(tail)
        <3>1. head \in Seq(S) /\ tail \in Seq(S)
            BY <1>2, <1>3
        <3> QED BY <3>1
    <2>2. \A k \in 1 .. Len(head) + Len(tail) :
              (head \o tail)[k] = IF k <= Len(head) THEN head[k] ELSE tail[k - Len(head)]
        BY <1>2, <1>3
    <2>3. Len(head) + Len(tail) = Len(s) - 1
        BY <1>1, <1>2, <1>3
    <2> QED BY <2>1, <2>2, <2>3
<1>6. ASSUME NEW k \in 1 .. Len(s) - 1
      PROVE  (head \o tail)[k] = IF k < j THEN s[k] ELSE s[k + 1]
    <2>1. CASE k < j
        <3>1. k \in 1 .. j - 1 /\ k <= Len(head)
            BY <1>1, <1>2, <2>1
        <3> QED BY <1>2, <1>5, <2>1, <3>1
    <2>2. CASE ~(k < j)
        <3>1. /\ k - Len(head) = k - j + 1 /\ ~(k <= Len(head)) /\ k - j + 1 \in 1 .. Len(s) - j
              /\ k - j + 1 + j = k + 1
            BY <1>1, <1>2, <2>2
        <3> QED BY <1>3, <1>5, <2>2, <3>1
    <2> QED BY <2>1, <2>2
<1> QED BY <1>4, <1>5, <1>6

\* The list without the head of a block is in order, and covers what is left.
LEMMA HeadRemoved ==
    ASSUME ListInv, InOrder, NEW j \in DOMAIN unused, NEW size \in Int, size > 0,
           HasRoom(unused[j], size), unused' = WithoutHead(j, size)
    PROVE  /\ unused' \in Seq(UsableBlock)
           /\ InOrder'
           /\ Covered(Range(unused')) = Covered(Range(unused)) \ Bytes(unused[j].start, size)
<1> DEFINE n == Len(unused)
           first == unused[j].start
<1>1. /\ n \in Nat /\ j \in 1 .. n /\ first \in Int /\ unused[j].end \in Int
      /\ unused \in Seq(UsableBlock) /\ unused[j] \in UsableBlock
    BY BlockFields DEF ListInv
<1>2. \A k \in 1 .. n : unused[k].start \in Int /\ unused[k].end \in Int /\ unused[k].start <= unused[k].end
    BY BlockFields DEF InOrder
<1>3. \A k, m \in 1 .. n : k < m => unused[k].end + 1 < unused[m].start
    BY BlockFields DEF InOrder
<1>4. first + size - 1 <= unused[j].end
    BY <1>1 DEF HasRoom
<1>5. \A b : b \in Covered(Range(unused)) <=> \E k \in 1 .. n : b \in unused[k].start .. unused[k].end
    BY BlockFields, CoveredByList
<1>6. \A b : b \in Covered(Range(unused')) <=> \E k \in DOMAIN unused' : b \in unused'[k].start .. unused'[k].end
    BY DEF Covered, Range
<1>7. \A b : b \in Bytes(first, size) <=> b \in Int /\ first <= b /\ b < first + size
    BY <1>1 DEF Bytes
<1>8. ASSUME NEW k \in 1 .. n, k # j, NEW b \in unused[k].start .. unused[k].end
      PROVE  b \notin Bytes(first, size)
    <2>1. k < j \/ j < k
        BY <1>1, <1>8
    <2>2. /\ k < j => unused[k].end + 1 < first
          /\ j < k => unused[j].end + 1 < unused[k].start
        BY <1>1, <1>3
    <2> QED BY <1>1, <1>2, <1>4, <1>7, <2>1, <2>2
<1>9. CASE first + size > unused[j].end
    <2>1. unused' = RemoveAt(unused, j)
        BY <1>9 DEF WithoutHead
    <2> DEFINE old(k) == IF k < j THEN k ELSE k + 1
    <2>2. /\ unused' \in Seq(UsableBlock) /\ Len(unused') = n - 1
          /\ \A k \in 1 .. n - 1 : unused'[k] = unused[old(k)]
        BY <1>1, <2>1, RemoveAtIs
    <2>3. DOMAIN unused' = 1 .. n - 1
        BY <2>2
    <2>4. \A k \in 1 .. n - 1 : old(k) \in 1 .. n /\ old(k) # j
        BY <1>1
    <2>5. \A k, m \in 1 .. n - 1 : k < m => old(k) < old(m)
        BY <1>1
    <2>6. \A k \in 1 .. n : k # j => \E m \in 1 .. n - 1 : old(m) = k
        <3> TAKE k \in 1 .. n
        <3>1. CASE k < j
            <4>1. k \in 1 .. n - 1 /\ old(k) = k
                BY <1>1, <3>1
            <4> QED BY <4>1
        <3>2. CASE k > j
            <4>1. k - 1 \in 1 .. n - 1 /\ old(k - 1) = k
                BY <1>1, <3>2
            <4> QED BY <4>1
        <3> QED BY <1>1, <3>1, <3>2
    <2> HIDE DEF old
    <2>7. InOrder'
        <3>1. \A k \in 1 .. n - 1 : unused'[k].start <= unused'[k].end
            BY <1>2, <2>2, <2>4
        <3>2. ASSUME NEW k \in 1 .. n - 1, NEW m \in 1 .. n - 1, k < m
              PROVE  unused'[k].end + 1 < unused'[m].start
            <4>1. old(k) \in 1 .. n /\ old(m) \in 1 .. n /\ old(k) < old(m)
                BY <2>4, <2>5, <3>2
            <4> QED BY <1>3, <2>2, <4>1
        <3> QED BY <2>3, <3>1, <3>2 DEF InOrder
    <2>8. \A b \in unused[j].start .. unused[j].end : b \in Bytes(first, size)
        BY <1>1, <1>4, <1>7, <1>9
    <2>9. ASSUME NEW b
          PROVE  b \in Covered(Range(unused')) <=> b \in Covered(Range(unused)) /\ b \notin Bytes(first, size)
        <3>1. ASSUME b \in Covered(Range(unused'))
              PROVE  b \in Covered(Range(unused)) /\ b \notin Bytes(first, size)
            <4>1. PICK k \in 1 .. n - 1 : b \in unused[old(k)].start .. unused[old(k)].end
                BY <1>6, <2>2, <2>3, <3>1
            <4>2. old(k) \in 1 .. n /\ old(k) # j
                BY <2>4
            <4> QED BY <1>5, <1>8, <4>1, <4>2
        <3>2. ASSUME b \in Covered(Range(unused)), b \notin Bytes(first, size)
              PROVE  b \in Covered(Range(unused'))
            <4>1. PICK k \in 1 .. n : b \in unused[k].start .. unused[k].end
                BY <1>5, <3>2
            <4>2. k # j
                BY <2>8, <3>2, <4>1
            <4>3. PICK m \in 1 .. n - 1 : old(m) = k
                BY <2>6, <4>2
            <4> QED BY <1>6, <2>2, <2>3, <4>1, <4>3
        <3> QED BY <3>1, <3>2
    <2> QED BY <2>2, <2>7, <2>9
<1>10. CASE ~(first + size > unused[j].end)
    <2>1. /\ unused' = [unused EXCEPT ![j].start = first + size]
          /\ first + size \in Int /\ first + size <= unused[j].end
        BY <1>1, <1>10 DEF WithoutHead
    <2>2. /\ DOMAIN unused' = 1 .. n
          /\ \A k \in 1 .. n : k # j => unused'[k] = unused[k]
          /\ unused'[j] = [unused[j] EXCEPT !.start = first + size]
        BY <1>1, <2>1
    <2>3. unused'[j].start = first + size /\ unused'[j].end = unused[j].end /\ unused'[j] \in UsableBlock
        BY <1>1, <2>1, <2>2 DEF UsableBlock
    <2>4. unused' \in Seq(UsableBlock)
        <3>1. [unused EXCEPT ![j] = unused'[j]] \in Seq(UsableBlock)
            BY <1>1, <2>3
        <3>2. unused' = [unused EXCEPT ![j] = unused'[j]]
            BY <1>1, <2>1
        <3> QED BY <3>1, <3>2
    <2>5. InOrder'
        <3>1. \A k \in 1 .. n : unused'[k].start >= unused[k].start /\ unused'[k].end = unused[k].end
                                /\ unused'[k].start \in Int /\ unused'[k].start <= unused'[k].end
            BY <1>1, <1>2, <2>1, <2>2, <2>3
        <3>2. ASSUME NEW k \in 1 .. n, NEW m \in 1 .. n, k < m PROVE unused'[k].end + 1 < unused'[m].start
            BY <1>2, <1>3, <3>1, <3>2
        <3> QED BY <2>2, <3>1, <3>2 DEF InOrder
    <2>6. \A b : b \in unused'[j].start .. unused'[j].end
                <=> b \in unused[j].start .. unused[j].end /\ b \notin Bytes(first, size)
        BY <1>1, <1>7, <2>1, <2>3
    <2>7. ASSUME NEW b
          PROVE  b \in Covered(Range(unused')) <=> b \in Covered(Range(unused)) /\ b \notin Bytes(first, size)
        <3>1. b \in Covered(Range(unused')) <=> \E k \in 1 .. n : b \in unused'[k].start .. unused'[k].end
            BY <1>6, <2>2
        <3>2. ASSUME NEW k \in 1 .. n
              PROVE  b \in unused'[k].start .. unused'[k].end
                         <=> b \in unused[k].start .. unused[k].end /\ b \notin Bytes(first, size)
            BY <1>8, <2>2, <2>6
        <3> QED BY <1>5, <3>1, <3>2
    <2> QED BY <2>4, <2>5, <2>7
<1> QED BY <1>9, <1>10
-----------------------------------------------------------------------------
\* A block put behind the others, with a byte between.
LEMMA BlockAppended ==
    ASSUME ListInv, InOrder, NEW block \in UsableBlock, block.start <= block.end,
           \A j \in DOMAIN unused : unused[j].end + 1 < block.start,
           unused' = Append(unused, block)
    PROVE  /\ unused' \in Seq(UsableBlock)
           /\ InOrder'
           /\ Covered(Range(unused')) = Covered(Range(unused)) \cup (block.start .. block.end)
           /\ \A j \in DOMAIN unused' : unused'[j] = block \/ (j \in DOMAIN unused /\ unused'[j] = unused[j])
<1> DEFINE n == Len(unused)
<1>1. n \in Nat /\ DOMAIN unused = 1 .. n /\ unused \in Seq(UsableBlock)
    BY BlockFields DEF ListInv
<1>2. /\ unused' \in Seq(UsableBlock) /\ DOMAIN unused' = 1 .. n + 1
      /\ \A j \in 1 .. n : unused'[j] = unused[j]
      /\ unused'[n + 1] = block
    BY <1>1
<1>3. \A j \in DOMAIN unused' : j = n + 1 \/ j \in 1 .. n
    BY <1>1, <1>2
<1>4. InOrder'
    <2>1. \A j \in DOMAIN unused' : unused'[j].start <= unused'[j].end
        BY <1>1, <1>2, <1>3 DEF InOrder
    <2>2. ASSUME NEW j \in DOMAIN unused', NEW k \in DOMAIN unused', j < k
          PROVE  unused'[j].end + 1 < unused'[k].start
        <3>1. j \in 1 .. n
            BY <1>1, <1>2, <2>2
        <3>2. CASE k \in 1 .. n
            BY <1>1, <1>2, <2>2, <3>1, <3>2 DEF InOrder
        <3>3. CASE k = n + 1
            BY <1>1, <1>2, <3>1, <3>3
        <3> QED BY <1>3, <3>2, <3>3
    <2> QED BY <2>1, <2>2 DEF InOrder
<1>5. ASSUME NEW b
      PROVE  b \in Covered(Range(unused')) <=> b \in Covered(Range(unused)) \cup (block.start .. block.end)
    <2>1. b \in Covered(Range(unused')) <=> \E j \in DOMAIN unused' : b \in unused'[j].start .. unused'[j].end
        BY DEF Covered, Range
    <2>2. b \in Covered(Range(unused)) <=> \E j \in 1 .. n : b \in unused[j].start .. unused[j].end
        BY <1>1, CoveredByList
    <2>3. n + 1 \in DOMAIN unused' /\ 1 .. n \subseteq DOMAIN unused'
        BY <1>1, <1>2
    <2> QED BY <1>2, <1>3, <2>1, <2>2, <2>3
<1> QED BY <1>1, <1>2, <1>3, <1>4, <1>5

\* The last block made longer.
LEMMA LastExtended ==
    ASSUME ListInv, InOrder, unused # <<>>, NEW last \in Int, last >= Last(unused).end,
           unused' = [unused EXCEPT ![Len(unused)].end = last]
    PROVE  /\ unused' \in Seq(UsableBlock)
           /\ InOrder'
           /\ Covered(Range(unused')) = Covered(Range(unused)) \cup (Last(unused).start .. last)
           /\ \A j \in DOMAIN unused' : j \in DOMAIN unused /\ unused'[j].start = unused[j].start
<1> DEFINE n == Len(unused)
<1>1. n \in Nat \ {0} /\ DOMAIN unused = 1 .. n /\ unused \in Seq(UsableBlock) /\ n \in DOMAIN unused
    BY BlockFields DEF ListInv
<1>2. /\ \A j \in 1 .. n : unused[j].start \in Int /\ unused[j].end \in Int /\ unused[j].start <= unused[j].end
      /\ \A j, k \in 1 .. n : j < k => unused[j].end + 1 < unused[k].start
      /\ unused[n] \in UsableBlock /\ Last(unused) = unused[n]
    BY <1>1, BlockFields DEF InOrder, Last
<1>3. /\ DOMAIN unused' = 1 .. n
      /\ \A j \in 1 .. n : j # n => unused'[j] = unused[j]
      /\ unused'[n] = [unused[n] EXCEPT !.end = last]
    BY <1>1
<1>4. unused'[n].start = unused[n].start /\ unused'[n].end = last /\ unused'[n] \in UsableBlock
    BY <1>2, <1>3 DEF UsableBlock
<1>5. unused' \in Seq(UsableBlock)
    <2>1. [unused EXCEPT ![n] = unused'[n]] \in Seq(UsableBlock)
        BY <1>1, <1>4
    <2>2. unused' = [unused EXCEPT ![n] = unused'[n]]
        BY <1>1, <1>3
    <2> QED BY <2>1, <2>2
<1>6. InOrder'
    <2>1. \A j \in 1 .. n : unused'[j].start = unused[j].start /\ unused'[j].start <= unused'[j].end
        BY <1>1, <1>2, <1>3, <1>4
    <2>2. ASSUME NEW j \in 1 .. n, NEW k \in 1 .. n, j < k PROVE unused'[j].end + 1 < unused'[k].start
        <3>1. j # n
            BY <1>1, <2>2
        <3> QED BY <1>2, <1>3, <2>1, <2>2, <3>1
    <2> QED BY <1>3, <2>1, <2>2 DEF InOrder
<1>7. ASSUME NEW b
      PROVE  b \in Covered(Range(unused')) <=> b \in Covered(Range(unused)) \cup (Last(unused).start .. last)
    <2>1. b \in Covered(Range(unused')) <=> \E j \in 1 .. n : b \in unused'[j].start .. unused'[j].end
        <3>1. b \in Covered(Range(unused')) <=> \E j \in DOMAIN unused' : b \in unused'[j].start .. unused'[j].end
            BY DEF Covered, Range
        <3> QED BY <1>3, <3>1
    <2>2. b \in Covered(Range(unused)) <=> \E j \in 1 .. n : b \in unused[j].start .. unused[j].end
        BY <1>1, CoveredByList
    <2>3. b \in unused[n].start .. unused[n].end => b \in unused'[n].start .. unused'[n].end
        BY <1>1, <1>2, <1>4
    <2>4. b \in unused'[n].start .. unused'[n].end <=> b \in Last(unused).start .. last
        BY <1>2, <1>4
    <2> QED BY <1>1, <1>3, <2>1, <2>2, <2>3, <2>4
<1> QED BY <1>1, <1>3, <1>4, <1>5, <1>6, <1>7
-----------------------------------------------------------------------------
\* One round of sortAndCombineUsableBlocks: as the block is a lowest of those
\* left, it starts no earlier than the last one made, and either goes behind it
\* or into it.
LEMMA CombineStep ==
    ASSUME ListInv, CombineNext
    PROVE  ListInv'
<1>1. PICK block \in rest : Lowest(block) /\ unused' = Combine(unused, block) /\ rest' = rest \ {block}
    BY DEF CombineNext
<1>2. /\ loop = "combine" /\ loop' = loop /\ pc' = pc /\ pc = "allocate" /\ free' = free /\ prevEnd' = prevEnd
      /\ table' = table
    BY DEF CombineNext, plannerVars, locals, ListInv
<1>3. /\ free = Covered(Range(unused)) \cup Covered(rest) /\ InOrder
      /\ \A b \in rest : b.start <= b.end
      /\ \A j \in DOMAIN unused : \A b \in rest : unused[j].start <= b.start
    BY <1>2 DEF ListInv, CombinedSoFar
<1>4. rest \subseteq UsableBlock /\ block \in UsableBlock /\ block.start \in Int /\ block.end \in Int
    BY DEF ListInv, UsableBlock
<1>5. \A b \in rest : block.start <= b.start
    BY <1>1 DEF Lowest
<1>6. Covered(rest) = Covered(rest') \cup (block.start .. block.end)
    BY <1>1 DEF Covered
<1>7. SUFFICES /\ unused' \in Seq(UsableBlock) /\ InOrder'
               /\ free = Covered(Range(unused')) \cup Covered(rest')
               /\ \A j \in DOMAIN unused' : \A b \in rest' : unused'[j].start <= b.start
    BY <1>1, <1>2, <1>3, <1>4 DEF ListInv, CombinedSoFar, GapsSoFar, ListAgrees
<1>8. \A j \in DOMAIN unused : j \in 1 .. Len(unused) /\ unused[j].start \in Int /\ unused[j].end \in Int
    BY BlockFields
<1>9. CASE unused = <<>> \/ ~Joins(Last(unused), block)
    <2>1. unused' = Append(unused, block)
        BY <1>1, <1>9 DEF Combine
    <2>2. ASSUME NEW j \in DOMAIN unused PROVE unused[j].end + 1 < block.start
        <3>1. unused # <<>> /\ Len(unused) \in DOMAIN unused
            BY <1>8, BlockFields
        <3>2. unused[Len(unused)].end + 1 < block.start
            BY <1>4, <1>8, <1>9, <3>1 DEF Joins, Last
        <3>3. j = Len(unused) \/ j < Len(unused)
            BY <1>8, BlockFields
        <3>4. j < Len(unused) => unused[j].end + 1 < unused[Len(unused)].start
            BY <1>3, <3>1 DEF InOrder
        <3>5. unused[Len(unused)].start <= unused[Len(unused)].end
            BY <1>3, <3>1 DEF InOrder
        <3> QED BY <1>4, <1>8, <3>1, <3>2, <3>3, <3>4, <3>5
    <2>3. block.start <= block.end
        BY <1>3
    <2>4. /\ unused' \in Seq(UsableBlock) /\ InOrder'
          /\ Covered(Range(unused')) = Covered(Range(unused)) \cup (block.start .. block.end)
          /\ \A j \in DOMAIN unused' : unused'[j] = block \/ (j \in DOMAIN unused /\ unused'[j] = unused[j])
        BY <1>3, <1>4, <2>1, <2>2, <2>3, BlockAppended
    <2>5. \A j \in DOMAIN unused' : \A b \in rest' : unused'[j].start <= b.start
        BY <1>1, <1>3, <1>5, <2>4
    <2> QED BY <1>3, <1>6, <2>4, <2>5
<1>10. CASE unused # <<>> /\ Joins(Last(unused), block)
    <2>1. /\ Len(unused) \in DOMAIN unused
          /\ Last(unused) = unused[Len(unused)]
        BY <1>10, BlockFields DEF Last
    <2> DEFINE last == IF block.end > Last(unused).end THEN block.end ELSE Last(unused).end
    <2>2. unused' = [unused EXCEPT ![Len(unused)].end = last]
        BY <1>1, <1>10, <2>1 DEF Combine
    <2>3. last \in Int /\ last >= Last(unused).end /\ last >= block.end
        BY <1>4, <1>8, <2>1
    <2>4. last = block.end \/ last = Last(unused).end
        OBVIOUS
    <2> HIDE DEF last
    <2>5. /\ unused' \in Seq(UsableBlock) /\ InOrder'
          /\ Covered(Range(unused')) = Covered(Range(unused)) \cup (Last(unused).start .. last)
          /\ \A j \in DOMAIN unused' : j \in DOMAIN unused /\ unused'[j].start = unused[j].start
        BY <1>3, <1>10, <2>2, <2>3, LastExtended
    <2>6. Last(unused).start <= block.start /\ block.start <= Last(unused).end + 1
        BY <1>3, <1>4, <1>8, <1>10, <2>1 DEF Joins
    <2>7. Last(unused).start .. Last(unused).end \subseteq Covered(Range(unused))
        BY <2>1, CoveredByList
    <2>8. Last(unused).start .. last = (Last(unused).start .. Last(unused).end) \cup (block.start .. block.end)
        BY <1>3, <1>4, <1>8, <2>1, <2>3, <2>4, <2>6
    <2>9. \A j \in DOMAIN unused' : \A b \in rest' : unused'[j].start <= b.start
        BY <1>1, <1>3, <2>5
    <2> QED BY <1>3, <1>6, <2>5, <2>7, <2>8, <2>9
<1> QED BY <1>9, <1>10
-----------------------------------------------------------------------------
LEMMA UsedIs ==
    ASSUME PlanInv, NEW p \in table
    PROVE  /\ p.start \in Nat /\ p.size \in Nat \ {0}
           /\ Used(p) \in UsableBlock /\ Used(p).start = p.start /\ Used(p).end = p.start + p.size - 1
           /\ p.start <= Used(p).end /\ Used(p).end < DiskSize
           /\ Extent(p) = p.start .. Used(p).end
<1>1. p.start \in Nat /\ p.size \in Nat \ {0}
    BY DEF PlanInv, TypeOK, Entry
<1>2. p.start + p.size <= DiskSize /\ DiskSize \in Nat
    BY SizeAssumption DEF PlanInv, SoundTable
<1>3. Used(p).start = p.start /\ Used(p).end = p.start + p.size - 1
    BY DEF Used, Block
<1>4. Used(p) \in UsableBlock
    BY <1>1 DEF Used, Block, UsableBlock
<1> QED BY <1>1, <1>2, <1>3, <1>4 DEF Extent, Bytes

\* Of two partitions, the one that starts first ends before the other starts.
LEMMA UsedApart ==
    ASSUME PlanInv, NEW p \in table, NEW q \in table, p # q, p.start <= q.start
    PROVE  Used(p).end < q.start
<1>1. Extent(p) \cap Extent(q) = {}
    BY DEF PlanInv, SoundTable
<1>2. /\ p.start \in Nat /\ q.start \in Nat /\ Used(p).end \in Int /\ Used(q).end \in Int
      /\ q.start <= Used(q).end
      /\ Extent(p) = p.start .. Used(p).end /\ Extent(q) = q.start .. Used(q).end
    BY UsedIs DEF UsableBlock
<1>3. q.start \in Extent(q) /\ q.start \notin Extent(p)
    BY <1>1, <1>2
<1> QED BY <1>2, <1>3

\* What computeUnused has to find out, from the partitions it went through.
LEMMA GapFacts ==
    ASSUME PlanInv, ListInv, loop = "gaps"
    PROVE  /\ pc = "allocate" /\ InOrder /\ prevEnd \in Nat
           /\ \A b : b \in free <=> b \in 1 .. DiskSize - 1 /\ \A p \in table : b \notin p.start .. Used(p).end
           /\ free \cap (1 .. prevEnd) = Covered(Range(unused))
           /\ \A j \in DOMAIN unused : unused[j].end < prevEnd /\ unused[j].end \in Int /\ unused[j].start \in Int
           /\ \A p \in table : IF Used(p) \in rest THEN prevEnd < p.start ELSE Used(p).end <= prevEnd
<1>1. /\ pc = "allocate" /\ InOrder /\ prevEnd \in Nat /\ GapsSoFar
    BY DEF ListInv
<1>2. \A b : b \in UNION {Extent(p) : p \in table} <=> \E p \in table : b \in p.start .. Used(p).end
    BY UsedIs
<1>3. \A b : b \in free <=> b \in 1 .. DiskSize - 1 /\ \A p \in table : b \notin p.start .. Used(p).end
    BY <1>1, <1>2 DEF GapsSoFar
<1> QED BY <1>1, <1>3, BlockFields DEF GapsSoFar

\* A stretch of bytes put on the list, or none if it is empty.
LEMMA GapAppended ==
    ASSUME PlanInv, ListInv, loop = "gaps", NEW last \in Int,
           IF prevEnd < last THEN unused' = Append(unused, Block(prevEnd + 1, last)) ELSE unused' = unused
    PROVE  /\ unused' \in Seq(UsableBlock)
           /\ InOrder'
           /\ Covered(Range(unused')) = Covered(Range(unused)) \cup (prevEnd + 1 .. last)
           /\ \A j \in DOMAIN unused' : unused'[j].end < prevEnd \/ (unused'[j].end = last /\ prevEnd < last)
<1>1. /\ InOrder /\ prevEnd \in Nat /\ unused \in Seq(UsableBlock)
      /\ \A j \in DOMAIN unused : unused[j].end < prevEnd /\ unused[j].end \in Int
    BY GapFacts DEF ListInv
<1> DEFINE block == Block(prevEnd + 1, last)
<1>2. block \in UsableBlock /\ block.start = prevEnd + 1 /\ block.end = last
    BY <1>1 DEF Block, UsableBlock
<1> HIDE DEF block
<1>3. CASE prevEnd < last
    <2>1. block.start <= block.end /\ \A j \in DOMAIN unused : unused[j].end + 1 < block.start
        BY <1>1, <1>2, <1>3
    <2>2. unused' = Append(unused, block)
        BY <1>3 DEF block
    <2>3. /\ unused' \in Seq(UsableBlock) /\ InOrder'
          /\ Covered(Range(unused')) = Covered(Range(unused)) \cup (block.start .. block.end)
          /\ \A j \in DOMAIN unused' : unused'[j] = block \/ (j \in DOMAIN unused /\ unused'[j] = unused[j])
        BY <1>1, <1>2, <2>1, <2>2, BlockAppended
    <2> QED BY <1>1, <1>2, <1>3, <2>3
<1>4. CASE ~(prevEnd < last)
    <2>1. unused' = unused /\ prevEnd + 1 .. last = {}
        BY <1>1, <1>4
    <2> QED BY <1>1, <2>1 DEF InOrder
<1> QED BY <1>3, <1>4

\* One round of computeUnused: between prevEnd and the next used block all
\* bytes are free, and no more until that ends.
LEMMA GapStep ==
    ASSUME PlanInv, ListInv, NextUsed
    PROVE  ListInv'
<1>1. /\ loop = "gaps" /\ loop' = loop /\ UNCHANGED <<pc, free, table>>
    BY DEF NextUsed, plannerVars, locals
<1>2. PICK block \in rest :
        /\ Lowest(block) /\ rest' = rest \ {block} /\ prevEnd' = block.end
        /\ unused' = IF Gap(block) THEN Append(unused, Block(prevEnd + 1, block.start - 1)) ELSE unused
    BY DEF NextUsed
<1>3. PICK p \in table : block = Used(p)
    BY <1>1 DEF ListInv, GapsSoFar
<1>4. /\ block.start = p.start /\ p.start \in Nat /\ block.end \in Int /\ p.start <= block.end
      /\ prevEnd < p.start /\ prevEnd \in Nat /\ DiskSize \in Nat /\ block.end < DiskSize
    BY <1>1, <1>3, GapFacts, UsedIs, SizeAssumption DEF UsableBlock
<1>5. IF prevEnd < p.start - 1 THEN unused' = Append(unused, Block(prevEnd + 1, p.start - 1)) ELSE unused' = unused
    BY <1>2, <1>4 DEF Gap
<1>6. /\ unused' \in Seq(UsableBlock) /\ InOrder'
      /\ Covered(Range(unused')) = Covered(Range(unused)) \cup (prevEnd + 1 .. p.start - 1)
      /\ \A j \in DOMAIN unused' :
            unused'[j].end < prevEnd \/ (unused'[j].end = p.start - 1 /\ prevEnd < p.start - 1)
    <2>1. p.start - 1 \in Int
        BY <1>4
    <2> QED BY <1>1, <1>5, <2>1, GapAppended
<1>7. \A j \in DOMAIN unused' : unused'[j].end < prevEnd'
    <2> SUFFICES ASSUME NEW j \in DOMAIN unused' PROVE unused'[j].end < block.end
        BY <1>2
    <2>1. unused'[j] \in UsableBlock
        BY <1>6
    <2>2. unused'[j].end \in Int
        BY <2>1 DEF UsableBlock
    <2> QED BY <1>4, <1>6, <2>2
<1>8. ASSUME NEW q \in table
      PROVE  IF Used(q) \in rest' THEN prevEnd' < q.start ELSE Used(q).end <= prevEnd'
    <2>1. /\ q.start \in Nat /\ Used(q).end \in Int /\ Used(q).start = q.start
          /\ IF Used(q) \in rest THEN prevEnd < q.start ELSE Used(q).end <= prevEnd
        BY <1>1, GapFacts, UsedIs DEF UsableBlock
    <2>2. CASE Used(q) \in rest'
        <3>1. p # q /\ p.start <= q.start
            BY <1>2, <1>3, <1>4, <2>1, <2>2 DEF Lowest
        <3> QED BY <1>2, <1>3, <2>2, <3>1, UsedApart
    <2>3. CASE Used(q) \notin rest'
        BY <1>2, <1>4, <2>1, <2>3
    <2> QED BY <2>2, <2>3
<1>9. free \cap (1 .. block.end) = Covered(Range(unused'))
    <2> SUFFICES ASSUME NEW b
                 PROVE  b \in free /\ b \in 1 .. block.end <=>
                            b \in Covered(Range(unused)) \/ b \in prevEnd + 1 .. p.start - 1
        BY <1>6
    <2>1. /\ b \in free <=> b \in 1 .. DiskSize - 1 /\ \A q \in table : b \notin q.start .. Used(q).end
          /\ b \in Covered(Range(unused)) <=> b \in free /\ b \in 1 .. prevEnd
        BY <1>1, GapFacts
    <2>2. ASSUME b \in prevEnd + 1 .. p.start - 1, NEW q \in table PROVE b \notin q.start .. Used(q).end
        <3>1. /\ q.start \in Nat /\ Used(q).end \in Int /\ Used(q).start = q.start
              /\ IF Used(q) \in rest THEN prevEnd < q.start ELSE Used(q).end <= prevEnd
            BY <1>1, GapFacts, UsedIs DEF UsableBlock
        <3>2. Used(q) \in rest => p.start <= q.start
            BY <1>2, <1>4, <3>1 DEF Lowest
        <3> QED BY <1>4, <2>2, <3>1, <3>2
    <2>3. b \in prevEnd + 1 .. p.start - 1 => b \in 1 .. DiskSize - 1 /\ b \in 1 .. block.end
        BY <1>4
    <2>4. b \in 1 .. prevEnd => b \in 1 .. block.end
        BY <1>4
    <2>5. b \in 1 .. block.end => b \in 1 .. prevEnd \/ b \in prevEnd + 1 .. p.start - 1 \/ b \in p.start .. Used(p).end
        BY <1>3, <1>4
    <2> QED BY <2>1, <2>2, <2>3, <2>4, <2>5
<1>10. rest' \subseteq rest /\ rest \subseteq UsableBlock /\ prevEnd' \in Nat
    BY <1>2, <1>4 DEF ListInv
<1>11. GapsSoFar'
    <2>1. rest' \subseteq {Used(q) : q \in table}
        BY <1>1, <1>10 DEF ListInv, GapsSoFar
    <2>2. free = (1 .. DiskSize - 1) \ UNION {Extent(q) : q \in table}
        BY <1>1 DEF ListInv, GapsSoFar
    <2> QED BY <1>1, <1>2, <1>7, <1>8, <1>9, <2>1, <2>2 DEF GapsSoFar, Range
<1> QED BY <1>1, <1>6, <1>10, <1>11 DEF ListInv, CombinedSoFar, ListAgrees

\* And behind the last one.
LEMMA GapLast ==
    ASSUME PlanInv, ListInv, AfterLastUsed
    PROVE  ListInv'
<1>1. /\ loop = "gaps" /\ loop' = "items" /\ rest = {} /\ UNCHANGED <<pc, free, table, rest, prevEnd>>
      /\ unused' = IF prevEnd < DiskSize - 1 THEN Append(unused, Block(prevEnd + 1, DiskSize - 1)) ELSE unused
    BY DEF AfterLastUsed, plannerVars, locals
<1>2. DiskSize - 1 \in Int /\ prevEnd \in Nat
    BY <1>1, SizeAssumption DEF ListInv
<1>3. /\ unused' \in Seq(UsableBlock) /\ InOrder'
      /\ Covered(Range(unused')) = Covered(Range(unused)) \cup (prevEnd + 1 .. DiskSize - 1)
    BY <1>1, <1>2, GapAppended
<1>4. ASSUME NEW b
      PROVE  b \in free <=> b \in Covered(Range(unused)) \/ b \in prevEnd + 1 .. DiskSize - 1
    <2>1. /\ b \in free <=> b \in 1 .. DiskSize - 1 /\ \A q \in table : b \notin q.start .. Used(q).end
          /\ b \in Covered(Range(unused)) <=> b \in free /\ b \in 1 .. prevEnd
        BY <1>1, GapFacts
    <2>2. ASSUME b \in prevEnd + 1 .. DiskSize - 1, NEW q \in table PROVE b \notin q.start .. Used(q).end
        <3>1. q.start \in Nat /\ Used(q).end \in Int /\ Used(q).end <= prevEnd
            BY <1>1, GapFacts, UsedIs DEF UsableBlock
        <3> QED BY <1>2, <2>2, <3>1
    <2>3. b \in prevEnd + 1 .. DiskSize - 1 => b \in 1 .. DiskSize - 1
        BY <1>2
    <2>4. b \in 1 .. DiskSize - 1 => b \in 1 .. prevEnd \/ b \in prevEnd + 1 .. DiskSize - 1
        BY <1>2
    <2> QED BY <2>1, <2>2, <2>3, <2>4
<1>5. free = Covered(Range(unused'))
    BY <1>3, <1>4
<1> QED BY <1>1, <1>3, <1>5 DEF ListInv, GapsSoFar, CombinedSoFar, ListAgrees, Range
-----------------------------------------------------------------------------
\* Both loops begin with all there is to go through.
LEMMA ListBegins ==
    ASSUME PlanInv, ListInv, NEW items, BeginLayout(items), ComputeUnused
    PROVE  ListInv'
<1>1. /\ pc' = "allocate" /\ loop' = "gaps" /\ rest' = {Used(p) : p \in table} /\ prevEnd' = 0 /\ unused' = <<>>
      /\ free' = (1 .. DiskSize - 1) \ UNION {Extent(p) : p \in table} /\ table' = table
    BY DEF BeginLayout, ComputeUnused
<1>2. \A p \in table : p.start > 0
    BY DEF ListInv
<1>3. unused' \in Seq(UsableBlock) /\ InOrder' /\ Covered(Range(unused')) = {} /\ DOMAIN unused' = {}
    BY <1>1 DEF InOrder, Covered, Range
<1>4. GapsSoFar'
    <2>1. free' \cap (1 .. prevEnd') = Covered(Range(unused'))
        BY <1>1, <1>3
    <2>2. \A p \in table : Used(p) \in rest' /\ prevEnd' < p.start
        BY <1>1, <1>2
    <2> QED BY <1>1, <1>3, <2>1, <2>2 DEF GapsSoFar
<1>5. rest' \subseteq UsableBlock /\ prevEnd' \in Nat
    BY <1>1, UsedIs
<1>6. CombinedSoFar' /\ ListAgrees'
    BY <1>1 DEF CombinedSoFar, ListAgrees
<1> QED BY <1>1, <1>2, <1>3, <1>4, <1>5, <1>6 DEF ListInv

LEMMA ItemAtHand ==
    ASSUME PlanInv, LayingOut
    PROVE  /\ pc = "allocate" /\ todo[i] \in Item
           /\ todo[i].original.start \in Nat /\ todo[i].original.size \in Nat \ {0}
           /\ todo[i].target.size \in Int
<1>1. pc = "allocate" /\ i \in 1 .. Len(todo) /\ todo \in Seq(Item)
    BY DEF PlanInv, TypeOK, LocalsTypeOK, LayingOut
<1>2. todo[i] \in Item
    BY <1>1
<1> QED BY <1>1, <1>2, ItemFields

LEMMA ShrinkStep ==
    ASSUME PlanInv, ListInv, ShrinkInPlace
    PROVE  ListInv'
<1> DEFINE given == GivenBack(todo[i])
<1>1. /\ loop = "items" /\ pc = "allocate" /\ pc' = pc /\ table' = table /\ prevEnd' = prevEnd
      /\ free' = free \cup Freed(todo[i]) /\ InPlace(todo[i])
      /\ loop' = "combine" /\ rest' = Range(unused) \cup {given} /\ unused' = <<>>
    BY DEF ShrinkInPlace, LayOutShrink, LayingOut, Settle
<1>2. /\ todo[i].original.start \in Nat /\ todo[i].original.size \in Nat \ {0} /\ todo[i].target.size \in Int
      /\ todo[i].target.size < todo[i].original.size
    BY <1>1, ItemAtHand DEF ShrinkInPlace, LayOutShrink, InPlace
<1>3. given \in UsableBlock /\ given.start <= given.end /\ given.start .. given.end = Freed(todo[i])
    BY <1>2 DEF GivenBack, Block, UsableBlock, Freed
<1> HIDE DEF given
<1>4. \A b \in Range(unused) : b \in UsableBlock /\ b.start <= b.end
    BY <1>1, BlockFields DEF ListInv, ListAgrees, InOrder, Range
<1>5. free = Covered(Range(unused))
    BY <1>1 DEF ListInv, ListAgrees
<1>6. Covered(rest') = Covered(Range(unused)) \cup (given.start .. given.end)
    BY <1>1 DEF Covered
<1>7. unused' \in Seq(UsableBlock) /\ DOMAIN unused' = {} /\ InOrder' /\ Covered(Range(unused')) = {}
    BY <1>1 DEF InOrder, Covered, Range
<1>8. CombinedSoFar'
    BY <1>1, <1>3, <1>4, <1>5, <1>6, <1>7 DEF CombinedSoFar
<1> QED BY <1>1, <1>3, <1>4, <1>7, <1>8 DEF ListInv, GapsSoFar, ListAgrees

LEMMA CombinedStep ==
    ASSUME ListInv, Combined
    PROVE  ListInv'
<1>1. /\ loop = "combine" /\ loop' = "items" /\ rest = {}
      /\ UNCHANGED <<pc, free, table, unused, rest, prevEnd>>
    BY DEF Combined, plannerVars, locals
<1>2. Covered(rest) = {}
    BY <1>1 DEF Covered
<1>3. pc = "allocate" /\ InOrder /\ free = Covered(Range(unused))
    BY <1>1, <1>2 DEF ListInv, CombinedSoFar
<1> QED BY <1>1, <1>3 DEF ListInv, GapsSoFar, CombinedSoFar, ListAgrees, InOrder, Range

\* A grow takes the head of the first block that has room, which is first fit.
LEMMA TakeStep ==
    ASSUME PlanInv, ListInv, TakeFirstFit
    PROVE  LayOutGrow /\ ListInv'
<1> DEFINE size == todo[i].target.size
<1>1. /\ loop = "items" /\ LayingOut /\ ~InPlace(todo[i]) /\ loop' = loop /\ rest' = rest /\ prevEnd' = prevEnd
    BY DEF TakeFirstFit, loopVars
<1>2. PICK j \in FirstWithRoom(size) : GiveSpace(unused[j].start) /\ unused' = WithoutHead(j, size)
    BY DEF TakeFirstFit
<1>3. size \in Int /\ size > 0 /\ pc = "allocate"
    BY <1>1, ItemAtHand DEF InPlace
<1>4. pc' = pc /\ table' = table /\ free' = free \ Bytes(unused[j].start, size)
    BY <1>2 DEF GiveSpace, Settle
<1> HIDE DEF size
<1>5. j \in DOMAIN unused /\ HasRoom(unused[j], size)
    BY <1>2 DEF FirstWithRoom
<1>6. InOrder /\ free = Covered(Range(unused))
    BY <1>1, <1>3 DEF ListInv, ListAgrees
<1>7. /\ unused' \in Seq(UsableBlock) /\ InOrder'
      /\ Covered(Range(unused')) = Covered(Range(unused)) \ Bytes(unused[j].start, size)
    BY <1>2, <1>3, <1>5, <1>6, HeadRemoved
<1>8. LayOutGrow
    <2>1. unused[j].start \in Fits(size) /\ \A s \in Fits(size) : unused[j].start <= s
        BY <1>1, <1>2, <1>3, FirstIsLowest
    <2> QED BY <1>1, <1>2, <2>1 DEF LayOutGrow, size
<1>9. ListAgrees'
    BY <1>4, <1>6, <1>7 DEF ListAgrees
<1> QED BY <1>1, <1>3, <1>4, <1>7, <1>8, <1>9 DEF ListInv, GapsSoFar, CombinedSoFar

LEMMA NotFoundIsNoRoom ==
    ASSUME PlanInv, ListInv, NotFound
    PROVE  NoRoom
<1>1. /\ loop = "items" /\ LayingOut /\ ~InPlace(todo[i]) /\ FirstWithRoom(todo[i].target.size) = {}
    BY DEF NotFound
<1>2. todo[i].target.size \in Int /\ todo[i].target.size > 0 /\ pc = "allocate"
    BY <1>1, ItemAtHand DEF InPlace
<1> QED BY <1>1, <1>2, FirstIsLowest DEF NoRoom
-----------------------------------------------------------------------------
LEMMA ListInitially == ListInit => ListInv
<1> SUFFICES ASSUME ListInit PROVE ListInv
    OBVIOUS
<1>1. /\ unused = <<>> /\ loop = "items" /\ rest = {} /\ prevEnd = 0 /\ pc = "off" /\ table \in Layouts
    BY DEF ListInit, Init
<1>2. ASSUME NEW p \in table PROVE p.start > 0
    <2>1. p.start \in Nat /\ p.size \in Nat \ {0} /\ Extent(p) \subseteq Usable
        BY <1>1, LayoutAssumption DEF Entry
    <2>2. p.start \in Extent(p)
        BY <2>1 DEF Extent, Bytes
    <2> QED BY <2>1, <2>2, SizeAssumption DEF Usable
<1> QED BY <1>1, <1>2 DEF ListInv, GapsSoFar, CombinedSoFar, ListAgrees

\* No step that is not one of the loops' is other than Planner's.
LEMMA ListNextPlans ==
    ASSUME PlanInv, ListInv, [ListNext]_listVars
    PROVE  [Next]_plannerVars
<1>1. CASE Classify
    BY <1>1 DEF Classify, Next
<1>2. CASE FirstLayout \/ ShrinkInPlace
    BY <1>2 DEF FirstLayout, ShrinkInPlace, Next
<1>3. CASE NextUsed \/ AfterLastUsed \/ CombineNext \/ Combined \/ UNCHANGED listVars
    BY <1>3 DEF NextUsed, AfterLastUsed, CombineNext, Combined, listVars
<1>4. CASE TakeFirstFit
    BY <1>4, TakeStep DEF Next
<1>5. CASE LayoutWithShrink \/ NoSpace
    BY <1>5, NotFoundIsNoRoom DEF LayoutWithShrink, NoSpace, RetryWithShrink, InsufficientSpace, Next
<1> QED BY <1>1, <1>2, <1>3, <1>4, <1>5 DEF ListNext

LEMMA ListNextKeeps ==
    ASSUME PlanInv, ListInv, [ListNext]_listVars
    PROVE  ListInv'
<1>1. CASE Classify
    <2>1. /\ pc' # "allocate" /\ table' = table /\ loop = "items"
          /\ UNCHANGED <<unused, loop, rest, prevEnd>>
        BY <1>1 DEF Classify, loopVars, Discover, NotDiscovered, SkipSatisfied, ReuseRelocated, QueuePending,
            Classifying, NothingPending, LayoutComplete
    <2> QED BY <2>1 DEF ListInv, GapsSoFar, CombinedSoFar, ListAgrees
<1>2. CASE FirstLayout
    BY <1>2, ListBegins DEF FirstLayout, FirstAttempt
<1>3. CASE LayoutWithShrink
    BY <1>3, ListBegins DEF LayoutWithShrink, Retry
<1>4. CASE NoSpace
    <2>1. /\ pc' = "failed" /\ table' = table /\ loop = "items" /\ UNCHANGED <<unused, loop, rest, prevEnd>>
        BY <1>4 DEF NoSpace, NotFound, GiveUp, loopVars
    <2> QED BY <2>1 DEF ListInv, GapsSoFar, CombinedSoFar, ListAgrees
<1>5. CASE UNCHANGED listVars
    BY <1>5 DEF listVars, loopVars, plannerVars, locals, ListInv, GapsSoFar, CombinedSoFar, ListAgrees, InOrder,
        Range
<1> QED BY <1>1, <1>2, <1>3, <1>4, <1>5, GapStep, GapLast, ShrinkStep, CombineStep, CombinedStep, TakeStep DEF ListNext

LEMMA ListInvariant == ListSpec => [](PlanInv /\ ListInv)
<1>1. ListInit => PlanInv /\ ListInv
    BY SafeInit, ListInitially DEF ListInit
<1>2. PlanInv /\ ListInv /\ [ListNext]_listVars => (PlanInv /\ ListInv)'
    BY ListNextPlans, ListNextKeeps, SafeNext
<1> QED BY <1>1, <1>2, PTL DEF ListSpec

\* Every round of computeUnused and sortAndCombineUsableBlocks keeps the list in
\* order, and it stands for the bytes they went through.
THEOREM ListKeepsItsLoops == ListSpec => []ListInv
BY ListInvariant, PTL

\* Whenever calculateResizes looks at its list, the list is the maximal runs of
\* the free bytes, in order, whatever was taken and given back, also where one
\* partition is named twice and gives back what is free already.
THEOREM ListIsTheFreeSpace == ListSpec => []ListAgrees
<1>1. ListInv => ListAgrees
    BY DEF ListInv
<1> QED BY <1>1, ListKeepsItsLoops, PTL

\* Planning with the list of blocks is planning with the set of free bytes: the
\* first block with room is the lowest run with room, and there is none only if
\* no run has room.
THEOREM ListPlansAlike == ListSpec => ImplementsPlanner
<1>1. ListInit => Init
    BY DEF ListInit
<1>2. PlanInv /\ ListInv /\ [ListNext]_listVars => [Next]_plannerVars
    BY ListNextPlans
<1> QED BY <1>1, <1>2, ListInvariant, PTL DEF ListSpec, ImplementsPlanner, Spec

\* So what is proved of Planner is true of plans made with the list.
THEOREM ListPlansSafely == ListSpec => [](TypeOK /\ PlanIsSafe /\ SpaceAccounted /\ ShrinkMakesRoom)
<1>1. Spec => [](TypeOK /\ PlanIsSafe /\ SpaceAccounted /\ ShrinkMakesRoom)
    BY TypeCorrect, PlanSafe, FreeSpaceAccounted, ShrinkAlwaysMakesRoom, PTL
<1> QED BY <1>1, ListPlansAlike, PTL DEF ImplementsPlanner
=============================================================================
