---------------------------- MODULE WriteProofs ----------------------------
(***************************************************************************)
(* The two ways in which what Resizer writes reaches the disk: TableWrite, *)
(* for every set of tables, every order the runs write them in, and every  *)
(* bound on stops; and CopyRange, which leaves a beginning of the copy     *)
(* wherever it stops, and all of it that the source has when it succeeds,  *)
(* for every buffer, range and file size.                                  *)
(***************************************************************************)
EXTENDS TableWrite, CopyRange, TLAPS

LEMMA InitialTable == TableInit => TableInv
  BY TablesAssumption, StopsAssumption
  DEF TableInit, TableInv, TableTypeOK, Reached, PrimaryUntouched, CopiesAgree, Valid, Copies, Steps

\* A run reads the table and ends; neither changes what is on the disk.
LEMMA KeepsInvOpenClose == TableInv /\ (OpenDisk \/ CloseDisk) => TableInv'
<1> SUFFICES ASSUME TableInv, OpenDisk \/ CloseDisk PROVE TableInv'
  OBVIOUS
<1> USE TablesAssumption, StopsAssumption
<1>1. CASE OpenDisk
  BY <1>1 DEF OpenDisk, TableInv, TableTypeOK, Reached, PrimaryUntouched, CopiesAgree, Valid,
              Read, Copies, Steps
<1>2. CASE CloseDisk
  BY <1>2 DEF CloseDisk, TableInv, TableTypeOK, Reached, PrimaryUntouched, CopiesAgree, Valid,
              Copies, Steps
<1> QED BY <1>1, <1>2

LEMMA KeepsInvBegin == ASSUME TableInv, NEW t \in Tables, BeginWrite(t) PROVE TableInv'
  BY TablesAssumption, StopsAssumption
  DEF BeginWrite, TableInv, TableTypeOK, Reached, PrimaryUntouched, CopiesAgree, Valid,
      Copies, Steps

\* One copy is changed at a time, the other keeps the table it has.
LEMMA KeepsInvWrite ==
  TableInv /\ (WriteSomeEntries \/ WriteOtherEntries \/ WriteHeader \/ WriteMBR) => TableInv'
<1> SUFFICES ASSUME TableInv, WriteSomeEntries \/ WriteOtherEntries \/ WriteHeader \/ WriteMBR
             PROVE TableInv'
  OBVIOUS
<1> USE TablesAssumption, StopsAssumption
<1>0. step # "idle" => writing \in Tables
  BY DEF TableInv, TableTypeOK
<1>1. CASE WriteSomeEntries
  BY <1>0, <1>1 DEF WriteSomeEntries, TableInv, TableTypeOK, Reached, PrimaryUntouched,
                    CopiesAgree, Valid, CopyOf, After, Copies, Steps
<1>2. CASE WriteOtherEntries
  BY <1>0, <1>2 DEF WriteOtherEntries, TableInv, TableTypeOK, Reached, PrimaryUntouched,
                    CopiesAgree, Valid, CopyOf, After, Copies, Steps
<1>3. CASE WriteHeader
  BY <1>0, <1>3 DEF WriteHeader, TableInv, TableTypeOK, Reached, PrimaryUntouched,
                    CopiesAgree, Valid, CopyOf, After, Copies, Steps
<1>4. CASE WriteMBR
  BY <1>0, <1>4 DEF WriteMBR, TableInv, TableTypeOK, Reached, PrimaryUntouched,
                    CopiesAgree, Valid, Copies, Steps
<1> QED BY <1>1, <1>2, <1>3, <1>4

\* Wherever the first stop falls, one of the copies is whole.
LEMMA KeepsInvStop == TableInv /\ Stop => TableInv'
  BY TablesAssumption, StopsAssumption
  DEF Stop, TableInv, TableTypeOK, Reached, PrimaryUntouched, CopiesAgree, Valid, Copies, Steps

\* The invariant of the table writes.
THEOREM TableInvariant == TableSpec => []TableInv
<1>1. TableInv /\ [TableNext]_tableVars => TableInv'
  <2> SUFFICES ASSUME TableInv, [TableNext]_tableVars PROVE TableInv'
    OBVIOUS
  <2>1. CASE UNCHANGED tableVars
    BY <2>1 DEF tableVars, TableInv, TableTypeOK, Reached, PrimaryUntouched, CopiesAgree, Valid
  <2>2. CASE TableNext
    BY <2>2, KeepsInvOpenClose, KeepsInvBegin, KeepsInvWrite, KeepsInvStop DEF TableNext
  <2> QED BY <2>1, <2>2
<1> QED BY <1>1, InitialTable, PTL DEF TableSpec

\* After at most one stop inside a write there is a table to read, whatever the
\* tables and however often the runs before were stopped and then completed.
THEOREM TableRecoverable == TableSpec => []Recoverable
<1>1. TableInv => Recoverable
  <2> SUFFICES ASSUME TableInv, memory = NoTable, stops <= 1 PROVE Read # NoTable
    BY DEF Recoverable
  <2>1. writing = NoTable /\ stops \in {0, 1}
    BY DEF TableInv, TableTypeOK
  <2>2. Valid("primary") \/ Valid("backup")
    BY <2>1 DEF TableInv, CopiesAgree, Copies
  <2> QED BY <2>2, TablesAssumption DEF Read, Valid, TableInv, TableTypeOK, Copies
<1> QED BY <1>1, TableInvariant, PTL

\* The first stop inside a write leaves the old or the new table: seen by
\* whoever opens the disk next, the write is one step.
THEOREM WriteIsAtomic == TableSpec => OldOrNew
<1>1. TableInv /\ [TableNext]_tableVars => [Stop /\ stops = 0 => Read' \in {memory, writing}]_tableVars
  <2> SUFFICES ASSUME TableInv, Stop, stops = 0 PROVE Read' \in {memory, writing}
    OBVIOUS
  <2>1. step # "idle" /\ entries' = entries /\ header' = header
    BY DEF Stop, TableInv
  <2>2. CASE step \in {"backupEntries", "backupRest", "backupHeader", "primaryEntries"}
    BY <2>1, <2>2 DEF TableInv, PrimaryUntouched, Read, Valid
  <2>3. CASE step \in {"primaryRest", "primaryHeader", "mbr"}
    <3>1. entries["backup"] = writing /\ header["backup"] = writing
      BY <2>3 DEF TableInv, Reached
    <3>2. Valid("primary") => entries["primary"] \in {memory, writing}
      BY <2>3, TablesAssumption DEF TableInv, TableTypeOK, Reached, Valid, Copies
    <3> QED BY <2>1, <3>1, <3>2 DEF Read, Valid
  <2> QED BY <2>1, <2>2, <2>3 DEF TableInv, TableTypeOK, Steps
<1> QED BY <1>1, TableInvariant, PTL DEF TableSpec, OldOrNew

\* Between the writes of a run nobody stopped the copies agree.
THEOREM CopiesStayEqual == TableSpec => []CopiesAgree
<1>1. TableInv => CopiesAgree
  BY DEF TableInv
<1> QED BY <1>1, TableInvariant, PTL
-----------------------------------------------------------------------------
\* While the loop runs the destination is the copy of what it has counted.
CopyInv ==
    /\ call \in Calls
    /\ copied \in Nat
    /\ copied <= There
    /\ pc = "open" => dst = Untouched
    /\ pc = "open" => copied = 0
    /\ pc \in {"copy", "done"} => dst = Copied(copied)
    /\ pc = "done" => copied = There
    /\ CopiedPrefix

\* The arguments are numbers and the buffer has a byte.
LEMMA Arguments ==
    ASSUME call \in Calls
    PROVE  /\ call.srcOffset \in Nat /\ call.srcSize \in Nat /\ call.dstSize \in Nat
           /\ call.length \in Int /\ call.dstOffset \in Int
           /\ Offset \in Nat
           /\ Buffer \in Nat \ {0}
           /\ There \in Nat
BY CallsAssumption, SizesAssumption DEF Call, Offset, Buffer, There, Larger, Smaller

\* A round reads no more than is asked for and there.
LEMMA GotBounds ==
    ASSUME call \in Calls, copied \in Nat, copied < call.length
    PROVE  /\ Got \in Nat
           /\ copied + Got <= There \/ Got = 0
           /\ Got = 0 => call.srcSize - call.srcOffset <= copied
<1>1. Buffer \in Nat \ {0} /\ call.srcOffset \in Nat /\ call.srcSize \in Nat /\ call.length \in Int
    BY Arguments
<1> DEFINE buffer == Buffer
<1>2. buffer \in Nat \ {0} BY <1>1
<1>3. Got = Larger(0, Smaller(Smaller(buffer, call.length - copied),
                              call.srcSize - (call.srcOffset + copied)))
    BY DEF Got, ToRead, From
<1> HIDE DEF buffer
<1> QED BY <1>1, <1>2, <1>3 DEF There, Larger, Smaller

\* What is written behind a beginning of the copy is a longer beginning.
LEMMA WrittenBehind ==
    ASSUME call \in Calls, copied \in Nat, dst = Copied(copied), NEW n \in Nat
    PROVE  Written(n) = Copied(copied + n)
<1>1. CASE n = 0 BY <1>1 DEF Written
<1>2. CASE n # 0
    <2> DEFINE offset == Offset
               emptied == Emptied
    <2>1. offset \in Nat /\ call.srcOffset \in Nat BY Arguments
    <2>2. ASSUME NEW b \in 0 .. Span - 1
          PROVE  emptied[b] \in {Old, Absent}
        BY DEF Emptied
    <2>3. ASSUME NEW b \in 0 .. Span - 1
          PROVE  dst[b] = IF offset <= b /\ b < offset + copied
                          THEN call.srcOffset + (b - offset)
                          ELSE IF copied > 0 /\ emptied[b] = Absent /\ b < offset THEN Zero
                          ELSE emptied[b]
        BY DEF Copied
    <2>4. Written(n) =
            [b \in 0 .. Span - 1 |->
                IF offset + copied <= b /\ b < offset + copied + n
                THEN call.srcOffset + copied + (b - offset - copied)
                ELSE IF dst[b] = Absent /\ b < offset + copied THEN Zero
                ELSE dst[b]]
        BY <1>2 DEF Written, From
    <2>5. Copied(copied + n) =
            [b \in 0 .. Span - 1 |->
                IF offset <= b /\ b < offset + (copied + n)
                THEN call.srcOffset + (b - offset)
                ELSE IF copied + n > 0 /\ emptied[b] = Absent /\ b < offset THEN Zero
                ELSE emptied[b]]
        BY DEF Copied
    <2> HIDE DEF offset, emptied
    <2>6. ASSUME NEW b \in 0 .. Span - 1
          PROVE  (IF offset + copied <= b /\ b < offset + copied + n
                  THEN call.srcOffset + copied + (b - offset - copied)
                  ELSE IF dst[b] = Absent /\ b < offset + copied THEN Zero
                  ELSE dst[b])
                 = (IF offset <= b /\ b < offset + (copied + n)
                    THEN call.srcOffset + (b - offset)
                    ELSE IF copied + n > 0 /\ emptied[b] = Absent /\ b < offset THEN Zero
                    ELSE emptied[b])
        <3>1. b \in Int BY SizesAssumption
        <3>2. CASE offset <= b /\ b < offset + copied
            BY <1>2, <2>1, <2>3, <3>1, <3>2 DEF Absent
        <3>3. CASE offset + copied <= b BY <1>2, <2>1, <2>2, <2>3, <3>1, <3>3 DEF Absent, Zero, Old
        <3>4. CASE b < offset BY <1>2, <2>1, <2>2, <2>3, <3>1, <3>4 DEF Absent, Zero, Old
        <3> QED BY <2>1, <3>1, <3>2, <3>3, <3>4
    <2> QED BY <2>4, <2>5, <2>6
<1> QED BY <1>1, <1>2

\* An empty beginning is the destination when the loop begins.
LEMMA NothingCopied == ASSUME call \in Calls PROVE Copied(0) = Emptied
<1>1. Offset \in Nat BY Arguments
<1> DEFINE offset == Offset
<1>2. \A b \in 0 .. Span - 1 : ~(offset <= b /\ b < offset + 0)
    BY <1>1, SizesAssumption
<1>3. Copied(0) = [b \in 0 .. Span - 1 |-> Emptied[b]]
    BY <1>2 DEF Copied
<1> QED BY <1>3 DEF Emptied

LEMMA CopyInvInit == CopyInit => CopyInv
BY Arguments DEF CopyInit, CopyInv, CopiedPrefix

LEMMA CopyInvStep == CopyInv /\ [CopyNext]_copyVars => CopyInv'
<1> SUFFICES ASSUME CopyInv, [CopyNext]_copyVars PROVE CopyInv' OBVIOUS
<1>1. call \in Calls /\ copied \in Nat /\ There \in Nat BY Arguments DEF CopyInv
<1>2. CASE Open
    <2>1. dst' = Copied(0) /\ copied = 0 BY <1>1, <1>2, NothingCopied DEF Open, CopyInv
    <2>2. There' = There /\ \A n : Copied(n)' = Copied(n) 
        BY <1>2 DEF Open, There, Copied, Emptied, Offset
    <2> QED BY <1>1, <1>2, <2>1, <2>2 DEF Open, CopyInv, CopiedPrefix
<1>3. CASE CopyBlock
    <2>1. Got \in Nat /\ copied + Got <= There
        BY <1>1, <1>3, GotBounds DEF CopyBlock, AtEnd
    <2>2. dst' = Copied(copied + Got)
        BY <1>1, <1>3, <2>1, WrittenBehind DEF CopyBlock, CopyInv
    <2>3. There' = There /\ \A n : Copied(n)' = Copied(n) 
        BY <1>3 DEF CopyBlock, There, Copied, Emptied, Offset
    <2>4. copied' = copied + Got /\ pc' = "copy" /\ call' = call BY <1>3 DEF CopyBlock
    <2> DEFINE got == Got
    <2> HIDE DEF got
    <2>5. copied' \in Nat /\ copied' <= There /\ dst' = Copied(copied')
        BY <1>1, <2>1, <2>2, <2>4
    <2>6. CopiedPrefix' BY <1>1, <2>3, <2>5 DEF CopiedPrefix
    <2> QED BY <1>1, <2>3, <2>4, <2>5, <2>6 DEF CopyInv
<1>4. CASE Return
    <2>1. There' = There /\ Untouched' = Untouched /\ \A n : Copied(n)' = Copied(n) 
        BY <1>4 DEF Return, There, Untouched, Copied, Emptied, Offset
    <2>2. copied = There
        <3>1. copied <= There BY DEF CopyInv
        <3>2. CASE copied >= call.length
            BY <1>1, <3>1, <3>2, Arguments DEF There, Larger, Smaller
        <3>3. CASE copied < call.length
            <4>1. Got = 0 BY <1>1, <1>4, <3>3, Arguments DEF Return, AtEnd
            <4>2. call.srcSize - call.srcOffset <= copied BY <1>1, <3>3, <4>1, GotBounds
            <4> QED BY <1>1, <3>1, <4>2, Arguments DEF There, Larger, Smaller
        <3> QED BY <1>1, <3>2, <3>3, Arguments
    <2> QED BY <1>4, <2>1, <2>2 DEF Return, CopyInv, CopiedPrefix
<1>5. CASE Fails
    <2>1. There' = There /\ Untouched' = Untouched /\ \A n : Copied(n)' = Copied(n) 
        BY <1>5 DEF Fails, There, Untouched, Copied, Emptied, Offset
    <2>2. CopiedPrefix'
        <3>1. CASE UNCHANGED dst BY <2>1, <3>1 DEF CopiedPrefix, CopyInv
        <3>2. ASSUME pc = "copy", copied < call.length, NEW n \in 0 .. Got, dst' = Written(n)
              PROVE  CopiedPrefix'
            <4>1. Got \in Nat /\ (copied + Got <= There \/ Got = 0)
                BY <1>1, <3>2, GotBounds
            <4>2. dst' = Copied(copied + n)
                BY <1>1, <3>2, <4>1, WrittenBehind DEF CopyInv
            <4> DEFINE got == Got
            <4>3. got \in Nat /\ (copied + got <= There \/ got = 0) /\ n \in 0 .. got
                BY <4>1
            <4> HIDE DEF got
            <4>4. copied + n \in 0 .. There BY <1>1, <4>3 DEF CopyInv
            <4> QED BY <2>1, <4>2, <4>4 DEF CopiedPrefix
        <3> QED BY <1>5, <3>1, <3>2 DEF Fails
    <2> QED BY <1>5, <2>1, <2>2 DEF Fails, CopyInv
<1>6. CASE Kill
    BY <1>6 DEF Kill, CopyInv, CopiedPrefix, There, Untouched, Copied, Emptied, Offset
<1>7. CASE UNCHANGED copyVars
    BY <1>7 DEF copyVars, CopyInv, CopiedPrefix, There, Untouched, Copied, Emptied, Offset
<1> QED BY <1>2, <1>3, <1>4, <1>5, <1>6, <1>7 DEF CopyNext

LEMMA CopyInvariant == CopySpec => []CopyInv
BY CopyInvInit, CopyInvStep, PTL DEF CopySpec

\* Wherever CopyRange stops, by an error or a kill, the destination has a
\* beginning of the copy at its place and nothing else was touched.
THEOREM StopsAtAPrefix == CopySpec => []CopiedPrefix
<1>1. CopyInv => CopiedPrefix BY DEF CopyInv
<1> QED BY <1>1, CopyInvariant, PTL

\* A CopyRange that returns no error has copied the whole range if the source
\* has it, through whatever buffer; that it does so of a source that ends early
\* is what its comment says and does not hold.
THEOREM SuccessCopiesRange == CopySpec => []CopiesRange
<1>1. CopyInv => CopiesRange
    <2> SUFFICES ASSUME CopyInv, SourceHasRange, pc = "done" PROVE dst = Copied(Larger(0, call.length))
        BY DEF CopiesRange, CopiesLength
    <2>1. There = Larger(0, call.length)
        BY Arguments DEF CopyInv, SourceHasRange, There, Larger, Smaller
    <2> QED BY <2>1 DEF CopyInv
<1> QED BY <1>1, CopyInvariant, PTL
=============================================================================
