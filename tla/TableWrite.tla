----------------------------- MODULE TableWrite -----------------------------
(***************************************************************************)
(* Writing the partition table.  A GPT is kept twice, each copy an array   *)
(* of entries and a header with a checksum of that array.  One call of     *)
(* d.Partition is several writes: backup entries, backup header, primary   *)
(* entries, primary header, protective MBR (delaybackend_chaos.go:14).     *)
(* The run may be killed between any two of them, and inside the write of  *)
(* an array, which is many sectors.  Whoever opens the disk takes the      *)
(* primary copy if its checksum is right, and otherwise the backup         *)
(* (gpt_raw_test.go:16).  What was written before a kill stays written.    *)
(*                                                                         *)
(* This is the table write that module Resizer takes to be one step.       *)
(***************************************************************************)
EXTENDS Naturals

CONSTANTS
    Tables,     \* the partition tables that occur
    NoTable,    \* stands for none: a torn array, or no run
    Rewrites,   \* the tables a run that holds a given one may write next
    MaxStops    \* bound on stops without a completed write between them

ASSUME TablesAssumption == NoTable \notin Tables /\ Rewrites \in [Tables -> SUBSET Tables]
ASSUME StopsAssumption == MaxStops \in Nat

VARIABLES
    entries,    \* the table whose entries each array holds, NoTable if torn
    header,     \* the table each header has the checksum of
    memory,     \* the table the run holds, NoTable between runs
    writing,    \* the table being written, NoTable outside a write
    step,       \* the next write
    stops       \* stops inside a write since the last completed one

tableVars == <<entries, header, memory, writing, step, stops>>

Copies == {"backup", "primary"}
Steps == {"idle", "backupEntries", "backupRest", "backupHeader",
          "primaryEntries", "primaryRest", "primaryHeader", "mbr"}

\* The order of the writes; the mutant never writes the backup header.
BugAfter == [s \in Steps |->
    CASE s = "backupEntries" -> "backupRest" [] s = "backupRest" -> "primaryEntries"
      [] s = "backupHeader" -> "primaryEntries" [] s = "primaryEntries" -> "primaryRest"
      [] s = "primaryRest" -> "primaryHeader" [] OTHER -> "mbr"]
After == [s \in Steps |->
    CASE s = "backupEntries" -> "backupRest" [] s = "backupRest" -> "backupHeader"
      [] s = "backupHeader" -> "primaryEntries" [] s = "primaryEntries" -> "primaryRest"
      [] s = "primaryRest" -> "primaryHeader" [] OTHER -> "mbr"]

\* Which copy the next write belongs to; the mutant never writes the backup.
BugCopyOf(s) == "primary"
CopyOf(s) == IF s \in {"backupEntries", "backupRest", "backupHeader"} THEN "backup" ELSE "primary"

\* A copy is valid if its header has the checksum of its array; the mutant
\* does not compare them.
BugValid(copy) == TRUE
Valid(copy) == entries[copy] = header[copy]

\* What gpt.Read returns.
Read ==
    IF Valid("primary") THEN entries["primary"]
    ELSE IF Valid("backup") THEN entries["backup"]
    ELSE NoTable
-----------------------------------------------------------------------------
\* The type invariant. A header is one sector and never torn.
TableTypeOK ==
    /\ entries \in [Copies -> Tables \cup {NoTable}]
    /\ header \in [Copies -> Tables]
    /\ memory \in Tables \cup {NoTable}
    /\ writing \in Tables \cup {NoTable}
    /\ step \in Steps
    /\ stops \in 0 .. MaxStops

TableInit ==
    /\ \E t \in Tables : entries = [c \in Copies |-> t] /\ header = [c \in Copies |-> t]
    /\ memory = NoTable /\ writing = NoTable
    /\ step = "idle"
    /\ stops = 0

\* Run opens the disk and reads its table, if there is one to read.
OpenDisk ==
    /\ memory = NoTable
    /\ Read # NoTable
    /\ memory' = Read
    /\ UNCHANGED <<entries, header, writing, step, stops>>

\* The run ends, or is killed, while it writes no table.
CloseDisk ==
    /\ memory # NoTable
    /\ writing = NoTable
    /\ memory' = NoTable
    /\ UNCHANGED <<entries, header, writing, step, stops>>

\* shrinkPartitions, createPartitions or updatePartitions calls d.Partition,
\* createPartitions also with the table as it is.
BeginWrite(t) ==
    /\ memory # NoTable
    /\ writing = NoTable
    /\ t \in Rewrites[memory]
    /\ writing' = t
    /\ step' = "backupEntries"
    /\ UNCHANGED <<entries, header, memory, stops>>

\* Part of an array is written. Writing what is there already tears nothing.
WriteSomeEntries ==
    /\ step \in {"backupEntries", "primaryEntries"}
    /\ entries' = [entries EXCEPT ![CopyOf(step)] = IF @ = writing THEN @ ELSE NoTable]
    /\ step' = After[step]
    /\ UNCHANGED <<header, memory, writing, stops>>

WriteOtherEntries ==
    /\ step \in {"backupRest", "primaryRest"}
    /\ entries' = [entries EXCEPT ![CopyOf(step)] = writing]
    /\ step' = After[step]
    /\ UNCHANGED <<header, memory, writing, stops>>

WriteHeader ==
    /\ step \in {"backupHeader", "primaryHeader"}
    /\ header' = [header EXCEPT ![CopyOf(step)] = writing]
    /\ step' = After[step]
    /\ UNCHANGED <<entries, memory, writing, stops>>

\* The protective MBR says nothing of the table. The write is complete.
WriteMBR ==
    /\ step = "mbr"
    /\ memory' = writing
    /\ writing' = NoTable
    /\ step' = "idle"
    /\ stops' = 0
    /\ UNCHANGED <<entries, header>>

\* The run is killed inside a table write.
Stop ==
    /\ writing # NoTable
    /\ stops < MaxStops
    /\ memory' = NoTable
    /\ writing' = NoTable
    /\ step' = "idle"
    /\ stops' = stops + 1
    /\ UNCHANGED <<entries, header>>

TableNext ==
    \/ OpenDisk \/ CloseDisk
    \/ \E t \in Tables : BeginWrite(t)
    \/ WriteSomeEntries \/ WriteOtherEntries \/ WriteHeader \/ WriteMBR
    \/ Stop

TableSpec == TableInit /\ [][TableNext]_tableVars
-----------------------------------------------------------------------------
\* Whenever the disk is opened after at most one stop inside a table write,
\* there is a table to read, whatever stage the write had reached.
Recoverable == memory = NoTable /\ stops <= 1 => Read # NoTable

\* A stop inside a write of a disk whose copies agreed leaves the table that was
\* there or the one being written, never a mixture: to whoever opens the disk
\* next the write was one step.
OldOrNew == [][Stop /\ stops = 0 => Read' \in {memory, writing}]_tableVars

\* Between the writes of a run nobody stopped, the two copies agree with each
\* other and with what the run holds.
CopiesAgree ==
    writing = NoTable /\ stops = 0 =>
        /\ \A c \in Copies : Valid(c) /\ entries[c] = entries["primary"]
        /\ memory \in {NoTable, entries["primary"]}

\* The comment in resize above createPartitions: should it stop and reboot, the
\* original partitions are still there. So there always is a table.
AlwaysReadable == memory = NoTable => Read # NoTable
-----------------------------------------------------------------------------
\* What the write in progress has reached, by its next step: until the backup is
\* whole the primary is as it was, after that the backup is the new table.
Reached ==
    /\ step \in {"primaryEntries", "primaryRest", "primaryHeader", "mbr"} =>
          entries["backup"] = writing /\ header["backup"] = writing
    /\ step = "backupHeader" => entries["backup"] = writing
    /\ step = "primaryRest" => entries["primary"] \in {NoTable, writing}
    /\ step = "primaryHeader" => entries["primary"] = writing
    /\ step = "mbr" => entries["primary"] = writing /\ header["primary"] = writing

\* On a disk nobody stopped writing to, the primary is untouched until its turn.
PrimaryUntouched ==
    stops = 0 /\ step \in {"backupEntries", "backupRest", "backupHeader", "primaryEntries"} =>
        entries["primary"] = memory /\ header["primary"] = memory

TableInv ==
    /\ TableTypeOK
    /\ writing = NoTable <=> step = "idle"
    /\ writing # NoTable => memory # NoTable
    /\ Reached
    /\ PrimaryUntouched
    /\ CopiesAgree
    /\ writing = NoTable /\ stops = 1 => Valid("primary") \/ Valid("backup")
=============================================================================
