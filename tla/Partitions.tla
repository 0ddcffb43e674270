----------------------------- MODULE Partitions -----------------------------
(***************************************************************************)
(* The vocabulary every other module shares: the entries of a GPT, the     *)
(* byte ranges they occupy, and the identifiers a caller names them by.    *)
(* Offsets and sizes are bytes, as in partitionData.                       *)
(***************************************************************************)
EXTENDS Integers

CONSTANTS
    Labels,     \* the base partition labels that occur
    Types,      \* the partition type GUIDs that occur
    IsBlock     \* TRUE: the disk is a block device, FALSE: an image file

\* A label is a base label and the number of times the suffix "_resized2" was
\* appended to it: two labels are equal exactly when both parts are.
Label == Labels \X Nat

\* getAlternateLabel appends the suffix once more.
Alternate(label) == <<label[1], label[2] + 1>>

\* The GUIDs partitions had from the start, and those the GPT library
\* generates for an entry whose GUID was left blank, one per table slot.
Guid == {"original", "fresh"} \X Nat

\* One active GPT entry.
Entry == [number : Nat \ {0}, start : Nat, size : Nat \ {0}, name : Label,
          type : Types, guid : Guid, attributes : Nat]

\* The bytes from start on that a range of the given size covers.
Bytes(start, size) == start .. (start + size - 1)
Extent(p) == Bytes(p.start, p.size)

\* What partitionData keeps of a source partition.
Data(p) == [number |-> p.number, start |-> p.start, size |-> p.size, label |-> p.name]
Source == [number : Nat \ {0}, start : Nat, size : Nat \ {0}, label : Label]

\* PartitionIdentifier. A kernel name such as sda3 is modelled by the number
\* of the partition it names.
Identifier ==
    [by : {"name"}, value : Nat \ {0}] \cup
    [by : {"label"}, value : Label] \cup
    [by : {"uuid"}, value : Guid]

\* partitionIdentifiersToData: kernel names exist for block devices only.
Matches(id, p) ==
    \/ id.by = "name" /\ IsBlock /\ p.number = id.value
    \/ id.by = "label" /\ p.name = id.value
    \/ id.by = "uuid" /\ p.guid = id.value

\* findDisks and filterDisksByPartitions: sysfs yields no partition UUIDs, and
\* an image file has no kernel names.
Discovered(id, p) == Matches(id, p) /\ (id.by = "uuid" => ~IsBlock)

\* The table is in slot order, and the first entry that matches is taken.
FirstMatch(table, id) ==
    {p \in table : Matches(id, p) /\ \A q \in table : Matches(id, q) => p.number <= q.number}

\* A resume that does not look for the copies an earlier run created.
BugLastNamed(table, name) == {}

\* The map of entries by name keeps the last entry of each name.
LastNamed(table, name) ==
    {p \in table : p.name = name /\ \A q \in table : q.name = name => q.number <= p.number}

\* No two entries share a byte, a slot or a GUID, and none leaves the disk.
SoundTable(table, diskSize) ==
    /\ \A p \in table : p.start + p.size <= diskSize
    /\ \A p, q \in table : p # q =>
          /\ Extent(p) \cap Extent(q) = {}
          /\ p.number # q.number
          /\ p.guid # q.guid
=============================================================================
