------------------------------- MODULE Launch -------------------------------
(***************************************************************************)
(* From the command line to the disk: main.go parses the flags, findDisks  *)
(* collects the partitions of the disk that was given, or of all disks,    *)
(* filterDisksByPartitions keeps the disks that have every partition that  *)
(* was named, and Run opens the one that is left.  What Run then does with *)
(* it is module Planner's.                                                 *)
(*                                                                         *)
(* The machine has files, device nodes and images alike, and directories   *)
(* under /sys/class/block.                                                 *)
(***************************************************************************)
EXTENDS Integers, Sequences, FiniteSets

CONSTANTS
    Machines,   \* the machines the command may be run on
    Commands,   \* the command lines
    Multiplier, \* the factor of each unit
    Width,      \* the bits of an int64
    NoDisk,     \* no <disk> argument
    NoShrink    \* no --shrink-partition

\* A partition as its table and its kernel name give it. A field a source does
\* not know is the empty string.
Part == [name : STRING, label : STRING, uuid : STRING]
\* A device node or an image, and what its table has.
File == [path : [dir : STRING, base : STRING], parts : SUBSET Part]
\* An entry of /sys/class/block: is it a symbolic link, as the kernel makes
\* them, does it have a child that marks it as no disk, and its partitions.
Node == [base : STRING, link : BOOLEAN, marked : BOOLEAN, parts : SUBSET Part]
Machine == [files : SUBSET File, nodes : SUBSET Node]

VARIABLES
    machine,
    command,    \* the flags and arguments
    pc,
    i,          \* the grow being parsed
    sizes,      \* the sizes of those that were
    disks,      \* what findDisks returned
    opened      \* the files opened as the disk to resize

launchVars == <<machine, command, pc, i, sizes, disks, opened>>

Ids == {command.grows[k] : k \in DOMAIN command.grows} \cup ({command.shrink} \ {NoShrink})

\* parsePartitionIdentifier. A library caller may also identify by UUID.
Parses(id) == id.by \in {"name", "label"} \/ (~command.cli /\ id.by = "uuid")

\* ParseInt fails on what does not fit, the product is cut to the width.
Fits(n) == n \in -(2 ^ (Width - 1)) .. 2 ^ (Width - 1) - 1
Wrap(n) == ((n + 2 ^ (Width - 1)) % (2 ^ Width)) - 2 ^ (Width - 1)
ParseSize(size) == Wrap(size.number * Multiplier[size.unit])

\* filterDisksByPartitions: a partition has what the identifier asks for.
Has(p, id) ==
    \/ id.by = "name" /\ p.name = id.value
    \/ id.by = "label" /\ p.label = id.value
    \/ id.by = "uuid" /\ p.uuid = id.value
HasAll(parts) == \A id \in Ids : \E p \in parts : Has(p, id)

\* findDisks: sysfs knows no UUIDs, and an image no kernel names.
FromNode(n) == [base |-> n.base, parts |-> {[p EXCEPT !.uuid = ""] : p \in n.parts}]
FromImage(f) == [base |-> f.path.base, parts |-> {[p EXCEPT !.name = ""] : p \in f.parts}]
At(path) == {f \in machine.files : f.path = path}
NodeOf(path) == {n \in machine.nodes : n.base = path.base}
-----------------------------------------------------------------------------
LaunchInit ==
    /\ machine \in Machines
    /\ command \in Commands
    /\ pc = "flags" /\ i = 1 /\ sizes = <<>>
    /\ disks = {} /\ opened = {}

Fatal ==
    /\ pc' = "failed"
    /\ UNCHANGED <<machine, command, i, sizes, disks, opened>>

ParseShrink ==
    /\ pc = "flags"
    /\ command.shrink # NoShrink => Parses(command.shrink)
    /\ pc' = "grows"
    /\ UNCHANGED <<machine, command, i, sizes, disks, opened>>

InvalidShrink ==
    /\ pc = "flags"
    /\ command.shrink # NoShrink /\ ~Parses(command.shrink)
    /\ Fatal

Parsing == pc = "grows" /\ i <= Len(command.grows)
Grow == command.grows[i]

ParseGrow ==
    /\ Parsing
    /\ Parses(Grow)
    /\ Grow.size.unit # "empty" /\ Fits(Grow.size.number)
    /\ i' = i + 1
    /\ sizes' = Append(sizes, ParseSize(Grow.size))
    /\ UNCHANGED <<machine, command, pc, disks, opened>>

InvalidGrow ==
    /\ Parsing
    /\ Parses(Grow) => Grow.size.unit # "empty" /\ ~Fits(Grow.size.number)
    /\ Fatal

\* parseSize looks at the last character of a size that has none.
Panic ==
    /\ Parsing
    /\ Parses(Grow)
    /\ Grow.size.unit = "empty"
    /\ Fatal

Parsed == pc = "grows" /\ i > Len(command.grows)

NoGrows ==
    /\ Parsed
    /\ command.grows = <<>>
    /\ Fatal

\* A given disk is looked up under its base name; os.Stat follows a link.
Collected(found) ==
    /\ disks' = found
    /\ pc' = "found"
    /\ UNCHANGED <<machine, command, i, sizes, opened>>
Scanned(nodes) == {FromNode(n) : n \in {m \in nodes : ~m.marked /\ m.parts # {}}}

FindGivenDisk ==
    /\ Parsed /\ command.grows # <<>>
    /\ command.disk # NoDisk
    /\ NodeOf(command.disk) # {}
    /\ Collected(Scanned(NodeOf(command.disk)))

ReadImage ==
    /\ Parsed /\ command.grows # <<>>
    /\ command.disk # NoDisk
    /\ NodeOf(command.disk) = {} /\ At(command.disk) # {}
    /\ Collected({FromImage(f) : f \in At(command.disk)})

NoSuchFile ==
    /\ Parsed /\ command.grows # <<>>
    /\ command.disk # NoDisk
    /\ NodeOf(command.disk) = {} /\ At(command.disk) = {}
    /\ Fatal

\* Without a disk every entry that is a directory is scanned; DirEntry.Info does
\* not follow a link.
FindAllDisks ==
    /\ Parsed /\ command.grows # <<>>
    /\ command.disk = NoDisk
    /\ Collected(Scanned({n \in machine.nodes : ~n.link}))

Matched == {d \in disks : HasAll(d.parts)}

NoneOrMany ==
    /\ pc = "found"
    /\ Cardinality(Matched) # 1
    /\ Fatal

\* The path that was given is opened, the empty one if none was.
OpenGiven ==
    /\ pc = "found"
    /\ Cardinality(Matched) = 1
    /\ command.disk # NoDisk /\ At(command.disk) # {}
    /\ opened' = At(command.disk)
    /\ pc' = "opened"
    /\ UNCHANGED <<machine, command, i, sizes, disks>>

OpenFails ==
    /\ pc = "found"
    /\ Cardinality(Matched) = 1
    /\ command.disk = NoDisk \/ At(command.disk) = {}
    /\ Fatal

LaunchNext ==
    \/ ParseShrink \/ InvalidShrink \/ ParseGrow \/ InvalidGrow \/ Panic \/ NoGrows
    \/ FindGivenDisk \/ ReadImage \/ NoSuchFile \/ FindAllDisks
    \/ NoneOrMany \/ OpenGiven \/ OpenFails

LaunchSpec == LaunchInit /\ [][LaunchNext]_launchVars
-----------------------------------------------------------------------------
\* The disks that have all partitions named: the one given, or, as the comment
\* at the top of Run has it, those discovery would find.
Wanted ==
    {f \in machine.files :
        /\ HasAll(f.parts)
        /\ IF command.disk = NoDisk THEN f.path.dir = "/dev" ELSE f.path = command.disk}

\* If exactly one disk has all partitions a well formed command names, the run
\* gets to plan on it: it is not refused.
ReachesItsDisk ==
    pc = "failed" /\ i > Len(command.grows) /\ command.grows # <<>> => Cardinality(Wanted) # 1
=============================================================================
