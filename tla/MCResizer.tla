----------------------------- MODULE MCResizer -----------------------------
(***************************************************************************)
(* Small disks and requests for Resizer, of the sizes MCPlanner has.       *)
(***************************************************************************)
EXTENDS ResizerInvariants, TLC

Part(n, start, size, name, type) ==
    [number |-> n, start |-> start, size |-> size, name |-> <<name, 0>>, type |-> type,
     guid |-> <<"original", n>>, attributes |-> n]

\* An ESP, a raw image, an ext4 partition nobody asked for, and a data
\* partition with a gap in the numbering, as on the disks the tests use.
Full == {Part(1, 2, 2, "A", "esp"), Part(2, 4, 2, "B", "linux"), Part(3, 6, 2, "C", "linux"),
         Part(9, 8, 14, "P", "data")}
\* The same partitions with free space behind them.
Roomy == {Part(1, 2, 2, "A", "esp"), Part(2, 4, 2, "B", "linux"), Part(3, 6, 2, "C", "linux"),
          Part(9, 8, 4, "P", "data")}

MCKind == (<<"original", 1>> :> "fat32") @@ (<<"original", 2>> :> "squashfs") @@
          (<<"original", 3>> :> "ext4") @@ (<<"original", 9>> :> "ext4")
MCUsed == [g \in DOMAIN MCKind |-> 3]

ByLabel(name, size) == [by |-> "label", value |-> <<name, 0>>, size |-> size]
ByNumber(n, size) == [by |-> "name", value |-> n, size |-> size]
P == [by |-> "label", value |-> <<"P", 0>>]
LabelA == [by |-> "label", value |-> <<"A", 0>>]
Ask(grows, shrink, fix, preserve) ==
    [grows |-> grows, shrink |-> shrink, fixErrors |-> fix, preserveNumbers |-> preserve,
     dryRun |-> FALSE]

FullLayout == {Full}
BothLayouts == {Full, Roomy}

\* Grow the ESP and the raw image, or the ESP and the ext4 partition, named by
\* label or by kernel name, the ESP alone, for which P could shrink twice, or
\* shrink P in place.
Grows == {<<ByLabel("A", 3), ByLabel("B", 4)>>, <<ByLabel("A", 3), ByLabel("C", 4)>>}
NamedGrows == {<<ByNumber(1, 3), ByNumber(3, 4)>>}
MCRequests == {Ask(g, P, TRUE, preserve) : g \in Grows, preserve \in BOOLEAN}
              \cup {Ask(g, P, TRUE, TRUE) : g \in NamedGrows \cup {<<ByLabel("A", 4)>>}}
              \cup {Ask(<<ByLabel("P", 8)>>, NoShrink, TRUE, TRUE)}

\* Requests that fail: a partition that cannot be shrunk that far, a shrink
\* partition that is not ext4, an unsupported filesystem, no room, an unknown
\* label, a size that overflowed, a dry run.
OtherKind == [MCKind EXCEPT ![<<"original", 1>>] = "other"]
FailingRequests ==
    {Ask(<<ByLabel("C", n)>>, P, FALSE, FALSE) : n \in {-4, 4, 9}} \cup
    {Ask(<<ByLabel("A", 3), ByLabel("B", 4)>>, P, FALSE, TRUE),
     Ask(<<ByLabel("C", 4)>>, LabelA, FALSE, FALSE),
     Ask(<<ByLabel("C", 4)>>, NoShrink, FALSE, FALSE),
     Ask(<<ByLabel("X", 4)>>, P, FALSE, FALSE),
     [Ask(<<ByLabel("A", 3)>>, P, FALSE, FALSE) EXCEPT !.dryRun = TRUE]}

\* Sizes that are no multiple of a sector of two bytes.
OddRequests ==
    {Ask(<<ByLabel("B", 3), ByLabel("C", n)>>, P, FALSE, preserve) :
        n \in {4, 5}, preserve \in BOOLEAN}

\* The same, and two that follow one another: P shrinks in place, and then
\* others grow into what it gave up.
ChangingRequests ==
    FailingRequests \cup OddRequests \cup {Ask(<<ByLabel("P", 5)>>, NoShrink, FALSE, FALSE)}

\* Disk images: names are of no use, UUIDs are.
ByGuid(n, size) == [by |-> "uuid", value |-> <<"original", n>>, size |-> size]
ImageRequests ==
    {Ask(<<ByLabel("A", 3), ByGuid(3, 4)>>, s, fix, TRUE) : s \in {NoShrink, P}, fix \in BOOLEAN}

\* Two partitions with one label, named by number.
Twins == {Part(1, 2, 2, "A", "esp"), Part(2, 4, 2, "B", "linux"), Part(3, 6, 2, "B", "linux"),
          Part(9, 8, 4, "P", "data")}
TwinLayout == {Twins}
TwinRequests == {Ask(<<ByNumber(2, 3), ByNumber(3, 3)>>, NoShrink, FALSE, FALSE)}
OneRequest == {Ask(<<ByLabel("A", 3), ByLabel("C", 4)>>, P, TRUE, TRUE)}
=============================================================================
