----------------------------- MODULE MCPlanner -----------------------------
(***************************************************************************)
(* Small disks for FreeSpace. A disk has 24 bytes, 2 of them GPT at either   *)
(* end, and a GB is 4 bytes.                                               *)
(***************************************************************************)
EXTENDS FreeSpace

Part(n, start, size, name) ==
    [number |-> n, start |-> start, size |-> size, name |-> <<name, 0>>, type |-> "linux",
     guid |-> <<"original", n>>, attributes |-> 0]
Copy(n, start, size, name) ==
    [Part(n, start, size, name) EXCEPT !.name = <<name, 1>>, !.guid = <<"fresh", n>>]

\* Full but for the tail; P can give up to 12 bytes.
Full == {Part(1, 2, 2, "A"), Part(2, 4, 2, "B"), Part(3, 6, 2, "C"), Part(9, 8, 14, "P")}
\* Gaps of 3 and 5 bytes and P at the end.
Gaps == {Part(1, 2, 1, "A"), Part(2, 6, 1, "B"), Part(3, 12, 1, "C"), Part(4, 13, 9, "P")}
\* The larger gap comes first.
BigGapFirst == {Part(1, 2, 1, "A"), Part(2, 8, 1, "B"), Part(3, 12, 1, "C"), Part(4, 13, 9, "P")}
\* P is smaller than the rounded total.
Tight == {Part(1, 2, 2, "A"), Part(2, 4, 2, "B"), Part(3, 6, 10, "C"), Part(4, 16, 6, "P")}
\* An interrupted run shrank P and created the copy of A.
Resumed == {Part(1, 2, 2, "A"), Part(2, 4, 2, "B"), Part(3, 6, 2, "C"), Part(9, 8, 6, "P"),
            Copy(4, 14, 3, "A")}
\* Two partitions labelled B.
Twice == {Part(1, 2, 2, "A"), Part(2, 4, 2, "B"), Part(3, 6, 2, "B"), Part(9, 8, 14, "P")}

\* An earlier resize moved the first partition to the end.
Vacated == {Part(2, 6, 2, "B"), Part(3, 8, 2, "C"), Part(4, 10, 8, "P"), Part(1, 18, 3, "A")}

MCLayouts == {Full, Gaps, BigGapFirst, Tight, Resumed, Twice, Vacated}

Change1(name, size) == [by |-> "label", value |-> <<name, 0>>, size |-> size]
ChangeNo(n, size) == [by |-> "name", value |-> n, size |-> size]
ChangeId(n, size) == [by |-> "uuid", value |-> <<"original", n>>, size |-> size]

MCChanges == {Change1("A", n) : n \in {1, 2, 3, 5}} \cup {Change1("B", n) : n \in {3, 4}}
             \cup {ChangeNo(3, n) : n \in {1, 3, 9}} \cup {ChangeId(2, 5), Change1("X", 2)}
             \* What the command line makes of sizes that overflow.
             \cup {Change1("A", -4), Change1("C", 0)}
MCShrinks == {NoShrink, [by |-> "label", value |-> <<"P", 0>>], [by |-> "name", value |-> 4]}

MCRequests ==
    {[grows |-> g, shrink |-> s, fixErrors |-> FALSE, preserveNumbers |-> FALSE,
      dryRun |-> TRUE] :
        g \in UNION {[1 .. n -> MCChanges] : n \in 1 .. 2}, s \in MCShrinks}
=============================================================================
