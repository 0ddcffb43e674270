--------------------------- MODULE AbstractResize ---------------------------
(***************************************************************************)
(* What a resize promises to whoever finds partitions by their identity:   *)
(* the partition being shrunk loses space once, in place, and all grown    *)
(* partitions move at one moment, with their files, to places where they   *)
(* overlap nothing.  Nothing else about any partition ever changes, and    *)
(* its files change only when somebody writes them.                        *)
(***************************************************************************)
EXTENDS Integers

VARIABLES
    place,      \* where each partition is and its size
    version,    \* the version of each partition's files
    first       \* where each partition was at the start

abstractVars == <<place, version, first>>

Ids == DOMAIN place
Span(x) == x.start .. (x.start + x.size - 1)
Disjoint(f) == \A g, h \in DOMAIN f : g # h => Span(f[g]) \cap Span(f[h]) = {}
Unmoved(g) == place[g].start = first[g].start

AbstractInit ==
    /\ place = first
    /\ Disjoint(place)
    /\ version = [g \in Ids |-> 1]

\* Somebody writes to a partition's files.
WriteFiles(g) ==
    /\ version' = [version EXCEPT ![g] = @ + 1]
    /\ UNCHANGED <<place, first>>

\* A partition that has its first size still is cut at its end.
ShrinkOnce(g) ==
    /\ place[g] = first[g]
    /\ place'[g].size < place[g].size
    /\ place'[g].start = place[g].start
    /\ \A h \in Ids \ {g} : place'[h] = place[h]
    /\ DOMAIN place' = Ids
    /\ UNCHANGED <<version, first>>

\* The grown partitions move, all of them in this one step, and none moved
\* before.
MoveAll ==
    /\ \A g \in Ids : Unmoved(g)
    /\ DOMAIN place' = Ids
    /\ Disjoint(place')
    /\ \A g \in Ids : place'[g] # place[g] => place'[g].size > place[g].size
    /\ UNCHANGED <<version, first>>

AbstractNext == (\E g \in Ids : WriteFiles(g) \/ ShrinkOnce(g)) \/ MoveAll

AbstractSpec == AbstractInit /\ [][AbstractNext]_abstractVars
=============================================================================
