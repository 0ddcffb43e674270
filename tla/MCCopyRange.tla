---------------------------- MODULE MCCopyRange -----------------------------
(***************************************************************************)
(* Small files for CopyRange, in the ways resizeFilesystem calls it.       *)
(***************************************************************************)
EXTENDS CopyRange

\* A partition of an image copied out to a new temporary file.
OutCalls == {[srcOffset |-> s, dstOffset |-> d, length |-> n, bufsize |-> b,
              srcSize |-> 8, dstSize |-> 0] :
                s \in 0 .. 6, d \in {-1, 0}, n \in {0, 3, 5}, b \in {0, 1, 2, 8}}
\* The file copied back. resize2fs has cut it to whole megabytes, so it may end
\* before the range does.
BackCalls == {[srcOffset |-> 0, dstOffset |-> d, length |-> n, bufsize |-> b,
               srcSize |-> s, dstSize |-> size] :
                d \in {-1, 2}, n \in {4, 5}, b \in {1, 2, 3}, s \in {0, 3, 4, 5}, size \in {1, 10}}
MCCalls == OutCalls \cup BackCalls
=============================================================================
