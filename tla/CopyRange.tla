----------------------------- MODULE CopyRange ------------------------------
(***************************************************************************)
(* CopyRange (fastcopy.go): length bytes from srcOffset of one file to     *)
(* dstOffset of another, a buffer at a time.  The source may end early, a  *)
(* read or a write may fail, a failed write may have written something,    *)
(* and the process may be killed between two writes.                       *)
(*                                                                         *)
(* resizeFilesystem and checkFilesystem copy a partition of an image out   *)
(* to a temporary file and back.  Module Resizer takes from here that what *)
(* is on the disk in between is a beginning of the copy and nothing else.  *)
(***************************************************************************)
EXTENDS Integers

CONSTANTS
    Calls,          \* the arguments of CopyRange and the sizes of the files
    CopyBufSize,    \* the size of the buffer if none is given
    Span            \* the bytes of the destination that are modelled

Call == [srcOffset : Nat, dstOffset : Int, length : Int, bufsize : Int,
         srcSize : Nat, dstSize : Nat]

ASSUME CallsAssumption == Calls \subseteq Call
ASSUME SizesAssumption == CopyBufSize \in Nat \ {0} /\ Span \in Nat

VARIABLES
    call,       \* the arguments
    dst,        \* what each byte of the destination is
    copied,     \* how much the loop has copied
    pc

copyVars == <<call, dst, copied, pc>>

\* A byte of the destination is a copy of a byte of the source, what it was
\* before, absent, or the zero that fills a gap behind the old end of the file.
Old == -1
Absent == -2
Zero == -3

Smaller(m, n) == IF m < n THEN m ELSE n
Larger(m, n) == IF m < n THEN n ELSE m

Offset == Larger(call.dstOffset, 0)
Buffer == IF call.bufsize <= 0 THEN CopyBufSize ELSE call.bufsize
\* The mutant forgets that less than a buffer may be left to copy.
BugToRead == Buffer
ToRead == Smaller(Buffer, call.length - copied)

\* ReadAt fills the buffer unless the file ends. The mutant starts over in each
\* round.
BugFrom == call.srcOffset
From == call.srcOffset + copied
Got == Larger(0, Smaller(ToRead, call.srcSize - From))

\* Nothing more to read; the mutant never sees the end.
BugNeverAtEnd == FALSE
AtEnd == Got = 0

\* The destination with n bytes written behind those that were copied.
Written(n) ==
    IF n = 0 THEN dst
    ELSE [b \in 0 .. Span - 1 |->
            IF Offset + copied <= b /\ b < Offset + copied + n THEN From + (b - Offset - copied)
            ELSE IF dst[b] = Absent /\ b < Offset + copied THEN Zero
            ELSE dst[b]]

\* The destination as it was found.
Untouched == [b \in 0 .. Span - 1 |-> IF b < call.dstSize THEN Old ELSE Absent]

\* The destination as it is when the loop begins: a negative dstOffset
\* truncates it.
Emptied == [b \in 0 .. Span - 1 |-> IF b < call.dstSize /\ call.dstOffset >= 0 THEN Old ELSE Absent]
-----------------------------------------------------------------------------
CopyInit ==
    /\ call \in Calls
    /\ dst = Untouched
    /\ copied = 0
    /\ pc = "open"

Open ==
    /\ pc = "open"
    /\ dst' = Emptied
    /\ pc' = "copy"
    /\ UNCHANGED <<call, copied>>

CopyBlock ==
    /\ pc = "copy"
    /\ copied < call.length
    /\ ~AtEnd
    /\ dst' = Written(Got)
    /\ copied' = copied + Got
    /\ UNCHANGED <<call, pc>>

\* Success, also when the source ended early.
Return ==
    /\ pc = "copy"
    /\ copied >= call.length \/ AtEnd
    /\ pc' = "done"
    /\ UNCHANGED <<call, dst, copied>>

\* A file cannot be opened, read, written or synced. A failed write may have
\* written some of the buffer.
Fails ==
    /\ pc \in {"open", "copy"}
    /\ pc' = "failed"
    /\ \/ UNCHANGED dst
       \/ /\ pc = "copy" /\ copied < call.length
          /\ \E n \in 0 .. Got : dst' = Written(n)
    /\ UNCHANGED <<call, copied>>

\* The process is killed.
Kill ==
    /\ pc \in {"open", "copy"}
    /\ pc' = "killed"
    /\ UNCHANGED <<call, dst, copied>>

CopyNext == Open \/ CopyBlock \/ Return \/ Fails \/ Kill

CopySpec == CopyInit /\ [][CopyNext]_copyVars
\* The loop takes its next round; nothing makes it fail or be killed.
FairCopySpec == CopySpec /\ WF_copyVars(Open \/ CopyBlock \/ Return)
-----------------------------------------------------------------------------
\* The destination with the first n bytes copied and no other byte touched.
Copied(n) ==
    [b \in 0 .. Span - 1 |->
        IF Offset <= b /\ b < Offset + n THEN call.srcOffset + (b - Offset)
        ELSE IF n > 0 /\ Emptied[b] = Absent /\ b < Offset THEN Zero
        ELSE Emptied[b]]

\* How much of what is asked for the source has.
There == Larger(0, Smaller(call.length, call.srcSize - call.srcOffset))

\* At every moment, also after a failed write or a kill, the destination is as
\* it was found or has a beginning of the copy, each byte of it at its place,
\* and no byte outside the range was touched.
CopiedPrefix == dst = Untouched \/ \E n \in 0 .. There : dst = Copied(n)

\* "CopyRange copies length bytes", its comment says: after a success the
\* destination has them all, and no byte outside the range was touched. A source
\* that ends within the range refutes that.
CopiesLength == pc = "done" => dst = Copied(Larger(0, call.length))

\* It is so if the source has the whole range, also where that is no multiple of
\* the buffer and the last round does not fill it.
SourceHasRange == call.srcOffset + call.length <= call.srcSize
CopiesRange == SourceHasRange => CopiesLength

\* The loop ends whatever the sizes, also on a source that ends early.
Ends == <>(pc \notin {"open", "copy"})
=============================================================================
