-------------------------------- MODULE File --------------------------------
(***************************************************************************)
(* File (core/protocol/File.cpp): a descriptor with a length of its own,   *)
(* over a whole file or over a window of one that is passed as a pipe://   *)
(* url.  The system may read and write fewer bytes than it is asked to.    *)
(***************************************************************************)
EXTENDS Integers, Sequences

CONSTANTS
    Contents,   \* what files may hold at first
    Places,     \* the offsets and lengths that a pipe:// url may give
    NUL         \* what the file system puts in a hole

VARIABLES
    disk,       \* the bytes of the file
    proto       \* the File object, and where its descriptor is

\* s written over m at position i.
Overlay(m, i, s) ==
    [k \in 1 .. (IF s # <<>> /\ i + Len(s) > Len(m) THEN i + Len(s) ELSE Len(m)) |->
        IF k > i /\ k <= i + Len(s) THEN s[k - i]
        ELSE IF k <= Len(m) THEN m[k] ELSE NUL]

\* File(url, mode), over a whole file ...
Open ==
    /\ disk \in Contents
    /\ proto = [mUrl |-> "file", mOffset |-> 0, mLength |-> Len(disk), mPosition |-> 0, fd |-> 0]

\* ... or over a window, which ends at the end of the file at the latest if the
\* file has any bytes, and may start behind it.
OpenWindow ==
    /\ disk \in Contents
    /\ \E offset, length \in Places :
        proto = [mUrl |-> "pipe", mOffset |-> offset,
                 mLength |-> IF disk # <<>> /\ offset + length > Len(disk) THEN Len(disk)
                             ELSE offset + length,
                 mPosition |-> offset, fd |-> offset]

totalBytes == proto.mLength - proto.mOffset

\* readBytes(n): what it may return.  Nothing can be the end or an error.  Less
\* than nothing left is, as a size_t, no limit.
Remains == proto.mLength - proto.mPosition
Limit(n) == IF Remains >= 0 /\ n > Remains THEN Remains ELSE n
Readable(n) ==
    LET there == SubSeq(disk, proto.fd + 1, Len(disk)) IN
    {SubSeq(there, 1, k) : k \in 0 .. (IF Limit(n) > Len(there) THEN Len(there) ELSE Limit(n))}

ReadBytes(s) ==
    /\ proto' = [proto EXCEPT !.mPosition = @ + Len(s), !.fd = @ + Len(s)]
    /\ UNCHANGED disk

\* writeBytes: k bytes of s get there.  All of them are added to a length
\* that is passed, those that have overwritten something too.
WriteBytes(s, k) ==
    LET p == proto.mPosition + k IN
    /\ disk' = Overlay(disk, proto.fd, SubSeq(s, 1, k))
    /\ proto' = [proto EXCEPT !.mPosition = p, !.fd = @ + k,
                              !.mLength = IF p > @ THEN @ + k ELSE @]

\* seekBytes clamps to the length of the window, counted from the start of
\* the file, and to the start of the file.
Clamped(offset) ==
    LET p == offset + proto.mOffset IN
    IF p > proto.mLength THEN proto.mLength - proto.mOffset
    ELSE IF p < 0 THEN 0 ELSE p

\* lseek to less than 0 fails: the position is -1 and the descriptor stays.
SeekBytes(offset) ==
    /\ proto' = IF Clamped(offset) < 0 THEN [proto EXCEPT !.mPosition = -1]
                ELSE [proto EXCEPT !.mPosition = Clamped(offset), !.fd = Clamped(offset)]
    /\ UNCHANGED disk

SeekResult(offset) ==
    (IF Clamped(offset) < 0 THEN -1 ELSE Clamped(offset)) - proto.mOffset
=============================================================================
