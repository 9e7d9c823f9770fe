------------------------------ MODULE Content ------------------------------
(***************************************************************************)
(* Content (core/Content.cpp): one block of cache over a File, for reading *)
(* or for writing; a content of both modes can only be read.  The block is *)
(* a linear Buffer that is written and reset but never read: a sequence.   *)
(* A step is one round of the loop in read or write.                       *)
(***************************************************************************)
EXTENDS File

CONSTANTS
    BlockLength, Bytes,
    MaxTransfer,    \* bound on the bytes of one call
    MaxLength       \* bound on the length of the file

VARIABLES
    mode,
    mPosition,          \* the protocol's position, as Content sees it
    mBlock, mBlockOffset, mBlockPopulated,
    call,               \* the read or write that is going on
    at,                 \* where the client is: a history variable
    want,               \* what the client wants in the file: a history variable
    fault               \* what Content or File has done wrong, or "none": a history variable

vars == <<disk, proto, mode, mPosition, mBlock, mBlockOffset, mBlockPopulated,
          call, at, want, fault>>

NoCall == [op |-> "none"]
Min2(a, b) == IF a < b THEN a ELSE b
Max2(a, b) == IF a < b THEN b ELSE a
Transfers == UNION {[1 .. n -> Bytes] : n \in 1 .. MaxTransfer}

Init ==
    /\ mode \in {"read", "write"}
    /\ Open \/ OpenWindow
    /\ mPosition = 0
    /\ mBlock = <<>> /\ mBlockOffset = 0 /\ mBlockPopulated = FALSE
    /\ call = NoCall
    /\ at = 0 /\ want = disk /\ fault = "none"

Idle == call = NoCall
empty == BlockLength - Len(mBlock)

\* The block after writeBlockBack.
ResetBlock == mBlock' = <<>> /\ mBlockOffset' = 0 /\ mBlockPopulated' = FALSE

\* writeBlockBack of a populated block; the block is reset, however little of
\* it has been written: a short write is a fault, and so is a length that does
\* not end where the data does.
WriteBack ==
    \E k \in 0 .. Len(mBlock) :
        /\ WriteBytes(mBlock, k)
        /\ mPosition' = mPosition + k
        /\ fault' = IF k < Len(mBlock) THEN "short"
                    ELSE IF proto'.mLength # Max2(proto.mLength, proto'.mPosition) THEN "length"
                    ELSE fault
        /\ ResetBlock

-----------------------------------------------------------------------------

\* read(n)
Read(n) ==
    /\ Idle /\ mode = "read"
    /\ call' = [op |-> "read", left |-> n]
    /\ UNCHANGED <<disk, proto, mode, mPosition, mBlock, mBlockOffset, mBlockPopulated,
                   at, want, fault>>

Cached == Len(mBlock) - mBlockOffset
Continue(n) == call' = IF n = 0 THEN NoCall ELSE [call EXCEPT !.left = n]

\* ... from the cache, as far as it goes,
ReadCached ==
    LET m == Min2(Cached, call.left) IN
    /\ call.op = "read" /\ Cached > 0
    /\ mBlockOffset' = mBlockOffset + m
    /\ at' = at + m
    /\ Continue(call.left - m)
    /\ UNCHANGED <<disk, proto, mode, mPosition, mBlock, mBlockPopulated, want, fault>>

\* ... then from the next block; nothing ends the call.
ReadBlock ==
    /\ call.op = "read" /\ Cached = 0
    /\ \E s \in Readable(BlockLength) :
        /\ ReadBytes(s)
        /\ mBlock' = s /\ mBlockOffset' = 0
        /\ mPosition' = mPosition + Len(s)
        /\ call' = IF s = <<>> THEN NoCall ELSE call
    /\ UNCHANGED <<mode, mBlockPopulated, at, want, fault>>

\* write(s)
Write(s) ==
    /\ Idle /\ mode = "write"
    /\ call' = [op |-> "write", left |-> s]
    /\ UNCHANGED <<disk, proto, mode, mPosition, mBlock, mBlockOffset, mBlockPopulated,
                   at, want, fault>>

\* ... to the end of the block, wherever the client is, and less than there is
\* room for after a seek in the cache.  With an offset past the room the
\* difference wraps around, and Buffer fails its CHECK unless all of it fits.
Room == IF empty >= mBlockOffset THEN Min2(Len(call.left), empty - mBlockOffset)
        ELSE Len(call.left)

WriteCached ==
    LET m == Room  s == SubSeq(call.left, 1, m) IN
    /\ call.op = "write" /\ m > 0 /\ m <= empty
    /\ mBlock' = mBlock \o s
    /\ mBlockPopulated' = TRUE
    /\ at' = at + m
    /\ want' = Overlay(want, proto.mOffset + at, s)
    /\ fault' = IF at = mPosition + Len(mBlock) THEN fault ELSE "place"
    /\ call' = IF m = Len(call.left) THEN NoCall
               ELSE [call EXCEPT !.left = SubSeq(@, m + 1, Len(@))]
    /\ UNCHANGED <<disk, proto, mode, mPosition, mBlockOffset>>

\* ... and to the file when the block is full.
WriteBlock ==
    /\ call.op = "write" /\ Room = 0
    /\ WriteBack
    /\ UNCHANGED <<mode, call, at, want>>

\* seek(offset) in the cache: reading, behind the position; writing, before it.
InCache(offset) ==
    /\ mBlock # <<>>
    /\ IF mode = "read"
       THEN offset < mPosition /\ offset >= mPosition - Len(mBlock)
       ELSE offset >= mPosition /\ offset < mPosition + Len(mBlock)

\* A client that asks for a place is there, or at the end it asked to pass:
\* that of the content, or of what it has written behind it.
End == IF mode = "write" THEN Max2(totalBytes, mPosition + Len(mBlock)) ELSE totalBytes
Within(asked) == Max2(0, Min2(asked, End))

\* The code arrives at result; it is a fault of op if that is elsewhere.
Arrive(result, asked, op) ==
    /\ at' = Within(asked)
    /\ fault' = IF result = Within(asked) THEN fault ELSE op

SeekCached(offset, asked, op) ==
    /\ Idle /\ InCache(offset)
    /\ mBlockOffset' = IF mode = "read" THEN Len(mBlock) - (mPosition - offset)
                       ELSE offset - mPosition
    /\ Arrive(offset, asked, op)
    /\ UNCHANGED <<disk, proto, mode, mPosition, mBlock, mBlockPopulated, call, want>>

\* seek elsewhere: the block is written back first, then the protocol seeks.
FlushForSeek(offset, asked, op) ==
    /\ Idle /\ ~InCache(offset) /\ mBlockPopulated
    /\ WriteBack
    /\ call' = [op |-> op, to |-> offset, asked |-> asked]
    /\ UNCHANGED <<mode, at, want>>

(* Mutant: the block is used up and stays. *)
SeekKeepsBlock(offset, asked, op) ==
    /\ SeekBytes(offset)
    /\ mPosition' = SeekResult(offset)
    /\ Arrive(SeekResult(offset), asked, op)
    /\ call' = NoCall
    /\ mBlockOffset' = Len(mBlock)
    /\ UNCHANGED <<mode, mBlock, mBlockPopulated, want>>

SeekTo(offset, asked, op) ==
    /\ SeekBytes(offset)
    /\ mPosition' = SeekResult(offset)
    /\ Arrive(SeekResult(offset), asked, op)
    /\ call' = NoCall
    /\ ResetBlock
    /\ UNCHANGED <<mode, want>>

SeekProtocol(offset, asked, op) ==
    Idle /\ ~InCache(offset) /\ ~mBlockPopulated /\ SeekTo(offset, asked, op)
SeekFlushed == call.op \in {"seek", "skip"} /\ SeekTo(call.to, call.asked, call.op)

Move(offset, asked, op) ==
    \/ SeekCached(offset, asked, op)
    \/ FlushForSeek(offset, asked, op)
    \/ SeekProtocol(offset, asked, op)

\* tell() in write mode adds an offset that write does not advance.
tell ==
    IF mBlock = <<>> THEN mPosition
    ELSE IF mode = "read" THEN mPosition - Cached
    ELSE mPosition + mBlockOffset

Seek(offset) == Move(offset, offset, "seek")
Skip(n) == Move(tell + n, at + n, "skip")

\* ~Content
Destroy ==
    /\ Idle
    /\ call' = [op |-> "destroyed"]
    /\ IF mBlockPopulated THEN WriteBack
       ELSE ResetBlock /\ UNCHANGED <<disk, proto, mPosition, fault>>
    /\ UNCHANGED <<mode, at, want>>

-----------------------------------------------------------------------------

\* A run ends with the first fault but that of a length.
Broken == fault \notin {"none", "length"}

Next ==
    /\ ~Broken
    /\ \/ \E n \in 1 .. MaxTransfer : Read(n)
       \/ ReadCached
       \/ ReadBlock
       \/ \E s \in Transfers : Write(s)
       \/ WriteCached
       \/ WriteBlock
       \/ \E offset \in 0 .. MaxLength : Seek(offset)
       \/ \E n \in {-1, 1} : Skip(n)
       \/ SeekFlushed
       \/ Destroy
    /\ Len(want') <= MaxLength

Spec == Init /\ [][Next]_vars

-----------------------------------------------------------------------------

\* What read will return next is what the file has where the client is, and no
\* more than the window, over any sequence of reads and seeks in and out of the
\* cache and whatever the system returns; tell knows the place.
ReadsAreOfTheFile ==
    mode = "read" /\ ~Broken =>
        LET ahead == SubSeq(mBlock, mBlockOffset + 1, Len(mBlock))
            from == proto.mOffset + at IN
        /\ ahead # <<>> => from + Len(ahead) <= Min2(Len(disk), proto.mLength)
        /\ ahead = SubSeq(disk, from + 1, from + Len(ahead))
        /\ at >= 0 /\ (call.op # "destroyed" => tell = at)
        /\ call.op = "read" /\ Cached = 0 => proto.fd = from

\* The file with the cached block in its place is what the client wants, until
\* a short write or a write after a seek in the cache; after the destructor
\* it is the file alone.  A whole file is as long as its length says, until a
\* write crosses its end, and never longer.
WritesReachTheFile ==
    mode = "write" /\ ~Broken =>
        /\ Overlay(disk, proto.fd, mBlock) = want
        /\ proto.fd = proto.mOffset + mPosition /\ mPosition >= 0
        /\ call.op = "destroyed" => disk = want
        /\ proto.mUrl = "file" =>
            /\ proto.mLength >= Len(disk)
            /\ fault = "none" => proto.mLength = Len(disk)

\* A seek misses only at or past the end of a window that starts behind that of
\* the file, a skip also before its start, or when written data is in the cache.
MissesAreAtTheEnds ==
    /\ fault = "seek" => proto.mOffset > 0 /\ at >= totalBytes
    /\ fault = "skip" =>
        mode = "write" \/ (proto.mOffset > 0 /\ (at = 0 \/ at >= totalBytes))
=============================================================================
