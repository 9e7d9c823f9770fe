------------------------------- MODULE Buffer -------------------------------
(***************************************************************************)
(* Buffer (core/Buffer.cpp): bytes between a read and a write position.  A *)
(* linear buffer fills up once; a ring has twice the memory and moves its  *)
(* bytes to the front when the read position passes the capacity.  One     *)
(* thread.                                                                 *)
(***************************************************************************)
EXTENDS Naturals, Sequences

CONSTANTS
    Capacities, Bytes,
    Raw,            \* a byte nobody has written
    MaxTransfer     \* bound on the bytes of one call

VARIABLES
    mType, mCapacity, mReadPos, mWritePos,
    mData,      \* the memory; what lies past its end if that has been written
    stream,     \* what a reader should find: a history variable
    misused     \* a call has made the positions or the memory wrong

vars == <<mType, mCapacity, mReadPos, mWritePos, mData, stream, misused>>

Transfers == UNION {[1 .. n -> Bytes] : n \in 1 .. MaxTransfer}
Counts == 1 .. MaxTransfer

Min2(a, b) == IF a < b THEN a ELSE b

\* _alloc: a ring takes twice its capacity.
Allocated(type, capacity) == IF type = "Ring" THEN 2 * capacity ELSE capacity
Resized(s, n) == [i \in 1 .. n |-> IF i <= Len(s) THEN s[i] ELSE Raw]

\* memcpy of s to position i, as far as that goes.
Put(m, i, s) ==
    SubSeq(m, 1, i) \o s \o SubSeq(m, i + Len(s) + 1, Len(m))

ready == mWritePos - mReadPos
empty == mCapacity - (IF mType = "Ring" THEN ready ELSE mWritePos)
Ready == SubSeq(mData, mReadPos + 1, mWritePos)

\* Buffer(capacity, type)
Alloc(type, capacity) ==
    /\ mType = type /\ mCapacity = capacity
    /\ mReadPos = 0 /\ mWritePos = 0
    /\ mData = Resized(<<>>, Allocated(type, capacity))
    /\ stream = <<>>

\* Buffer(s, n): without n there is room for all of s, and nothing is copied.
Duplicate(type, s, n) ==
    /\ mType = type /\ mCapacity = IF n = 0 THEN Len(s) ELSE n
    /\ mReadPos = 0 /\ mWritePos = n
    /\ mData = Put(Resized(<<>>, Allocated(type, mCapacity)), 0, SubSeq(s, 1, n))
    /\ stream = SubSeq(s, 1, n)

Init ==
    /\ misused = FALSE
    /\ \E type \in {"Linear", "Ring"} :
        \/ \E c \in Capacities : Alloc(type, c)
        \/ \E s \in Transfers : \E n \in 0 .. Len(s) : Duplicate(type, s, n)

\* _rewind, at the end of every transfer; r and w are the new positions.
(* Mutant: only when the whole memory has been read. *)
MovesLate(r) == r >= Len(mData)
MovesToFront(r) == r >= mCapacity

Rewind(r, w, m) ==
    IF mType = "Linear" THEN mReadPos' = r /\ mWritePos' = w /\ mData' = m
    ELSE IF r = w THEN mReadPos' = 0 /\ mWritePos' = 0 /\ mData' = m
    ELSE IF MovesToFront(r)
    THEN mReadPos' = 0 /\ mWritePos' = w - r /\ mData' = Put(m, 0, SubSeq(m, r + 1, w))
    ELSE mReadPos' = r /\ mWritePos' = w /\ mData' = m

-----------------------------------------------------------------------------

\* write, and step after the client has written to the free room itself.
Write(s) ==
    /\ Len(s) <= empty
    /\ Rewind(mReadPos, mWritePos + Len(s), Put(mData, mWritePos, s))
    /\ stream' = stream \o s
    /\ UNCHANGED <<mType, mCapacity, misused>>

\* read, into memory or a buffer.
Read(n) ==
    /\ ready > 0
    /\ Rewind(mReadPos + Min2(n, ready), mWritePos, mData)
    /\ stream' = SubSeq(stream, Min2(n, ready) + 1, Len(stream))
    /\ UNCHANGED <<mType, mCapacity, misused>>

\* skip
Skip(n) == n <= ready /\ Read(n)

\* replace(pos, s, n) may go on into the free room.  If n is left out the
\* checks are made with 0 and the memcpy with the length of s.
Replace(pos, s, n) ==
    /\ pos < ready /\ pos + n <= ready + empty
    /\ mData' = Put(mData, mReadPos + pos, s)
    /\ misused' = (pos + Len(s) > ready + empty)
    /\ stream' = SubSeq(Put(stream, pos, s), 1, Len(stream))
    /\ UNCHANGED <<mType, mCapacity, mReadPos, mWritePos>>

\* resize leaves the positions alone, even where there is no memory any more.
Cuts(capacity) ==
    IF mType = "Linear" THEN mWritePos > capacity
    ELSE ready > capacity \/ mReadPos >= capacity

Resize(capacity) ==
    /\ mCapacity' = capacity
    /\ mData' = Resized(mData, Allocated(mType, capacity))
    /\ misused' = Cuts(capacity)
    /\ UNCHANGED <<mType, mReadPos, mWritePos, stream>>

Reset ==
    /\ mReadPos' = 0 /\ mWritePos' = 0
    /\ stream' = <<>>
    /\ UNCHANGED <<mType, mCapacity, mData, misused>>

\* A run ends with the first misuse: empty() would wrap around.
Next ==
    /\ ~misused
    /\ \/ \E s \in Transfers :
            \/ Write(s)
            \/ \E pos \in 0 .. ready, n \in {0, Len(s)} : Replace(pos, s, n)
       \/ \E n \in Counts : Read(n) \/ Skip(n)
       \/ \E c \in Capacities : Resize(c)
       \/ Reset

Spec == Init /\ [][Next]_vars

-----------------------------------------------------------------------------

\* A reader finds what has been written and not yet read, in that order,
\* wherever the ring has moved it, and no write has left the memory, although
\* only the capacity is tested.
ReadsWhatWasWritten ==
    misused \/ (Ready = stream /\ Len(mData) = Allocated(mType, mCapacity))
=============================================================================
