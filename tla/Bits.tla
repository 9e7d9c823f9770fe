-------------------------------- MODULE Bits --------------------------------
(***************************************************************************)
(* BitWriter and BitReader (tools/Bits.cpp): values of any number of bits, *)
(* most significant bit first, through a reservoir.  A byte has Width bits *)
(* here, so that words of eight bytes stay small numbers.  The writer      *)
(* fills memory, then a reader reads it.                                   *)
(***************************************************************************)
EXTENDS Naturals, Sequences
LOCAL INSTANCE SequencesExt

CONSTANTS
    Width,
    mSize,          \* bytes of memory
    Words,          \* values to write, of which a call takes the lower bits
    Lengths,        \* how many bits are written or skipped at once
    MaxWrites       \* bound on the calls of the writer

VARIABLES
    mData,
    writer,     \* mHead, mReservoir, mBitsPopulated
    reader,     \* mHead, mReservoir, mBitsLeft; NoReader before reading
    bits,       \* what has been written: a history variable
    pos,        \* how many of them have been read: a history variable
    writes,     \* calls of the writer
    spoiled     \* higher bits of a value have changed those before it

vars == <<mData, writer, reader, bits, pos, writes, spoiled>>

NoReader == [mHead |-> 0]
ByteSize == 2 ^ Width
BitsOf(x, n) == [i \in 1 .. n |-> (x \div 2 ^ (n - i)) % 2]
Number(bs) == FoldLeft(LAMBDA v, b : 2 * v + b, 0, bs)

\* x | y, of n bits.
Either(x, y, n) ==
    Number([i \in 1 .. n |-> IF BitsOf(x, n)[i] = 1 \/ BitsOf(y, n)[i] = 1 THEN 1 ELSE 0])

\* The k lower bytes of x in both orders.
BigEndian(x, k) == [i \in 1 .. k |-> (x \div ByteSize ^ (k - i)) % ByteSize]
LittleEndian(x, k) == Reverse(BigEndian(x, k))
AllBits(bytes) == FlattenSeq([i \in DOMAIN bytes |-> BitsOf(bytes[i], Width)])

NewWriter == [mHead |-> 0, mReservoir |-> 0, mBitsPopulated |-> 0]

Init ==
    /\ mData = [i \in 1 .. mSize |-> 0]
    /\ writer = NewWriter
    /\ reader = NoReader
    /\ bits = <<>> /\ pos = 0 /\ writes = 0 /\ spoiled = FALSE

-----------------------------------------------------------------------------

\* write(x, n) on a writer w over the memory m: x is not masked.  Full bytes
\* leave the reservoir.
Put(at, x, n) ==
    LET w == at.w
        reservoir == Either(w.mReservoir * 2 ^ n, x, 8 * Width)
        populated == w.mBitsPopulated + n
        full == populated \div Width
        left == populated % Width IN
    [w |-> [mHead |-> w.mHead + full, mBitsPopulated |-> left,
            mReservoir |-> IF full = 0 THEN reservoir ELSE reservoir % 2 ^ left],
     m |-> [i \in 1 .. mSize |->
            IF i > w.mHead /\ i <= w.mHead + full
            THEN (reservoir \div 2 ^ (populated - Width * (i - w.mHead))) % ByteSize
            ELSE at.m[i]]]

\* w8: straight to memory between bytes.
PutByte(at, x) ==
    IF at.w.mBitsPopulated = 0
    THEN [w |-> [at.w EXCEPT !.mHead = @ + 1], m |-> [at.m EXCEPT ![at.w.mHead + 1] = x]]
    ELSE Put(at, x, Width)

\* What wl16 ... wb64 hand to w8, one after the other.
wl16(x) == <<x % ByteSize, (x \div ByteSize) % ByteSize>>
wl24(x) == <<x % ByteSize>> \o wl16(x \div ByteSize)
wl32(x) == wl16(x % ByteSize ^ 2) \o wl16(x \div ByteSize ^ 2)
wl64(x) == wl32(x % ByteSize ^ 4) \o wl32(x \div ByteSize ^ 4)
wb16(x) == <<(x \div ByteSize) % ByteSize, x % ByteSize>>
wb24(x) == wb16(x \div ByteSize) \o <<x % ByteSize>>
wb32(x) == wb16(x \div ByteSize ^ 2) \o wb16(x % ByteSize ^ 2)
wb64(x) == wb32(x \div ByteSize ^ 4) \o wb32(x % ByteSize ^ 4)

numBitsLeft == Width * (mSize - writer.mHead) - writer.mBitsPopulated
Start == [w |-> writer, m |-> mData]

Become(at, more) ==
    /\ reader = NoReader /\ Len(more) <= numBitsLeft
    /\ writer' = at.w /\ mData' = at.m
    /\ bits' = bits \o more
    /\ UNCHANGED <<reader, pos>>

Write(word, n) ==
    LET x == word % ByteSize ^ 4 IN
    /\ Become(Put(Start, x, n), BitsOf(x % 2 ^ n, n))
    /\ spoiled' = (x >= 2 ^ n /\ writer.mBitsPopulated > 0)

\* writeS and writeB are a sequence of w8 too.
WriteBytes(bytes, expected) ==
    /\ Become(FoldLeft(PutByte, Start, bytes), AllBits(expected))
    /\ UNCHANGED spoiled

WriteWord(x) ==
    \/ WriteBytes(<<x % ByteSize>>, BigEndian(x, 1))
    \/ WriteBytes(wl16(x), LittleEndian(x, 2))
    \/ WriteBytes(wl24(x), LittleEndian(x, 3))
    \/ WriteBytes(wl32(x), LittleEndian(x, 4))
    \/ WriteBytes(wl64(x), LittleEndian(x, 8))
    \/ WriteBytes(wb16(x), BigEndian(x, 2))
    \/ WriteBytes(wb24(x), BigEndian(x, 3))
    \/ WriteBytes(wb32(x), BigEndian(x, 4))
    \/ WriteBytes(wb64(x), BigEndian(x, 8))

\* write() fills the last byte with zeros.
Padding == (Width - writer.mBitsPopulated) % Width
Flush ==
    /\ Padding # 0
    /\ Become(Put(Start, 0, Padding), BitsOf(0, Padding))
    /\ UNCHANGED spoiled

\* reset() begins again over memory that keeps what was written.
ResetWriter ==
    /\ reader = NoReader
    /\ writer' = NewWriter /\ bits' = <<>>
    /\ UNCHANGED <<mData, reader, pos, spoiled>>

-----------------------------------------------------------------------------

NewReader == [mHead |-> 0, mReservoir |-> 0, mBitsLeft |-> 0]
mLength == writer.mHead
Remains(r) == Width * (mLength - r.mHead) + r.mBitsLeft

\* show(n) fills the reservoir if it has to ...
Load(r, n) ==
    LET wanted == (n - r.mBitsLeft + Width - 1) \div Width
        k == IF wanted + r.mHead > mLength THEN mLength - r.mHead ELSE wanted
        bytes == SubSeq(mData, r.mHead + 1, r.mHead + k) IN
    IF n <= r.mBitsLeft THEN r
    ELSE [mHead |-> r.mHead + k,
          mReservoir |-> FoldLeft(LAMBDA v, b : v * ByteSize + b, r.mReservoir, bytes),
          mBitsLeft |-> r.mBitsLeft + Width * k]

\* ... and takes n bits from its upper end;
Shown(r, n) == (Load(r, n).mReservoir \div 2 ^ (Load(r, n).mBitsLeft - n)) % 2 ^ n

\* read(n) removes them.
AfterRead(r, n) ==
    LET l == Load(r, n) IN
    [l EXCEPT !.mReservoir = @ % 2 ^ (l.mBitsLeft - n), !.mBitsLeft = @ - n]

\* k times r8.
Bytes(r, k) ==
    FoldLeft(LAMBDA at, i : [r |-> AfterRead(at.r, Width),
                             s |-> Append(at.s, Shown(at.r, Width))],
             [r |-> r, s |-> <<>>], [i \in 1 .. k |-> i])

\* readB copies memory between bytes; readS too, but its String ends at a zero.
ReadBytes(r, k) ==
    IF r.mBitsLeft = 0
    THEN [r |-> [r EXCEPT !.mHead = @ + k], s |-> SubSeq(mData, r.mHead + 1, r.mHead + k)]
    ELSE Bytes(r, k)

\* What rl16 ... rb64 make of the bytes that r8 returns.
rl16(s) == s[1] + ByteSize * s[2]
rl24(s) == s[1] + ByteSize * rl16(SubSeq(s, 2, 3))
rl32(s) == rl16(s) + ByteSize ^ 2 * rl16(SubSeq(s, 3, 4))
rl64(s) == rl32(s) + ByteSize ^ 4 * rl32(SubSeq(s, 5, 8))
rb16(s) == s[2] + ByteSize * s[1]
rb24(s) == s[3] + ByteSize * rb16(s)
rb32(s) == rb16(SubSeq(s, 3, 4)) + ByteSize ^ 2 * rb16(s)
rb64(s) == rb32(SubSeq(s, 5, 8)) + ByteSize ^ 4 * rb32(s)

(* Mutant: the bits that are skipped of the last byte are kept. *)
LeftKept(n) == n
\* The bits left of a byte of which n are skipped.
LeftOf(n) == Width - n

AfterSkip(r, n) ==
    LET m == n - r.mBitsLeft
        head == r.mHead + m \div Width IN
    IF n <= r.mBitsLeft
    THEN [r EXCEPT !.mBitsLeft = @ - n, !.mReservoir = @ % 2 ^ (r.mBitsLeft - n)]
    ELSE IF m % Width = 0 THEN [mHead |-> head, mReservoir |-> 0, mBitsLeft |-> 0]
    ELSE [mHead |-> head + 1, mBitsLeft |-> LeftOf(m % Width),
          mReservoir |-> mData[head + 1] % 2 ^ LeftOf(m % Width)]

ReaderGoes(r, p) ==
    /\ reader # NoReader
    /\ reader' = r /\ pos' = p
    /\ UNCHANGED <<mData, writer, bits, writes, spoiled>>

\* The reader is made when nothing is left in the writer's reservoir.
Open ==
    /\ reader = NoReader /\ writer.mBitsPopulated = 0
    /\ reader' = NewReader
    /\ UNCHANGED <<mData, writer, bits, pos, writes, spoiled>>

Fits(n) == reader # NoReader /\ n <= Remains(reader)

Show(n) == Fits(n) /\ ReaderGoes(Load(reader, n), pos)
Read(n) == Fits(n) /\ ReaderGoes(AfterRead(reader, n), pos + n)
Skip(n) == Fits(n) /\ ReaderGoes(AfterSkip(reader, n), pos + n)
ReadBuffer(k) == Fits(Width * k) /\ ReaderGoes(ReadBytes(reader, k).r, pos + Width * k)
ReadWord(k) == Fits(Width * k) /\ ReaderGoes(Bytes(reader, k).r, pos + Width * k)
Reset == ReaderGoes(NewReader, 0)

\* seek(n) starts again.
Seek(n) == n <= Width * mLength /\ ReaderGoes(AfterSkip(NewReader, n), n)

\* skip(): the rest of the byte, and whole bytes that show has loaded.
SkipTrailing ==
    /\ reader # NoReader /\ reader.mBitsLeft > 0
    /\ Skip(reader.mBitsLeft)

-----------------------------------------------------------------------------

\* The run ends when a value has spoiled what is before it.
Next ==
    /\ ~spoiled
    /\ \/ /\ writes < MaxWrites /\ writes' = writes + 1
          /\ \E x \in Words : \/ \E n \in Lengths : Write(x, n)
                              \/ WriteWord(x)
       \/ (Flush \/ ResetWriter) /\ UNCHANGED writes
       \/ Open
       \/ \E n \in Lengths : Show(n) \/ Read(n) \/ Skip(n) \/ Seek(n)
       \/ \E k \in {1, 2, 3, 4, 8} : ReadBuffer(k) \/ ReadWord(k)
       \/ Reset
       \/ SkipTrailing

Spec == Init /\ [][Next]_vars

-----------------------------------------------------------------------------

\* Whatever has been shown, read or skipped before, the reader returns the
\* bits that the writer was given at its place: as a number of up to four
\* bytes, as bytes, and as words in the order they were written in.
ReadsBackWhatWasWritten ==
    reader # NoReader /\ ~spoiled =>
        LET ahead == SubSeq(bits, pos + 1, Len(bits))
            bytes(k) == [i \in 1 .. k |-> Number(SubSeq(ahead, Width * (i - 1) + 1, Width * i))]
            s(k) == Bytes(reader, k).s
            Has(k) == Width * k <= Len(ahead) IN
        /\ Remains(reader) = Len(ahead)
        /\ Width * reader.mHead - reader.mBitsLeft = pos
        /\ \A n \in 1 .. 4 * Width :
            n <= Len(ahead) => Shown(reader, n) = Number(SubSeq(ahead, 1, n))
        /\ \A k \in 1 .. 4 : Has(k) => s(k) = bytes(k) /\ ReadBytes(reader, k).s = bytes(k)
        /\ Has(2) => LittleEndian(rl16(s(2)), 2) = bytes(2) /\ BigEndian(rb16(s(2)), 2) = bytes(2)
        /\ Has(3) => LittleEndian(rl24(s(3)), 3) = bytes(3) /\ BigEndian(rb24(s(3)), 3) = bytes(3)
        /\ Has(4) => LittleEndian(rl32(s(4)), 4) = bytes(4) /\ BigEndian(rb32(s(4)), 4) = bytes(4)
        /\ Has(8) => LittleEndian(rl64(s(8)), 8) = bytes(8) /\ BigEndian(rb64(s(8)), 8) = bytes(8)
=============================================================================
