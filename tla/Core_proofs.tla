---------------------------- MODULE Core_proofs ----------------------------
(***************************************************************************)
(* Theorems about Buffer, Content, Message and String for every set of     *)
(* capacities, of files, of messages, names and objects, and of strings    *)
(* and arguments, as parts of MCCore.                                      *)
(***************************************************************************)
EXTENDS MCCore, SequenceTheorems, FiniteSetTheorems, WellFoundedInduction, TLAPS

(* Buffer: what is read is what was written. *)

BytesTypeOK ==
    /\ mType \in {"Linear", "Ring"}
    /\ mCapacity \in Nat /\ mReadPos \in Nat /\ mWritePos \in Nat
    /\ mData \in Seq(Bytes \cup {Raw}) /\ stream \in Seq(Bytes)

\* The positions are inside the memory: a ring that begins below its capacity
\* and holds no more than that ends below twice as much.
PositionsInv ==
    /\ mReadPos <= mWritePos
    /\ Len(mData) = R!Allocated(mType, mCapacity)
    /\ mType = "Linear" => mWritePos <= mCapacity
    /\ mType = "Ring" =>
        /\ R!ready <= mCapacity
        /\ mReadPos = 0 \/ mReadPos < mCapacity

\* What is between them is the stream.
StreamInv ==
    /\ Len(stream) = R!ready
    /\ \A i \in 1 .. Len(stream) : stream[i] = mData[mReadPos + i]

BytesInv == BytesTypeOK /\ (~misused => PositionsInv /\ StreamInv)

-----------------------------------------------------------------------------
(* The elements of s from i + 1 to j. *)
LEMMA SubSeqFacts ==
    ASSUME NEW A, NEW s \in Seq(A), NEW i \in Nat, NEW j \in Nat, i <= j, j <= Len(s)
    PROVE  /\ SubSeq(s, i + 1, j) \in Seq(A) /\ Len(SubSeq(s, i + 1, j)) = j - i
           /\ \A k \in 1 .. j - i : SubSeq(s, i + 1, j)[k] = s[i + k]
<1> DEFINE r == SubSeq(s, i + 1, j)
<1>1. Len(s) \in Nat /\ i + 1 \in Int /\ j \in Int
  OBVIOUS
<1>2. \A k \in i + 1 .. j : s[k] \in A
  BY <1>1
<1> HIDE DEF r
<1>3. /\ r \in Seq(A) /\ Len(r) = IF i + 1 <= j THEN j - (i + 1) + 1 ELSE 0
      /\ \A k \in 1 .. j - (i + 1) + 1 : r[k] = s[i + 1 + k - 1]
  BY <1>1, <1>2, SubSeqProperties DEF r
<1>4. Len(r) = j - i
  BY <1>3
<1>5. \A k \in 1 .. j - i : r[k] = s[i + k]
  <2> TAKE k \in 1 .. j - i
  <2>1. k \in 1 .. j - (i + 1) + 1 /\ i + 1 + k - 1 = i + k
    OBVIOUS
  <2> QED
    BY <1>3, <2>1
<1> QED
  BY <1>3, <1>4, <1>5 DEF r

(* memcpy inside a sequence changes what it covers and nothing else. *)
LEMMA PutFacts ==
    ASSUME NEW A, NEW m \in Seq(A), NEW s \in Seq(A), NEW i \in Nat, i <= Len(m)
    PROVE  /\ R!Put(m, i, s) \in Seq(A)
           /\ i + Len(s) <= Len(m) =>
                /\ Len(R!Put(m, i, s)) = Len(m)
                /\ \A k \in 1 .. Len(m) : R!Put(m, i, s)[k] =
                      IF k > i /\ k <= i + Len(s) THEN s[k - i] ELSE m[k]
<1> DEFINE a == SubSeq(m, 1, i)
           b == SubSeq(m, i + Len(s) + 1, Len(m))
<1>0. Len(m) \in Nat /\ Len(s) \in Nat
  OBVIOUS
<1>1. /\ a \in Seq(A) /\ Len(a) = i
      /\ \A k \in 1 .. i : a[k] = m[k]
  <2>1. \A k \in 1 .. i : m[k] \in A
    BY <1>0
  <2> HIDE DEF a
  <2>2. /\ a \in Seq(A) /\ Len(a) = IF 1 <= i THEN i - 1 + 1 ELSE 0
        /\ \A k \in 1 .. i - 1 + 1 : a[k] = m[1 + k - 1]
    BY <2>1, SubSeqProperties DEF a
  <2> QED
    BY <2>2
<1>2. /\ b \in Seq(A)
      /\ i + Len(s) <= Len(m) => Len(b) = Len(m) - i - Len(s)
      /\ \A k \in 1 .. Len(m) - i - Len(s) : b[k] = m[i + Len(s) + k]
  <2>1. \A k \in i + Len(s) + 1 .. Len(m) : m[k] \in A
    BY <1>0
  <2> HIDE DEF b
  <2>2. /\ b \in Seq(A)
        /\ Len(b) = IF i + Len(s) + 1 <= Len(m) THEN Len(m) - (i + Len(s) + 1) + 1 ELSE 0
        /\ \A k \in 1 .. Len(m) - (i + Len(s) + 1) + 1 : b[k] = m[i + Len(s) + 1 + k - 1]
    BY <1>0, <2>1, SubSeqProperties, i + Len(s) + 1 \in Int, Len(m) \in Int DEF b
  <2> QED
    BY <1>0, <2>2
<1> HIDE DEF a, b
<1>3. /\ a \o s \in Seq(A) /\ Len(a \o s) = i + Len(s)
      /\ \A k \in 1 .. i + Len(s) : (a \o s)[k] = IF k <= i THEN a[k] ELSE s[k - i]
  BY <1>1, ConcatProperties
<1> DEFINE c == a \o s
<1> HIDE DEF c
<1>4. /\ c \o b \in Seq(A) /\ Len(c \o b) = i + Len(s) + Len(b)
      /\ \A k \in 1 .. i + Len(s) + Len(b) : (c \o b)[k] =
            IF k <= i + Len(s) THEN c[k] ELSE b[k - (i + Len(s))]
  <2>1. c \in Seq(A) /\ Len(c) = i + Len(s)
    BY <1>3 DEF c
  <2>2. /\ c \o b \in Seq(A) /\ Len(c \o b) = Len(c) + Len(b)
        /\ \A k \in 1 .. Len(c) + Len(b) : (c \o b)[k] =
              IF k <= Len(c) THEN c[k] ELSE b[k - Len(c)]
    <3>1. b \in Seq(A) /\ c \in Seq(A)
      BY <1>2, <2>1
    <3> QED
      BY <3>1, ConcatProperties
  <2> QED
    BY <2>1, <2>2
<1>5. R!Put(m, i, s) = c \o b
  BY DEF R!Put, a, b, c
<1>6. ASSUME i + Len(s) <= Len(m), NEW k \in 1 .. Len(m)
      PROVE  (c \o b)[k] = IF k > i /\ k <= i + Len(s) THEN s[k - i] ELSE m[k]
  BY <1>0, <1>1, <1>2, <1>3, <1>4, <1>6 DEF c
<1> QED
  BY <1>0, <1>2, <1>4, <1>5, <1>6

(* Positions inside the memory, and a stream that lies between them, are what  *)
(* ReadsWhatWasWritten says.                                                   *)
LEMMA ReadyIsStream ==
    ASSUME BytesInv
    PROVE  R!ReadsWhatWasWritten
<1> SUFFICES ASSUME ~misused PROVE R!Ready = stream /\ Len(mData) = R!Allocated(mType, mCapacity)
  BY DEF R!ReadsWhatWasWritten
<1>1. /\ mReadPos \in Nat /\ mWritePos \in Nat /\ mReadPos <= mWritePos
      /\ mWritePos <= Len(mData) /\ Len(mData) \in Nat
  BY DEF BytesInv, BytesTypeOK, PositionsInv, R!ready, R!Allocated
<1>2. \A k \in mReadPos + 1 .. mWritePos : mData[k] \in Bytes \cup {Raw}
  BY <1>1 DEF BytesInv, BytesTypeOK
<1>3. /\ R!Ready \in Seq(Bytes \cup {Raw})
      /\ Len(R!Ready) = IF mReadPos + 1 <= mWritePos THEN mWritePos - (mReadPos + 1) + 1 ELSE 0
      /\ \A i \in 1 .. mWritePos - (mReadPos + 1) + 1 : R!Ready[i] = mData[mReadPos + 1 + i - 1]
  BY <1>1, <1>2, SubSeqProperties, mReadPos + 1 \in Int, mWritePos \in Int DEF R!Ready
<1>4. /\ stream \in Seq(Bytes \cup {Raw}) /\ Len(stream) = mWritePos - mReadPos
      /\ \A i \in 1 .. Len(stream) : stream[i] = mData[mReadPos + i]
  BY DEF BytesInv, BytesTypeOK, StreamInv, R!ready
<1>5. Len(R!Ready) = Len(stream) /\ \A i \in 1 .. Len(R!Ready) : R!Ready[i] = stream[i]
  <2>1. Len(R!Ready) = Len(stream)
    BY <1>1, <1>3, <1>4
  <2>2. ASSUME NEW i \in 1 .. Len(R!Ready) PROVE R!Ready[i] = stream[i]
    <3>1. i \in 1 .. mWritePos - (mReadPos + 1) + 1 /\ i \in 1 .. Len(stream)
      BY <1>1, <1>4, <2>1
    <3>2. mReadPos + 1 + i - 1 = mReadPos + i
      BY <1>1
    <3> QED
      BY <1>3, <1>4, <3>1, <3>2
  <2> QED
    BY <2>1, <2>2
<1>6. R!Ready = stream
  BY <1>3, <1>4, <1>5, SeqEqual
<1> QED
  BY <1>6 DEF BytesInv, PositionsInv

(* A transfer ends with both positions moved or with the bytes at the front. *)
LEMMA RewindKeeps ==
    ASSUME BytesTypeOK, NEW r \in Nat, NEW w \in Nat, NEW m \in Seq(Bytes \cup {Raw}),
           R!Rewind(r, w, m), r <= w, w <= Len(m),
           Len(m) = R!Allocated(mType, mCapacity),
           mType = "Linear" => w <= mCapacity,
           mType = "Ring" => w - r <= mCapacity,
           mType' = mType, mCapacity' = mCapacity, misused' = misused,
           stream' \in Seq(Bytes), Len(stream') = w - r,
           \A i \in 1 .. Len(stream') : stream'[i] = m[r + i]
    PROVE  BytesInv'
<1> USE DEF BytesTypeOK
<1>0. Len(m) \in Nat
  OBVIOUS
<1>1. CASE mReadPos' = r /\ mWritePos' = w /\ mData' = m /\ (mType = "Ring" => r < mCapacity)
  BY <1>1 DEF BytesInv, PositionsInv, StreamInv, R!ready, R!Allocated
<1>2. CASE r = w /\ mReadPos' = 0 /\ mWritePos' = 0 /\ mData' = m
  BY <1>2 DEF BytesInv, PositionsInv, StreamInv, R!ready, R!Allocated
<1>3. CASE /\ mType = "Ring" /\ mReadPos' = 0 /\ mWritePos' = w - r
           /\ mData' = R!Put(m, 0, SubSeq(m, r + 1, w))
  <2> DEFINE s == SubSeq(m, r + 1, w)
  <2>1. \A k \in r + 1 .. w : m[k] \in Bytes \cup {Raw}
    BY <1>0
  <2>2. /\ s \in Seq(Bytes \cup {Raw})
        /\ Len(s) = IF r + 1 <= w THEN w - (r + 1) + 1 ELSE 0
        /\ \A i \in 1 .. w - (r + 1) + 1 : s[i] = m[r + 1 + i - 1]
    <3> HIDE DEF s
    <3> QED
      BY <2>1, SubSeqProperties, r + 1 \in Int, w \in Int DEF s
  <2> HIDE DEF s
  <2>3. Len(s) = w - r /\ \A i \in 1 .. w - r : s[i] = m[r + i]
    BY <2>2
  <2>4. /\ mData' \in Seq(Bytes \cup {Raw}) /\ Len(mData') = Len(m)
        /\ \A k \in 1 .. Len(m) : mData'[k] = IF k > 0 /\ k <= 0 + Len(s) THEN s[k - 0] ELSE m[k]
    <3>1. R!Put(m, 0, s) = mData' /\ 0 + Len(s) <= Len(m) /\ 0 \in Nat /\ 0 <= Len(m)
      BY <1>0, <1>3, <2>3 DEF s
    <3>2. /\ R!Put(m, 0, s) \in Seq(Bytes \cup {Raw}) /\ Len(R!Put(m, 0, s)) = Len(m)
          /\ \A k \in 1 .. Len(m) : R!Put(m, 0, s)[k] =
                IF k > 0 /\ k <= 0 + Len(s) THEN s[k - 0] ELSE m[k]
      <4>1. s \in Seq(Bytes \cup {Raw}) /\ 0 \in Nat /\ 0 <= Len(m) /\ 0 + Len(s) <= Len(m)
        BY <2>2, <3>1
      <4> QED
        BY <4>1, PutFacts
    <3> QED
      BY <3>1, <3>2
  <2>5. \A i \in 1 .. w - r : mData'[0 + i] = m[r + i]
    <3> SUFFICES ASSUME NEW i \in 1 .. w - r PROVE mData'[0 + i] = m[r + i]
      OBVIOUS
    <3>1. i \in 1 .. Len(m) /\ i > 0 /\ i <= 0 + Len(s) /\ i - 0 = i /\ 0 + i = i
      BY <1>0, <2>3
    <3> QED
      BY <2>3, <2>4, <3>1
  <2> QED
    BY <1>3, <2>4, <2>5 DEF BytesInv, PositionsInv, StreamInv, R!ready, R!Allocated
<1> QED
  BY <1>1, <1>2, <1>3 DEF R!Rewind, R!MovesToFront

-----------------------------------------------------------------------------
LEMMA TransfersAreSequences ==
    ASSUME NEW s \in R!Transfers
    PROVE  s \in Seq(Bytes) /\ s \in Seq(Bytes \cup {Raw}) /\ Len(s) \in Nat \ {0}
<1>1. PICK n \in 1 .. MaxTransfer : s \in [1 .. n -> Bytes]
  BY DEF R!Transfers
<1>2. n \in Nat \ {0}
  BY BytesAssumption
<1> QED
  BY <1>1, <1>2

\* What a step finds: the memory's bounds, and where the free room ends.
LEMMA BytesFacts ==
    ASSUME BytesInv, ~misused
    PROVE  /\ BytesTypeOK /\ PositionsInv /\ StreamInv
           /\ mReadPos \in Nat /\ mWritePos \in Nat /\ mCapacity \in Nat /\ Len(mData) \in Nat
           /\ mReadPos <= mWritePos /\ mWritePos <= Len(mData)
           /\ Len(stream) = mWritePos - mReadPos /\ R!ready = mWritePos - mReadPos
           /\ R!empty \in Nat /\ mWritePos + R!empty <= Len(mData)
           /\ mType = "Linear" => mWritePos + R!empty <= mCapacity
           /\ mType = "Ring" => R!ready + R!empty <= mCapacity
  BY DEF BytesInv, BytesTypeOK, PositionsInv, StreamInv, R!ready, R!empty, R!Allocated

LEMMA WriteStep ==
    ASSUME BytesInv, ~misused, NEW s \in R!Transfers, R!Write(s)
    PROVE  BytesInv'
<1> DEFINE w == mWritePos + Len(s)
           m == R!Put(mData, mWritePos, s)
<1>1. /\ s \in Seq(Bytes) /\ s \in Seq(Bytes \cup {Raw}) /\ Len(s) \in Nat /\ Len(s) <= R!empty
  BY TransfersAreSequences DEF R!Write
<1>2. /\ mData \in Seq(Bytes \cup {Raw}) /\ mWritePos \in Nat /\ mWritePos <= Len(mData)
      /\ mWritePos + Len(s) <= Len(mData)
  BY <1>1, BytesFacts DEF BytesTypeOK
<1>3. /\ m \in Seq(Bytes \cup {Raw}) /\ Len(m) = Len(mData)
      /\ \A k \in 1 .. Len(mData) : m[k] =
            IF k > mWritePos /\ k <= mWritePos + Len(s) THEN s[k - mWritePos] ELSE mData[k]
  <2> HIDE DEF m
  <2>1. s \in Seq(Bytes \cup {Raw})
    BY <1>1
  <2> QED
    BY <2>1, <1>2, PutFacts DEF m
<1> HIDE DEF m
<1>4. /\ stream' = stream \o s /\ mType' = mType /\ mCapacity' = mCapacity /\ misused' = misused
      /\ R!Rewind(mReadPos, w, m)
  BY DEF R!Write, m
<1>5. stream \in Seq(Bytes) /\ Len(stream) = mWritePos - mReadPos
  BY BytesFacts DEF BytesTypeOK
<1>6. /\ stream' \in Seq(Bytes) /\ Len(stream') = Len(stream) + Len(s)
      /\ \A k \in 1 .. Len(stream) + Len(s) : stream'[k] =
            IF k <= Len(stream) THEN stream[k] ELSE s[k - Len(stream)]
  <2>1. s \in Seq(Bytes) /\ stream \in Seq(Bytes)
    BY <1>1, <1>5
  <2>2. /\ stream \o s \in Seq(Bytes) /\ Len(stream \o s) = Len(stream) + Len(s)
        /\ \A k \in 1 .. Len(stream) + Len(s) : (stream \o s)[k] =
              IF k <= Len(stream) THEN stream[k] ELSE s[k - Len(stream)]
    BY <2>1, ConcatProperties
  <2> QED
    BY <2>2, <1>4
<1>7. ASSUME NEW i \in 1 .. Len(stream')
      PROVE  stream'[i] = m[mReadPos + i]
  <2>1. /\ mReadPos \in Nat /\ mReadPos <= mWritePos
        /\ \A k \in 1 .. Len(stream) : stream[k] = mData[mReadPos + k]
    BY BytesFacts DEF StreamInv
  <2>2. CASE i <= Len(stream)
    <3>1. stream'[i] = stream[i] /\ stream[i] = mData[mReadPos + i]
      BY <1>1, <1>5, <1>6, <2>1, <2>2
    <3>2. mReadPos + i \in 1 .. Len(mData) /\ ~(mReadPos + i > mWritePos)
      BY <1>2, <1>5, <2>1, <2>2
    <3>3. m[mReadPos + i] = mData[mReadPos + i]
      BY <1>3, <3>2
    <3> QED
      BY <3>1, <3>3
  <2>3. CASE i > Len(stream)
    <3>1. stream'[i] = s[i - Len(stream)]
      BY <1>1, <1>5, <1>6, <2>3
    <3>2. /\ mReadPos + i \in 1 .. Len(mData) /\ mReadPos + i > mWritePos
          /\ mReadPos + i <= mWritePos + Len(s) /\ (mReadPos + i) - mWritePos = i - Len(stream)
      BY <1>1, <1>2, <1>5, <1>6, <2>1, <2>3
    <3>3. \A k \in 1 .. Len(mData) :
             k > mWritePos /\ k <= mWritePos + Len(s) => m[k] = s[k - mWritePos]
      BY <1>3
    <3> DEFINE j == mReadPos + i
    <3>4. m[j] = s[j - mWritePos]
      <4> HIDE DEF j
      <4>1. j \in 1 .. Len(mData) /\ j > mWritePos /\ j <= mWritePos + Len(s)
        BY <3>2 DEF j
      <4> QED
        BY <3>3, <4>1
    <3>5. j - mWritePos = i - Len(stream)
      BY <3>2
    <3> HIDE DEF j
    <3>6. m[j] = s[i - Len(stream)]
      BY <3>4, <3>5
    <3> QED
      BY <3>1, <3>6 DEF j
  <2> QED
    BY <1>1, <1>5, <1>6, <2>2, <2>3
<1>8. /\ w \in Nat /\ mReadPos \in Nat /\ mReadPos <= w /\ w <= Len(m)
      /\ Len(m) = R!Allocated(mType, mCapacity)
      /\ mType = "Linear" => w <= mCapacity
      /\ mType = "Ring" => w - mReadPos <= mCapacity
      /\ Len(stream') = w - mReadPos
  BY <1>1, <1>2, <1>3, <1>5, <1>6, BytesFacts DEF PositionsInv
<1> HIDE DEF w
<1> QED
  BY <1>3, <1>4, <1>6, <1>7, <1>8, RewindKeeps DEF BytesInv

LEMMA ReadStep ==
    ASSUME BytesInv, ~misused, NEW n \in R!Counts, R!Read(n)
    PROVE  BytesInv'
<1> DEFINE d == R!Min2(n, R!ready)
           r == mReadPos + d
<1>1. n \in Nat
  BY BytesAssumption DEF R!Counts
<1>2. d \in Nat /\ d <= mWritePos - mReadPos /\ r \in Nat /\ r <= mWritePos
  BY <1>1, BytesFacts DEF R!Min2, R!Read
<1>3. /\ stream' = SubSeq(stream, d + 1, Len(stream))
      /\ mType' = mType /\ mCapacity' = mCapacity /\ misused' = misused
      /\ R!Rewind(r, mWritePos, mData)
  BY DEF R!Read
<1> HIDE DEF d
<1>4. /\ mReadPos \in Nat /\ mWritePos \in Nat /\ mReadPos <= mWritePos
      /\ stream \in Seq(Bytes) /\ Len(stream) = mWritePos - mReadPos
      /\ \A k \in 1 .. Len(stream) : stream[k] = mData[mReadPos + k]
  BY BytesFacts DEF BytesTypeOK, StreamInv
<1>5. /\ stream' \in Seq(Bytes) /\ Len(stream') = mWritePos - r
      /\ \A i \in 1 .. mWritePos - r : stream'[i] = stream[d + i]
  <2>1. Len(stream) \in Nat /\ d <= Len(stream) /\ Len(stream) - d = mWritePos - r
    BY <1>2, <1>4
  <2>2. /\ SubSeq(stream, d + 1, Len(stream)) \in Seq(Bytes)
        /\ Len(SubSeq(stream, d + 1, Len(stream))) = Len(stream) - d
        /\ \A i \in 1 .. Len(stream) - d :
              SubSeq(stream, d + 1, Len(stream))[i] = stream[d + i]
    BY <1>2, <1>4, <2>1, SubSeqFacts
  <2> QED
    BY <1>3, <2>1, <2>2
<1>6. ASSUME NEW i \in 1 .. Len(stream')
      PROVE  stream'[i] = mData[r + i]
  <2>1. /\ i \in 1 .. mWritePos - r /\ d + i \in 1 .. Len(stream)
        /\ mReadPos + (d + i) = r + i
    BY <1>2, <1>4, <1>5
  <2> QED
    BY <1>4, <1>5, <2>1
<1>7. /\ mData \in Seq(Bytes \cup {Raw}) /\ mWritePos <= Len(mData)
      /\ Len(mData) = R!Allocated(mType, mCapacity)
      /\ mType = "Linear" => mWritePos <= mCapacity
      /\ mType = "Ring" => mWritePos - r <= mCapacity
  BY <1>2, BytesFacts DEF BytesTypeOK, PositionsInv
<1> HIDE DEF r
<1> QED
  BY <1>2, <1>3, <1>4, <1>5, <1>6, <1>7, RewindKeeps DEF BytesInv

LEMMA ReplaceStep ==
    ASSUME BytesInv, ~misused, NEW s \in R!Transfers, NEW pos \in 0 .. R!ready,
           NEW n \in {0, Len(s)}, R!Replace(pos, s, n)
    PROVE  BytesInv'
<1> DEFINE m == R!Put(mData, mReadPos + pos, s)
           t == R!Put(stream, pos, s)
<1>1. /\ s \in Seq(Bytes) /\ s \in Seq(Bytes \cup {Raw}) /\ Len(s) \in Nat
  BY TransfersAreSequences
<1>2. /\ mReadPos \in Nat /\ mWritePos \in Nat /\ mReadPos <= mWritePos
      /\ mWritePos <= Len(mData) /\ Len(mData) \in Nat
      /\ stream \in Seq(Bytes) /\ Len(stream) = mWritePos - mReadPos
      /\ \A k \in 1 .. Len(stream) : stream[k] = mData[mReadPos + k]
      /\ mData \in Seq(Bytes \cup {Raw})
      /\ pos \in Nat /\ pos < mWritePos - mReadPos
  BY BytesFacts, SMTT(30) DEF BytesTypeOK, StreamInv, R!Replace
<1>3. /\ m \in Seq(Bytes \cup {Raw})
      /\ mReadPos + pos + Len(s) <= Len(mData) =>
            /\ Len(m) = Len(mData)
            /\ \A k \in 1 .. Len(mData) : m[k] =
                  IF k > mReadPos + pos /\ k <= mReadPos + pos + Len(s)
                  THEN s[k - (mReadPos + pos)] ELSE mData[k]
  <2>1. /\ s \in Seq(Bytes \cup {Raw}) /\ mData \in Seq(Bytes \cup {Raw})
        /\ mReadPos + pos \in Nat /\ mReadPos + pos <= Len(mData)
    BY <1>1, <1>2
  <2> HIDE DEF m
  <2> QED
    BY <2>1, PutFacts DEF m
<1> HIDE DEF m
<1>4. /\ mData' = m /\ stream' = SubSeq(t, 1, Len(stream))
      /\ misused' = (pos + Len(s) > R!ready + R!empty)
      /\ mType' = mType /\ mCapacity' = mCapacity
      /\ mReadPos' = mReadPos /\ mWritePos' = mWritePos
  BY DEF R!Replace, m
\* The stream, without what goes on behind it.
<1>5. /\ t \in Seq(Bytes)
      /\ Len(t) >= Len(stream)
      /\ \A k \in 1 .. Len(stream) : t[k] =
            IF k > pos /\ k <= pos + Len(s) THEN s[k - pos] ELSE stream[k]
  <2> DEFINE a == SubSeq(stream, 1, pos)
             b == SubSeq(stream, pos + Len(s) + 1, Len(stream))
  <2>1. a \in Seq(Bytes) /\ Len(a) = pos /\ \A k \in 1 .. pos : a[k] = stream[k]
    <3>1. \A k \in 1 .. pos : stream[k] \in Bytes
      BY <1>2
    <3> HIDE DEF a
    <3>2. /\ a \in Seq(Bytes) /\ Len(a) = IF 1 <= pos THEN pos - 1 + 1 ELSE 0
          /\ \A k \in 1 .. pos - 1 + 1 : a[k] = stream[1 + k - 1]
      BY <1>2, <3>1, SubSeqProperties DEF a
    <3>3. pos \in Nat
      BY <1>2
    <3>4. ASSUME NEW k \in 1 .. pos
          PROVE  a[k] = stream[k]
      <4>1. k \in 1 .. pos - 1 + 1 /\ 1 + k - 1 = k
        BY <3>3
      <4> QED
        BY <3>2, <4>1
    <3>5. Len(a) = pos
      BY <3>2, <3>3
    <3> QED
      BY <3>2, <3>4, <3>5
  <2>2. /\ b \in Seq(Bytes) /\ Len(b) \in Nat
        /\ pos + Len(s) <= Len(stream) => Len(b) = Len(stream) - pos - Len(s)
        /\ \A k \in 1 .. Len(stream) - pos - Len(s) : b[k] = stream[pos + Len(s) + k]
    <3>1. \A k \in pos + Len(s) + 1 .. Len(stream) : stream[k] \in Bytes
      BY <1>1, <1>2
    <3> HIDE DEF b
    <3>2. /\ b \in Seq(Bytes)
          /\ Len(b) = IF pos + Len(s) + 1 <= Len(stream)
                      THEN Len(stream) - (pos + Len(s) + 1) + 1 ELSE 0
          /\ \A k \in 1 .. Len(stream) - (pos + Len(s) + 1) + 1 :
                b[k] = stream[pos + Len(s) + 1 + k - 1]
      BY <1>1, <1>2, <3>1, SubSeqProperties, pos + Len(s) + 1 \in Int, Len(stream) \in Int DEF b
    <3>3. pos \in Nat /\ Len(s) \in Nat /\ Len(stream) \in Nat
      BY <1>1, <1>2
    <3> QED
      BY <3>2, <3>3
  <2> HIDE DEF a, b
  <2> DEFINE c == a \o s
  <2> HIDE DEF c
  <2>3. /\ c \in Seq(Bytes) /\ Len(c) = pos + Len(s)
        /\ \A k \in 1 .. pos + Len(s) : c[k] = IF k <= pos THEN a[k] ELSE s[k - pos]
    <3>1. a \in Seq(Bytes) /\ s \in Seq(Bytes)
      BY <1>1, <2>1
    <3>2. /\ a \o s \in Seq(Bytes) /\ Len(a \o s) = Len(a) + Len(s)
          /\ \A k \in 1 .. Len(a) + Len(s) : (a \o s)[k] =
                IF k <= Len(a) THEN a[k] ELSE s[k - Len(a)]
      BY <3>1, ConcatProperties
    <3> QED
      BY <2>1, <3>2 DEF c
  <2>4. /\ c \o b \in Seq(Bytes) /\ Len(c \o b) = Len(c) + Len(b)
        /\ \A k \in 1 .. Len(c) + Len(b) : (c \o b)[k] =
              IF k <= Len(c) THEN c[k] ELSE b[k - Len(c)]
    <3>1. c \in Seq(Bytes) /\ b \in Seq(Bytes)
      BY <2>2, <2>3
    <3> QED
      BY <3>1, ConcatProperties
  <2>5. t = c \o b
    BY DEF R!Put, a, b, c
  <2>6. Len(c \o b) >= Len(stream)
    BY <1>1, <1>2, <2>2, <2>3, <2>4, SMTT(30)
  <2>7. ASSUME NEW k \in 1 .. Len(stream)
        PROVE  (c \o b)[k] = IF k > pos /\ k <= pos + Len(s) THEN s[k - pos] ELSE stream[k]
    <3>1. CASE k <= pos + Len(s)
      BY <1>1, <1>2, <2>1, <2>2, <2>3, <2>4, <3>1, SMTT(30)
    <3>2. CASE k > pos + Len(s)
      <4>1. /\ k \in 1 .. Len(c) + Len(b) /\ ~(k <= Len(c))
            /\ k - Len(c) \in 1 .. Len(stream) - pos - Len(s)
            /\ pos + Len(s) + (k - Len(c)) = k
        BY <1>1, <1>2, <2>2, <2>3, <3>2
      <4>2. (c \o b)[k] = b[k - Len(c)]
        BY <2>4, <4>1
      <4>3. b[k - Len(c)] = stream[k]
        BY <2>2, <4>1
      <4>4. ~(k <= pos + Len(s))
        BY <1>1, <1>2, <3>2
      <4> QED
        BY <4>2, <4>3, <4>4
    <3>3. k <= pos + Len(s) \/ k > pos + Len(s)
      BY <1>1, <1>2
    <3> QED
      BY <3>1, <3>2, <3>3
  <2> QED
    BY <2>4, <2>5, <2>6, <2>7
<1> HIDE DEF t
<1>6. /\ stream' \in Seq(Bytes) /\ Len(stream') = Len(stream)
      /\ \A k \in 1 .. Len(stream) : stream'[k] = t[k]
  <2>1. \A k \in 1 .. Len(stream) : t[k] \in Bytes
    BY <1>2, <1>5
  <2>2. /\ SubSeq(t, 1, Len(stream)) \in Seq(Bytes)
        /\ Len(SubSeq(t, 1, Len(stream))) = IF 1 <= Len(stream) THEN Len(stream) - 1 + 1 ELSE 0
        /\ \A k \in 1 .. Len(stream) - 1 + 1 : SubSeq(t, 1, Len(stream))[k] = t[1 + k - 1]
    BY <1>2, <2>1, SubSeqProperties, Len(stream) \in Int
  <2> QED
    BY <1>2, <1>4, <2>2
<1>7. BytesTypeOK'
  BY <1>3, <1>4, <1>6, BytesFacts DEF BytesTypeOK
<1>8. ASSUME ~misused'
      PROVE  PositionsInv' /\ StreamInv'
  <2>0. ~(pos + Len(s) > R!ready + R!empty)
    BY <1>4, <1>8
  <2>1. mReadPos + pos + Len(s) <= Len(mData)
    <3>1. /\ mType \in {"Linear", "Ring"} /\ mCapacity \in Nat
          /\ mType = "Linear" => Len(mData) = mCapacity /\ R!ready + R!empty = mCapacity - mReadPos
          /\ mType = "Ring" => /\ Len(mData) = 2 * mCapacity /\ R!ready + R!empty = mCapacity
                               /\ mReadPos <= mCapacity
      BY <1>2, BytesFacts, SMTT(30) DEF BytesTypeOK, PositionsInv, R!Allocated, R!ready, R!empty
    <3> QED
      BY <1>1, <1>2, <2>0, <3>1
  <2>2. PositionsInv'
    BY <1>3, <1>4, <2>1, BytesFacts DEF PositionsInv, R!ready, R!Allocated
  <2>3. ASSUME NEW k \in 1 .. Len(stream)
        PROVE  stream'[k] = m[mReadPos + k]
    <3>1. mReadPos + k \in 1 .. Len(mData) /\ (mReadPos + k) - (mReadPos + pos) = k - pos
      BY <1>1, <1>2
    <3>2. (mReadPos + k > mReadPos + pos /\ mReadPos + k <= mReadPos + pos + Len(s))
              <=> (k > pos /\ k <= pos + Len(s))
      BY <1>1, <1>2
    <3>3. m[mReadPos + k] = IF k > pos /\ k <= pos + Len(s)
                            THEN s[k - pos] ELSE mData[mReadPos + k]
      <4>1. \A j \in 1 .. Len(mData) :
               m[j] = IF j > mReadPos + pos /\ j <= mReadPos + pos + Len(s)
                      THEN s[j - (mReadPos + pos)] ELSE mData[j]
        BY <1>3, <2>1
      <4> DEFINE j == mReadPos + k
      <4>2. m[j] = IF j > mReadPos + pos /\ j <= mReadPos + pos + Len(s)
                   THEN s[j - (mReadPos + pos)] ELSE mData[j]
        <5> HIDE DEF j
        <5>1. j \in 1 .. Len(mData)
          BY <3>1 DEF j
        <5> QED
          BY <4>1, <5>1
      <4>3. j - (mReadPos + pos) = k - pos
        BY <3>1
      <4>4. (j > mReadPos + pos /\ j <= mReadPos + pos + Len(s))
                <=> (k > pos /\ k <= pos + Len(s))
        BY <3>2
      <4> HIDE DEF j
      <4>5. m[j] = IF k > pos /\ k <= pos + Len(s) THEN s[k - pos] ELSE mData[j]
        BY <4>2, <4>3, <4>4
      <4> QED
        BY <4>5 DEF j
    <3>4. stream'[k] = IF k > pos /\ k <= pos + Len(s) THEN s[k - pos] ELSE stream[k]
      BY <1>5, <1>6
    <3> QED
      BY <1>2, <3>3, <3>4
  <2> QED
    BY <1>2, <1>4, <1>6, <2>2, <2>3 DEF StreamInv, R!ready
<1> QED
  BY <1>7, <1>8 DEF BytesInv

(* resize without a cut leaves room for what is there. *)
LEMMA ResizeStep ==
    ASSUME BytesInv, ~misused, NEW c \in Capacities, R!Resize(c)
    PROVE  BytesInv'
<1> DEFINE size == R!Allocated(mType, c)
<1>1. /\ mCapacity' = c /\ mData' = R!Resized(mData, size) /\ misused' = R!Cuts(c)
      /\ mType' = mType /\ mReadPos' = mReadPos /\ mWritePos' = mWritePos /\ stream' = stream
  BY DEF R!Resize
<1>2. c \in Nat /\ size \in Nat
  BY BytesAssumption, BytesFacts DEF R!Allocated, BytesTypeOK
<1> HIDE DEF size
<1>3. mData \in Seq(Bytes \cup {Raw}) /\ Len(mData) \in Nat
  BY BytesFacts DEF BytesTypeOK
<1>4. /\ mData' \in Seq(Bytes \cup {Raw}) /\ Len(mData') = size
      /\ \A k \in 1 .. size : k <= Len(mData) => mData'[k] = mData[k]
  <2>1. mData' = [i \in 1 .. size |-> IF i <= Len(mData) THEN mData[i] ELSE Raw]
    BY <1>1 DEF R!Resized
  <2>2. \A i \in 1 .. size : (IF i <= Len(mData) THEN mData[i] ELSE Raw) \in Bytes \cup {Raw}
    BY <1>2, <1>3
  <2> QED
    BY <1>2, <2>1, <2>2
<1>5. BytesTypeOK'
  BY <1>1, <1>2, <1>4, BytesFacts DEF BytesTypeOK
<1>6. ASSUME ~misused'
      PROVE  PositionsInv' /\ StreamInv'
  <2>1. ~R!Cuts(c)
    BY <1>1, <1>6
  <2>2. PositionsInv'
    BY <1>1, <1>2, <1>4, <2>1, BytesFacts DEF PositionsInv, BytesTypeOK, R!Cuts, R!ready, R!Allocated, size
  <2>3. mWritePos <= size
    BY <1>2, <2>1, BytesFacts DEF BytesTypeOK, R!Cuts, R!Allocated, size
  <2>4. ASSUME NEW k \in 1 .. Len(stream)
        PROVE  stream[k] = mData'[mReadPos + k]
    <3>1. /\ mReadPos + k \in 1 .. size /\ mReadPos + k <= Len(mData)
          /\ stream[k] = mData[mReadPos + k]
      BY <1>2, <2>3, BytesFacts DEF StreamInv
    <3> QED
      BY <1>4, <3>1
  <2> QED
    BY <1>1, <2>2, <2>4, BytesFacts DEF StreamInv, R!ready
<1> QED
  BY <1>5, <1>6 DEF BytesInv

LEMMA ResetStep ==
    ASSUME BytesInv, ~misused, R!Reset
    PROVE  BytesInv'
<1>1. BytesTypeOK'
  BY BytesFacts DEF BytesTypeOK, R!Reset
<1>2. PositionsInv' /\ StreamInv'
  BY BytesFacts DEF BytesTypeOK, PositionsInv, StreamInv, R!Reset, R!ready, R!Allocated
<1> QED
  BY <1>1, <1>2 DEF BytesInv

LEMMA BytesInit ==
    ASSUME R!Init
    PROVE  BytesInv
<1>1. PICK type \in {"Linear", "Ring"} :
          \/ \E c \in Capacities : R!Alloc(type, c)
          \/ \E s \in R!Transfers : \E n \in 0 .. Len(s) : R!Duplicate(type, s, n)
  BY DEF R!Init
<1>2. misused = FALSE
  BY DEF R!Init
<1>3. ASSUME NEW size \in Nat
      PROVE  /\ R!Resized(<<>>, size) \in Seq(Bytes \cup {Raw})
             /\ Len(R!Resized(<<>>, size)) = size
  BY DEF R!Resized
<1>4. CASE \E c \in Capacities : R!Alloc(type, c)
  <2>1. PICK c \in Capacities : R!Alloc(type, c)
    BY <1>4
  <2>2. c \in Nat /\ R!Allocated(type, c) \in Nat
    BY BytesAssumption DEF R!Allocated
  <2>3. /\ mData \in Seq(Bytes \cup {Raw}) /\ Len(mData) = R!Allocated(type, c)
        /\ mType = type /\ mCapacity = c /\ mReadPos = 0 /\ mWritePos = 0 /\ stream = <<>>
    BY <1>3, <2>1, <2>2 DEF R!Alloc
  <2>4. BytesTypeOK
    BY <1>2, <2>2, <2>3 DEF BytesTypeOK
  <2>5. PositionsInv /\ StreamInv
    BY <2>2, <2>3 DEF PositionsInv, StreamInv, R!ready, R!Allocated
  <2> QED
    BY <2>4, <2>5 DEF BytesInv
<1>5. CASE \E s \in R!Transfers : \E n \in 0 .. Len(s) : R!Duplicate(type, s, n)
  <2>0. PICK s \in R!Transfers : \E n \in 0 .. Len(s) : R!Duplicate(type, s, n)
    BY <1>5
  <2>1. PICK n \in 0 .. Len(s) : R!Duplicate(type, s, n)
    BY <2>0
  <2> DEFINE cap == IF n = 0 THEN Len(s) ELSE n
             t == SubSeq(s, 1, n)
             size == R!Allocated(type, cap)
             m == R!Resized(<<>>, size)
  <2>2. s \in Seq(Bytes) /\ Len(s) \in Nat \ {0} /\ n \in Nat /\ n <= Len(s)
    BY TransfersAreSequences
  <2>3. cap \in Nat /\ size \in Nat /\ n <= cap /\ cap <= size
    BY <2>2 DEF R!Allocated
  <2>4. /\ mType = type /\ mCapacity = cap /\ mReadPos = 0 /\ mWritePos = n
        /\ mData = R!Put(m, 0, t) /\ stream = t
    BY <2>1 DEF R!Duplicate
  <2> HIDE DEF cap, m, t
  <2>5. /\ t \in Seq(Bytes) /\ t \in Seq(Bytes \cup {Raw}) /\ Len(t) = n
    <3>1. \A k \in 1 .. n : s[k] \in Bytes
      BY <2>2
    <3>2. /\ t \in Seq(Bytes) /\ Len(t) = IF 1 <= n THEN n - 1 + 1 ELSE 0
      BY <2>2, <3>1, SubSeqProperties DEF t
    <3>3. t \in Seq(Bytes \cup {Raw})
      BY <3>2
    <3> QED
      BY <2>2, <3>2, <3>3
  <2>6. m \in Seq(Bytes \cup {Raw}) /\ Len(m) = size
    BY <1>3, <2>3 DEF m
  <2>7. /\ mData \in Seq(Bytes \cup {Raw}) /\ Len(mData) = size
        /\ \A k \in 1 .. size : mData[k] = IF k > 0 /\ k <= 0 + Len(t) THEN t[k - 0] ELSE m[k]
    <3>1. /\ m \in Seq(Bytes \cup {Raw}) /\ t \in Seq(Bytes \cup {Raw})
          /\ 0 \in Nat /\ 0 <= Len(m) /\ 0 + Len(t) <= Len(m)
      BY <2>2, <2>3, <2>5, <2>6
    <3>2. /\ R!Put(m, 0, t) \in Seq(Bytes \cup {Raw}) /\ Len(R!Put(m, 0, t)) = Len(m)
          /\ \A k \in 1 .. Len(m) : R!Put(m, 0, t)[k] =
                IF k > 0 /\ k <= 0 + Len(t) THEN t[k - 0] ELSE m[k]
      BY <3>1, PutFacts
    <3> QED
      BY <2>4, <2>6, <3>2
  <2> HIDE DEF size
  <2>8. ASSUME NEW k \in 1 .. n PROVE t[k] = mData[0 + k]
    <3>1. k \in 1 .. size /\ k > 0 /\ k <= 0 + Len(t) /\ k - 0 = k /\ 0 + k = k
      BY <2>2, <2>3, <2>5
    <3> QED
      BY <2>7, <3>1
  <2>9. BytesTypeOK
    BY <1>2, <2>2, <2>3, <2>4, <2>5, <2>7 DEF BytesTypeOK
  <2>10. PositionsInv
    BY <2>2, <2>3, <2>4, <2>7 DEF PositionsInv, R!ready, R!Allocated, size
  <2>11. StreamInv
    BY <2>2, <2>4, <2>5, <2>8 DEF StreamInv, R!ready
  <2> QED
    BY <2>9, <2>10, <2>11 DEF BytesInv
<1> QED
  BY <1>1, <1>4, <1>5

LEMMA BytesStep ==
    ASSUME BytesInv, R!Next
    PROVE  BytesInv'
<1>1. ~misused
  BY DEF R!Next
<1>2. CASE \E s \in R!Transfers : R!Write(s)
  BY <1>1, <1>2, WriteStep
<1>3. CASE \E s \in R!Transfers :
              \E pos \in 0 .. R!ready, n \in {0, Len(s)} : R!Replace(pos, s, n)
  BY <1>1, <1>3, ReplaceStep
<1>4. CASE \E n \in R!Counts : R!Read(n) \/ R!Skip(n)
  BY <1>1, <1>4, ReadStep DEF R!Skip
<1>5. CASE \E c \in Capacities : R!Resize(c)
  BY <1>1, <1>5, ResizeStep
<1>6. CASE R!Reset
  BY <1>1, <1>6, ResetStep
<1> QED
  BY <1>2, <1>3, <1>4, <1>5, <1>6 DEF R!Next

-----------------------------------------------------------------------------
(* The whole of MCCore: in one scenario, the others leave the part alone. *)

\* A buffer's positions stay inside its memory, and what lies between them is
\* the end of what was written.
THEOREM BytesInvariance == MCSpec => [](scenario = "bytes" => BytesInv)
<1>1. MCInit => (scenario = "bytes" => BytesInv)
  BY BytesInit DEF MCInit
<1>2. (scenario = "bytes" => BytesInv) /\ [MCNext]_mcVars => (scenario = "bytes" => BytesInv)'
  <2> SUFFICES ASSUME scenario = "bytes", BytesInv, [MCNext]_mcVars
               PROVE  BytesInv'
    BY DEF MCNext, mcVars
  <2>1. CASE MCNext
    BY <2>1, BytesStep DEF MCNext
  <2>2. CASE UNCHANGED mcVars
    BY <2>2 DEF mcVars, bytesVars, BytesInv, BytesTypeOK, PositionsInv, StreamInv, R!ready, R!Allocated
  <2> QED
    BY <2>1, <2>2
<1> QED
  BY <1>1, <1>2, PTL DEF MCSpec

\* Buffers return what was written, wherever a ring has moved it, and stay in
\* their memory: read, write, skip, replace and resize of Buffer.cpp.
THEOREM BuffersInOrder == MCSpec => []BuffersReadInOrder
<1>1. (scenario = "bytes" => BytesInv) => BuffersReadInOrder
  BY ReadyIsStream DEF BuffersReadInOrder
<1> QED
  BY <1>1, BytesInvariance, PTL

-----------------------------------------------------------------------------
(* Content: the block between a client and its file. *)

\* What a file may hold.
FileBytes == Bytes \cup {NUL} \cup UNION {{c[i] : i \in DOMAIN c} : c \in Contents}

Calls ==
    {C!NoCall, [op |-> "destroyed"]}
        \cup [op : {"read"}, left : Nat]
        \cup [op : {"write"}, left : Seq(Bytes)]
        \cup [op : {"seek", "skip"}, to : Int, asked : Int]

Files == [mUrl : {"file", "pipe"}, mOffset : Nat, mLength : Nat, mPosition : Int, fd : Nat]

ContentTypeOK ==
    /\ mode \in {"read", "write"}
    /\ disk \in Seq(FileBytes) /\ mBlock \in Seq(FileBytes) /\ want \in Seq(FileBytes)
    /\ proto \in Files
    /\ mPosition \in Int /\ at \in Int /\ mBlockOffset \in Nat
    /\ call \in Calls
    /\ fault \in {"none", "length", "short", "place", "seek", "skip"}

\* Where a client may seek to.
SeekInv ==
    /\ call.op = "seek" => call.to = call.asked /\ call.to >= 0
    /\ call.op = "skip" => mode = "write"

\* The descriptor is where Content and File believe it to be, and no whole file
\* is longer than they believe.
PlaceInv ==
    ~C!Broken =>
        /\ mPosition >= 0 /\ at >= 0
        /\ proto.mPosition = proto.mOffset + mPosition /\ proto.fd = proto.mPosition
        /\ proto.mOffset = 0 => proto.mPosition <= proto.mLength
        /\ proto.mUrl = "file" =>
            /\ proto.mOffset = 0 /\ Len(disk) <= proto.mLength
            /\ fault = "none" => proto.mLength = Len(disk)

\* Reading: the block is what the file has before the descriptor, and the
\* client is as far into it as the offset says.
ReadInv ==
    mode = "read" /\ ~C!Broken =>
        /\ call.op \in {"none", "read", "destroyed"}
        /\ proto.mLength <= Len(disk) \/ Len(disk) = 0
        /\ proto.fd <= proto.mLength \/ proto.fd >= Len(disk)
        /\ ~mBlockPopulated
        /\ mBlockOffset <= Len(mBlock) /\ Len(mBlock) <= mPosition
        /\ Len(mBlock) > 0 => proto.fd <= proto.mLength /\ proto.fd <= Len(disk)
        /\ \A i \in 1 .. Len(mBlock) : mBlock[i] = disk[(proto.fd - Len(mBlock)) + i]
        /\ IF call.op = "destroyed" THEN mBlock = <<>>
           ELSE at = mPosition - (Len(mBlock) - mBlockOffset)

\* Writing: what the file lacks of what the client wants is in the block.
WriteInv ==
    mode = "write" /\ ~C!Broken =>
        /\ call.op \in {"none", "write", "seek", "skip", "destroyed"}
        /\ ~mBlockPopulated \/ call.op \in {"seek", "skip", "destroyed"} => mBlock = <<>>
        /\ C!Overlay(disk, proto.fd, mBlock) = want

ContentInv ==
    /\ ContentTypeOK /\ SeekInv /\ PlaceInv /\ ReadInv /\ WriteInv
    /\ C!MissesAreAtTheEnds

-----------------------------------------------------------------------------
(* What lies over a sequence is a sequence: of this length, of these bytes. *)
LEMMA OverlayFacts ==
    ASSUME NEW m \in Seq(FileBytes), NEW i \in Int, NEW s \in Seq(FileBytes)
    PROVE  /\ C!Overlay(m, i, s) \in Seq(FileBytes)
           /\ Len(C!Overlay(m, i, s)) =
                IF s # <<>> /\ i + Len(s) > Len(m) THEN i + Len(s) ELSE Len(m)
           /\ \A k \in 1 .. Len(C!Overlay(m, i, s)) : C!Overlay(m, i, s)[k] =
                IF k > i /\ k <= i + Len(s) THEN s[k - i]
                ELSE IF k <= Len(m) THEN m[k] ELSE NUL
<1> DEFINE N == IF s # <<>> /\ i + Len(s) > Len(m) THEN i + Len(s) ELSE Len(m)
           At(k) == IF k > i /\ k <= i + Len(s) THEN s[k - i]
                    ELSE IF k <= Len(m) THEN m[k] ELSE NUL
<1>1. Len(m) \in Nat /\ Len(s) \in Nat /\ N \in Nat
  OBVIOUS
<1>2. ASSUME NEW k \in 1 .. N PROVE At(k) \in FileBytes
  <2>1. CASE k > i /\ k <= i + Len(s)
    <3>1. k - i \in 1 .. Len(s)
      BY <1>1, <2>1
    <3> QED
      BY <2>1, <3>1
  <2>2. CASE ~(k > i /\ k <= i + Len(s)) /\ k <= Len(m)
    <3>1. k \in 1 .. Len(m)
      BY <1>1, <2>2
    <3> QED
      BY <2>2, <3>1
  <2>3. CASE ~(k > i /\ k <= i + Len(s)) /\ ~(k <= Len(m))
    BY <2>3 DEF FileBytes
  <2> QED
    BY <2>1, <2>2, <2>3
<1>3. C!Overlay(m, i, s) = [k \in 1 .. N |-> At(k)]
  BY DEF C!Overlay
<1> HIDE DEF N, At
<1>4. C!Overlay(m, i, s) \in Seq(FileBytes) /\ Len(C!Overlay(m, i, s)) = N
  BY <1>1, <1>2, <1>3
<1>5. \A k \in 1 .. N : C!Overlay(m, i, s)[k] = At(k)
  BY <1>3
<1> QED
  BY <1>4, <1>5 DEF N, At

LEMMA OverlayNothing ==
    ASSUME NEW m \in Seq(FileBytes), NEW i \in Nat
    PROVE  C!Overlay(m, i, <<>>) = m
<1> DEFINE o == C!Overlay(m, i, <<>>)
<1>1. <<>> \in Seq(FileBytes) /\ Len(<<>>) = 0 /\ Len(m) \in Nat
  OBVIOUS
<1>2. /\ o \in Seq(FileBytes) /\ Len(o) = Len(m)
      /\ \A k \in 1 .. Len(o) : o[k] = IF k > i /\ k <= i + 0 THEN <<>>[k - i]
                                       ELSE IF k <= Len(m) THEN m[k] ELSE NUL
  <2> HIDE DEF o
  <2> QED
    BY <1>1, i \in Int, OverlayFacts DEF o
<1> HIDE DEF o
<1>3. \A k \in 1 .. Len(o) : o[k] = m[k]
  BY <1>1, <1>2
<1>4. o = m
  BY <1>2, <1>3, SeqEqual
<1> QED
  BY <1>4 DEF o

(* What is written behind what lies there lies there with it. *)
LEMMA OverlayAppend ==
    ASSUME NEW m \in Seq(FileBytes), NEW i \in Nat,
           NEW s \in Seq(FileBytes), NEW t \in Seq(FileBytes), t # <<>>
    PROVE  C!Overlay(C!Overlay(m, i, s), i + Len(s), t) = C!Overlay(m, i, s \o t)
<1> DEFINE o == C!Overlay(m, i, s)
           p == C!Overlay(o, i + Len(s), t)
           st == s \o t
           q == C!Overlay(m, i, st)
<1>1. Len(m) \in Nat /\ Len(s) \in Nat /\ Len(t) \in Nat \ {0} /\ i + Len(s) \in Nat
  OBVIOUS
<1>2. /\ o \in Seq(FileBytes)
      /\ Len(o) = IF s # <<>> /\ i + Len(s) > Len(m) THEN i + Len(s) ELSE Len(m)
      /\ \A k \in 1 .. Len(o) : o[k] = IF k > i /\ k <= i + Len(s) THEN s[k - i]
                                       ELSE IF k <= Len(m) THEN m[k] ELSE NUL
  BY OverlayFacts
<1> HIDE DEF o
<1>3. /\ p \in Seq(FileBytes)
      /\ Len(p) = IF t # <<>> /\ i + Len(s) + Len(t) > Len(o) THEN i + Len(s) + Len(t) ELSE Len(o)
      /\ \A k \in 1 .. Len(p) : p[k] =
            IF k > i + Len(s) /\ k <= i + Len(s) + Len(t) THEN t[k - (i + Len(s))]
            ELSE IF k <= Len(o) THEN o[k] ELSE NUL
  BY <1>1, <1>2, OverlayFacts
<1> HIDE DEF p
<1>4. /\ st \in Seq(FileBytes) /\ Len(st) = Len(s) + Len(t)
      /\ \A k \in 1 .. Len(s) + Len(t) : st[k] = IF k <= Len(s) THEN s[k] ELSE t[k - Len(s)]
  BY ConcatProperties
<1> HIDE DEF st
<1>5. /\ q \in Seq(FileBytes)
      /\ Len(q) = IF st # <<>> /\ i + Len(st) > Len(m) THEN i + Len(st) ELSE Len(m)
      /\ \A k \in 1 .. Len(q) : q[k] = IF k > i /\ k <= i + Len(st) THEN st[k - i]
                                       ELSE IF k <= Len(m) THEN m[k] ELSE NUL
  BY <1>4, OverlayFacts, SMTT(30)
<1> HIDE DEF q
<1>6. Len(p) = Len(q) /\ Len(q) \in Nat
  <2>1. st # <<>>
    BY <1>1, <1>4
  <2>2. s # <<>> <=> Len(s) > 0
    BY <1>1, EmptySeq
  <2>3. Len(o) = IF Len(s) > 0 /\ i + Len(s) > Len(m) THEN i + Len(s) ELSE Len(m)
    BY <1>2, <2>2
  <2>4. Len(p) = IF i + Len(s) + Len(t) > Len(o) THEN i + Len(s) + Len(t) ELSE Len(o)
    BY <1>3
  <2>5. Len(q) = IF i + (Len(s) + Len(t)) > Len(m) THEN i + (Len(s) + Len(t)) ELSE Len(m)
    BY <1>4, <1>5, <2>1
  <2> QED
    BY <1>1, <2>3, <2>4, <2>5
<1>7. ASSUME NEW k \in 1 .. Len(p)
      PROVE  p[k] = q[k]
  <2>0. k \in Nat /\ k \in 1 .. Len(q)
    BY <1>6
  <2>1. CASE k > i + Len(s) /\ k <= i + Len(s) + Len(t)
    <3>1. p[k] = t[k - (i + Len(s))]
      BY <1>3, <2>1
    <3>2. /\ k > i /\ k <= i + Len(st) /\ k - i \in 1 .. Len(s) + Len(t) /\ ~(k - i <= Len(s))
          /\ (k - i) - Len(s) = k - (i + Len(s))
      BY <1>1, <1>4, <2>0, <2>1
    <3>3. q[k] = st[k - i]
      BY <1>5, <2>0, <3>2
    <3>4. st[k - i] = t[(k - i) - Len(s)]
      BY <1>4, <3>2
    <3> QED
      BY <3>1, <3>2, <3>3, <3>4
  <2>2. CASE k > i /\ k <= i + Len(s)
    <3>1. /\ ~(k > i + Len(s)) /\ k <= i + Len(st) /\ k - i \in 1 .. Len(s) + Len(t)
          /\ k - i <= Len(s)
      BY <1>1, <1>4, <2>0, <2>2
    <3>2. k <= Len(o) /\ k \in 1 .. Len(o)
      <4>1. s # <<>>
        BY <1>1, <2>0, <2>2
      <4> QED
        BY <1>1, <1>2, <2>0, <2>2, <4>1
    <3>3. p[k] = o[k]
      BY <1>3, <3>1, <3>2
    <3>4. o[k] = s[k - i]
      BY <1>2, <2>2, <3>2
    <3>5. q[k] = st[k - i]
      BY <1>5, <2>0, <2>2, <3>1
    <3>6. st[k - i] = s[k - i]
      BY <1>4, <3>1
    <3> QED
      BY <3>3, <3>4, <3>5, <3>6
  <2>3. CASE k <= i
    <3>1. ~(k > i) /\ ~(k > i + Len(s))
      BY <1>1, <2>0, <2>3
    <3>2. q[k] = IF k <= Len(m) THEN m[k] ELSE NUL
      BY <1>5, <2>0, <3>1
    <3>3. p[k] = IF k <= Len(o) THEN o[k] ELSE NUL
      BY <1>3, <3>1
    <3>4. k <= Len(o) => o[k] = IF k <= Len(m) THEN m[k] ELSE NUL
      BY <1>2, <2>0, <3>1
    <3>5. ~(k <= Len(o)) => ~(k <= Len(m))
      BY <1>1, <1>2, <2>0
    <3> QED
      BY <3>2, <3>3, <3>4, <3>5
  <2>4. CASE k > i + Len(s) + Len(t)
    <3>1. /\ ~(k <= i + Len(s)) /\ ~(k <= i + Len(st)) /\ ~(k <= i + Len(s) + Len(t))
      BY <1>1, <1>4, <2>0, <2>4
    <3>2. q[k] = IF k <= Len(m) THEN m[k] ELSE NUL
      BY <1>5, <2>0, <3>1
    <3>3. p[k] = IF k <= Len(o) THEN o[k] ELSE NUL
      BY <1>3, <3>1
    <3>4. k <= Len(o) => o[k] = IF k <= Len(m) THEN m[k] ELSE NUL
      BY <1>2, <2>0, <3>1
    <3>5. ~(k <= Len(o)) => ~(k <= Len(m))
      BY <1>1, <1>2, <2>0
    <3> QED
      BY <3>2, <3>3, <3>4, <3>5
  <2> QED
    BY <1>1, <2>0, <2>1, <2>2, <2>3, <2>4
<1>8. p = q
  BY <1>3, <1>5, <1>6, <1>7, SeqEqual
<1> QED
  BY <1>8 DEF o, p, st, q

-----------------------------------------------------------------------------
LEMMA ProtoFacts ==
    ASSUME ContentTypeOK
    PROVE  /\ proto \in Files /\ proto.mUrl \in {"file", "pipe"} /\ proto.mOffset \in Nat
           /\ proto.mLength \in Nat /\ proto.mPosition \in Int /\ proto.fd \in Nat
           /\ proto = [mUrl |-> proto.mUrl, mOffset |-> proto.mOffset, mLength |-> proto.mLength,
                       mPosition |-> proto.mPosition, fd |-> proto.fd]
<1>1. proto \in Files
  BY DEF ContentTypeOK
<1> QED
  BY <1>1 DEF Files

(* The length that writeBytes computes, and that of the file. *)
LEMMA LengthFacts ==
    ASSUME NEW l \in Nat, NEW d \in Nat, NEW i \in Nat, NEW k \in Nat, i <= l,
           NEW m, m = IF i + k > l THEN l + k ELSE l,
           NEW e, e = IF k > 0 /\ i + k > d THEN i + k ELSE d
    PROVE  /\ m \in Nat /\ i + k <= m
           /\ d <= l => e <= m
           /\ d = l /\ m = C!Max2(l, i + k) => m = e
  BY DEF C!Max2

(* A block that is written back whole leaves the file as the client wants it. *)
LEMMA WriteBackStep ==
    ASSUME ContentInv, ~C!Broken, mode = "write", C!WriteBack
    PROVE  /\ disk' \in Seq(FileBytes) /\ proto' \in Files
           /\ proto'.mUrl = proto.mUrl /\ proto'.mOffset = proto.mOffset
           /\ mPosition' \in Nat
           /\ proto'.mPosition = proto'.mOffset + mPosition' /\ proto'.fd = proto'.mPosition
           /\ proto'.mOffset = 0 => proto'.mPosition <= proto'.mLength
           /\ proto'.mUrl = "file" =>
                /\ proto'.mOffset = 0 /\ Len(disk') <= proto'.mLength
                /\ fault' = "none" => proto'.mLength = Len(disk')
           /\ mBlock' = <<>> /\ mBlockOffset' = 0 /\ ~mBlockPopulated'
           /\ fault' \in {"none", "length", "short"}
           /\ fault' # "short" => disk' = want
<1>1. PICK k \in 0 .. Len(mBlock) :
        /\ C!WriteBytes(mBlock, k)
        /\ mPosition' = mPosition + k
        /\ fault' = IF k < Len(mBlock) THEN "short"
                    ELSE IF proto'.mLength # C!Max2(proto.mLength, proto'.mPosition) THEN "length"
                    ELSE fault
        /\ C!ResetBlock
  BY DEF C!WriteBack
<1> DEFINE p == proto.mPosition
           s == SubSeq(mBlock, 1, k)
           l == IF p + k > proto.mLength THEN proto.mLength + k ELSE proto.mLength
<1>2. /\ disk \in Seq(FileBytes) /\ mBlock \in Seq(FileBytes) /\ Len(mBlock) \in Nat
      /\ Len(disk) \in Nat /\ mPosition \in Nat /\ k \in Nat /\ k <= Len(mBlock)
      /\ fault \in {"none", "length"}
  BY DEF ContentInv, ContentTypeOK, PlaceInv, C!Broken
<1>3. /\ proto.mUrl \in {"file", "pipe"} /\ proto.mOffset \in Nat /\ proto.mLength \in Nat
      /\ proto.fd = p /\ p = proto.mOffset + mPosition /\ p \in Nat
  BY <1>2, ProtoFacts DEF ContentInv, PlaceInv
<1>4. /\ proto.mOffset = 0 => p <= proto.mLength
      /\ proto.mUrl = "file" =>
            /\ proto.mOffset = 0 /\ Len(disk) <= proto.mLength
            /\ fault = "none" => proto.mLength = Len(disk)
      /\ C!Overlay(disk, p, mBlock) = want
  BY <1>3 DEF ContentInv, PlaceInv, WriteInv
<1>5. /\ disk' = C!Overlay(disk, p, s)
      /\ proto' = [proto EXCEPT !.mPosition = p + k, !.fd = @ + k,
                                !.mLength = IF p + k > @ THEN @ + k ELSE @]
  BY <1>1, <1>3 DEF C!WriteBytes
<1>6. s \in Seq(FileBytes) /\ Len(s) = k /\ (k = Len(mBlock) => s = mBlock)
  <2>1. \A i \in 1 .. k : mBlock[i] \in FileBytes
    BY <1>2
  <2> HIDE DEF s
  <2>2. /\ s \in Seq(FileBytes) /\ Len(s) = IF 1 <= k THEN k - 1 + 1 ELSE 0
        /\ \A i \in 1 .. k - 1 + 1 : s[i] = mBlock[1 + i - 1]
    BY <1>2, <2>1, SubSeqProperties DEF s
  <2>3. Len(s) = k /\ \A i \in 1 .. k : s[i] = mBlock[i]
    BY <1>2, <2>2
  <2> QED
    BY <1>2, <2>2, <2>3, SeqEqual
<1> HIDE DEF s
<1>7. /\ disk' \in Seq(FileBytes) /\ Len(disk') \in Nat
      /\ Len(disk') = IF k > 0 /\ p + k > Len(disk) THEN p + k ELSE Len(disk)
  <2>1. /\ disk' \in Seq(FileBytes)
        /\ Len(disk') = IF s # <<>> /\ p + Len(s) > Len(disk) THEN p + Len(s) ELSE Len(disk)
    BY <1>2, <1>3, <1>5, <1>6, OverlayFacts
  <2>2. s # <<>> <=> k > 0
    BY <1>2, <1>6, EmptySeq
  <2> QED
    BY <1>6, <2>1, <2>2
<1>8. /\ proto' \in Files /\ proto'.mUrl = proto.mUrl /\ proto'.mOffset = proto.mOffset
      /\ proto'.mPosition = p + k /\ proto'.fd = p + k /\ proto'.mLength = l
  <2>1. l \in Nat /\ p + k \in Nat
    BY <1>2, <1>3
  <2>2. proto' = [proto EXCEPT !.mPosition = p + k, !.fd = p + k, !.mLength = l]
    BY <1>3, <1>5, ProtoFacts DEF ContentInv, Files
  <2>3. ContentTypeOK
    BY DEF ContentInv
  <2>4. /\ proto = [mUrl |-> proto.mUrl, mOffset |-> proto.mOffset, mLength |-> proto.mLength,
                    mPosition |-> proto.mPosition, fd |-> proto.fd]
        /\ proto.mUrl \in {"file", "pipe"} /\ proto.mOffset \in Nat
    BY <2>3, ProtoFacts
  <2> HIDE DEF l, p
  <2>5. proto' = [mUrl |-> proto.mUrl, mOffset |-> proto.mOffset, mLength |-> l,
                  mPosition |-> p + k, fd |-> p + k]
    BY ONLY <2>2, <2>4
  <2> QED
    BY ONLY <2>1, <2>4, <2>5 DEF Files
<1>9. /\ p <= proto.mLength => p + k <= l
      /\ p <= proto.mLength /\ Len(disk) <= proto.mLength => Len(disk') <= l
      /\ p <= proto.mLength /\ Len(disk) = proto.mLength /\ l = C!Max2(proto.mLength, p + k)
            => l = Len(disk')
  <2> SUFFICES ASSUME p <= proto.mLength
               PROVE  /\ p + k <= l
                      /\ Len(disk) <= proto.mLength => Len(disk') <= l
                      /\ Len(disk) = proto.mLength /\ l = C!Max2(proto.mLength, p + k)
                            => l = Len(disk')
    OBVIOUS
  <2>1. /\ Len(disk) \in Nat /\ Len(disk') \in Nat /\ k \in Nat /\ p \in Nat
        /\ proto.mLength \in Nat /\ p <= proto.mLength
        /\ Len(disk') = IF k > 0 /\ p + k > Len(disk) THEN p + k ELSE Len(disk)
    BY <1>2, <1>3, <1>7
  <2>2. l = IF p + k > proto.mLength THEN proto.mLength + k ELSE proto.mLength
    OBVIOUS
  <2> HIDE DEF l, p
  <2> QED
    BY ONLY <2>1, <2>2 DEF C!Max2
<1>10. /\ fault' \in {"none", "length", "short"}
       /\ fault' # "short" => k = Len(mBlock)
       /\ fault' = "none" => fault = "none" /\ l = C!Max2(proto.mLength, p + k)
  <2> HIDE DEF l, p
  <2> QED
    BY <1>1, <1>2, <1>8
<1>11. fault' # "short" => disk' = want
  BY <1>4, <1>5, <1>6, <1>10
<1>12. proto'.mPosition = proto'.mOffset + mPosition' /\ mPosition' \in Nat
  <2>1. p + k = proto.mOffset + (mPosition + k)
    BY <1>2, <1>3
  <2> HIDE DEF l, p
  <2> QED
    BY <1>1, <1>2, <1>8, <2>1
<1> HIDE DEF l, p
<1> QED
  BY <1>1, <1>4, <1>7, <1>8, <1>9, <1>10, <1>11, <1>12 DEF C!ResetBlock

LEMMA ReadCachedStep ==
    ASSUME ContentInv, ~C!Broken, C!ReadCached
    PROVE  ContentInv'
<1> DEFINE m == C!Min2(C!Cached, call.left)
<1>1. /\ call.op = "read" /\ C!Cached > 0
      /\ mBlockOffset' = mBlockOffset + m /\ at' = at + m
      /\ C!Continue(call.left - m)
      /\ UNCHANGED <<disk, proto, mode, mPosition, mBlock, mBlockPopulated, want, fault>>
  BY DEF C!ReadCached
<1>2. call \in [op : {"read"}, left : Nat]
  BY <1>1 DEF ContentInv, ContentTypeOK, Calls, C!NoCall
<1>3. /\ m \in Nat /\ m <= Len(mBlock) - mBlockOffset /\ m <= call.left
      /\ mBlockOffset \in Nat /\ Len(mBlock) \in Nat /\ call.left \in Nat
  BY <1>1, <1>2, SMTT(30) DEF ContentInv, ContentTypeOK, C!Cached, C!Min2
<1> HIDE DEF m
<1>4. /\ call' \in Calls /\ call'.op \in {"none", "read"}
      /\ call' = C!NoCall \/ call'.op = "read"
  BY <1>1, <1>2, <1>3 DEF C!Continue, Calls, C!NoCall
<1>5. mode = "read" /\ mode' = "read" /\ ~C!Broken'
  BY <1>1 DEF ContentInv, ContentTypeOK, WriteInv, ReadInv, C!Broken
<1>6. /\ at = mPosition - (Len(mBlock) - mBlockOffset) /\ at \in Int /\ at >= 0 /\ mPosition \in Int
      /\ mBlockOffset <= Len(mBlock)
  BY <1>1, <1>5 DEF ContentInv, ContentTypeOK, ReadInv, PlaceInv
<1>7. /\ mBlockOffset' <= Len(mBlock') /\ at' = mPosition' - (Len(mBlock') - mBlockOffset')
      /\ at' \in Int /\ at' >= 0 /\ mBlockOffset' \in Nat
  BY <1>1, <1>3, <1>6
<1>8. ContentTypeOK'
  BY <1>1, <1>4, <1>7 DEF ContentInv, ContentTypeOK
<1>9. SeekInv'
  BY <1>4 DEF SeekInv
<1>10. PlaceInv'
  BY <1>1, <1>5, <1>7 DEF ContentInv, PlaceInv
<1>11. ReadInv'
  BY <1>1, <1>4, <1>5, <1>7 DEF ContentInv, ReadInv
<1>12. C!MissesAreAtTheEnds'
  BY <1>5 DEF C!MissesAreAtTheEnds, C!Broken
<1> QED
  BY <1>5, <1>8, <1>9, <1>10, <1>11, <1>12 DEF ContentInv, WriteInv

LEMMA ReadBlockStep ==
    ASSUME ContentInv, ~C!Broken, C!ReadBlock
    PROVE  ContentInv'
<1>1. PICK s \in C!Readable(BlockLength) :
        /\ proto' = [proto EXCEPT !.mPosition = @ + Len(s), !.fd = @ + Len(s)] /\ disk' = disk
        /\ mBlock' = s /\ mBlockOffset' = 0
        /\ mPosition' = mPosition + Len(s)
        /\ call' = IF s = <<>> THEN C!NoCall ELSE call
  BY DEF C!ReadBlock, C!ReadBytes
<1>2. /\ call.op = "read" /\ Len(mBlock) - mBlockOffset = 0
      /\ UNCHANGED <<mode, mBlockPopulated, at, want, fault>>
  BY DEF C!ReadBlock, C!Cached
<1>3. mode = "read" /\ mode' = "read" /\ ~C!Broken'
  BY <1>2 DEF ContentInv, ContentTypeOK, WriteInv, ReadInv, C!Broken
<1> DEFINE p == proto.fd
           there == SubSeq(disk, p + 1, Len(disk))
           limit == C!Limit(BlockLength)
           most == IF limit > Len(there) THEN Len(there) ELSE limit
<1>4. /\ disk \in Seq(FileBytes) /\ Len(disk) \in Nat
      /\ p \in Nat /\ proto.mLength \in Nat /\ proto.mOffset \in Nat /\ proto.mPosition = p
      /\ p = proto.mOffset + mPosition
      /\ mPosition \in Nat /\ at = mPosition
      /\ mBlockOffset \in Nat /\ Len(mBlock) \in Nat /\ ~mBlockPopulated
      /\ proto.mLength <= Len(disk) \/ Len(disk) = 0
      /\ p <= proto.mLength \/ p >= Len(disk)
      /\ proto.mOffset = 0 => p <= proto.mLength
  <2>1. /\ mBlock \in Seq(FileBytes) /\ disk \in Seq(FileBytes)
        /\ mPosition \in Int /\ at \in Int /\ mBlockOffset \in Nat
    BY DEF ContentInv, ContentTypeOK
  <2>2. /\ at = mPosition - (Len(mBlock) - mBlockOffset) /\ ~mBlockPopulated
        /\ proto.mLength <= Len(disk) \/ Len(disk) = 0
        /\ p <= proto.mLength \/ p >= Len(disk)
    BY <1>2, <1>3 DEF ContentInv, ReadInv
  <2>3. at = mPosition
    BY <1>2, <2>1, <2>2, SMTT(30)
  <2>4. /\ proto.mPosition = proto.mOffset + mPosition /\ p = proto.mPosition /\ mPosition >= 0
        /\ proto.mOffset = 0 => p <= proto.mLength
    BY DEF ContentInv, PlaceInv
  <2>5. p \in Nat /\ proto.mLength \in Nat /\ proto.mOffset \in Nat
    BY ProtoFacts DEF ContentInv
  <2> QED
    BY <2>1, <2>2, <2>3, <2>4, <2>5
<1>5. /\ there \in Seq(FileBytes) /\ Len(there) = IF p < Len(disk) THEN Len(disk) - p ELSE 0
      /\ \A i \in 1 .. Len(there) : there[i] = disk[p + i]
  <2>1. \A i \in p + 1 .. Len(disk) : disk[i] \in FileBytes
    BY <1>4
  <2>2. p + 1 \in Int /\ Len(disk) \in Int /\ p \in Nat /\ Len(disk) \in Nat
    BY <1>4
  <2> HIDE DEF there, p
  <2>3. /\ there \in Seq(FileBytes)
        /\ Len(there) = IF p + 1 <= Len(disk) THEN Len(disk) - (p + 1) + 1 ELSE 0
        /\ \A i \in 1 .. Len(disk) - (p + 1) + 1 : there[i] = disk[p + 1 + i - 1]
    BY <2>1, <2>2, SubSeqProperties DEF there
  <2> QED
    BY <2>2, <2>3
<1>6. PICK k \in 0 .. most : s = SubSeq(there, 1, k)
  BY DEF C!Readable
\* What is read is of the window: less than nothing left of it is behind the file.
<1>7. /\ k \in Nat /\ k <= Len(there) /\ (k > 0 => p + k <= Len(disk) /\ p + k <= proto.mLength)
      /\ p + k <= proto.mLength \/ p + k >= Len(disk)
      /\ (proto.mOffset = 0 => p + k <= proto.mLength)
  <2>1. limit = IF proto.mLength - p >= 0 /\ BlockLength > proto.mLength - p
                THEN proto.mLength - p ELSE BlockLength
    BY <1>4 DEF C!Limit, C!Remains
  <2>2. BlockLength \in Nat
    BY ContentAssumption
  <2> HIDE DEF p, there, limit
  <2>6. limit \in Int /\ Len(there) \in Int
    BY <1>4, <1>5, <2>1, <2>2
  <2>3. most \in Int /\ most <= Len(there) /\ most <= limit
    BY ONLY <2>6
  <2>7. k \in 0 .. most
    BY <1>6
  <2> HIDE DEF most
  <2>4. k \in Nat /\ k <= Len(there) /\ k <= limit
    BY ONLY <2>3, <2>6, <2>7
  <2>5. k > 0 => p + k <= Len(disk) /\ p <= proto.mLength
    BY <1>4, <1>5, <2>4
  <2> QED
    BY <1>4, <2>1, <2>2, <2>4, <2>5, SMTT(30)
<1> HIDE DEF there, limit, most
<1>8. /\ s \in Seq(FileBytes) /\ Len(s) = k
      /\ \A i \in 1 .. k : s[i] = disk[p + i]
  <2>1. \A i \in 1 .. k : there[i] \in FileBytes /\ there[i] = disk[p + i]
    BY <1>5, <1>7
  <2>2. /\ s \in Seq(FileBytes) /\ Len(s) = IF 1 <= k THEN k - 1 + 1 ELSE 0
        /\ \A i \in 1 .. k - 1 + 1 : s[i] = there[1 + i - 1]
    BY <1>6, <1>7, <2>1, SubSeqProperties
  <2>3. Len(s) = k /\ \A i \in 1 .. k : s[i] = there[i]
    BY <1>7, <2>2
  <2> QED
    BY <2>1, <2>2, <2>3
<1>9. /\ proto' \in Files /\ proto'.mUrl = proto.mUrl
      /\ proto'.mOffset = proto.mOffset /\ proto'.mLength = proto.mLength
      /\ proto'.mPosition = p + k /\ proto'.fd = p + k
  <2>1. proto' = [proto EXCEPT !.mPosition = p + k, !.fd = p + k] /\ p + k \in Nat
    BY <1>1, <1>4, <1>7, <1>8, ProtoFacts DEF ContentInv, Files
  <2>2. /\ proto = [mUrl |-> proto.mUrl, mOffset |-> proto.mOffset, mLength |-> proto.mLength,
                    mPosition |-> proto.mPosition, fd |-> proto.fd]
        /\ proto.mUrl \in {"file", "pipe"} /\ proto.mOffset \in Nat /\ proto.mLength \in Nat
    BY ProtoFacts DEF ContentInv
  <2> HIDE DEF p
  <2>3. proto' = [mUrl |-> proto.mUrl, mOffset |-> proto.mOffset, mLength |-> proto.mLength,
                  mPosition |-> p + k, fd |-> p + k]
    BY ONLY <2>1, <2>2
  <2> QED
    BY ONLY <2>1, <2>2, <2>3 DEF Files
<1> HIDE DEF p
<1>10. call' \in Calls /\ call'.op \in {"none", "read"}
  BY <1>1, <1>2 DEF ContentInv, ContentTypeOK, Calls, C!NoCall
<1>11. mPosition' = mPosition + k /\ mPosition' \in Nat /\ at' = mPosition /\ at' \in Nat
  BY <1>1, <1>2, <1>4, <1>7, <1>8
<1>12. ContentTypeOK'
  BY <1>1, <1>2, <1>8, <1>9, <1>10, <1>11 DEF ContentInv, ContentTypeOK
<1>13. SeekInv'
  BY <1>10 DEF SeekInv
<1>14. PlaceInv'
  <2>1. proto'.mPosition = proto'.mOffset + mPosition'
    BY <1>4, <1>7, <1>9, <1>11
  <2> QED
    BY <1>1, <1>2, <1>7, <1>9, <1>11, <2>1 DEF ContentInv, PlaceInv
<1>15. ReadInv'
  <2>1. \A i \in 1 .. Len(mBlock') : mBlock'[i] = disk'[(proto'.fd - Len(mBlock')) + i]
    <3> SUFFICES ASSUME NEW i \in 1 .. k
                 PROVE  s[i] = disk[((p + k) - k) + i]
      BY <1>1, <1>8, <1>9
    <3>1. (p + k) - k = p
      BY <1>4, <1>7
    <3> QED
      BY <1>8, <3>1
  <2>2. at' = mPosition' - (Len(mBlock') - mBlockOffset')
    BY <1>1, <1>4, <1>7, <1>8, <1>11
  <2>3. /\ Len(mBlock') <= mPosition' /\ mBlockOffset' <= Len(mBlock')
        /\ Len(mBlock') > 0 => proto'.fd <= proto'.mLength /\ proto'.fd <= Len(disk')
    BY <1>1, <1>4, <1>7, <1>8, <1>9, <1>11
  <2>4. /\ proto'.mLength <= Len(disk') \/ Len(disk') = 0
        /\ proto'.fd <= proto'.mLength \/ proto'.fd >= Len(disk')
        /\ ~mBlockPopulated'
    BY <1>1, <1>2, <1>4, <1>7, <1>9
  <2> QED
    BY <1>10, <2>1, <2>2, <2>3, <2>4 DEF ReadInv
<1>16. C!MissesAreAtTheEnds'
  BY <1>3 DEF C!MissesAreAtTheEnds, C!Broken
<1> QED
  BY <1>3, <1>12, <1>13, <1>14, <1>15, <1>16 DEF ContentInv, WriteInv

\* A client's call begins: nothing but the call changes.
LEMMA CallStep ==
    ASSUME ContentInv, ~C!Broken,
           \/ \E n \in 1 .. MaxTransfer : C!Read(n)
           \/ \E s \in C!Transfers : C!Write(s)
    PROVE  ContentInv'
<1>1. /\ UNCHANGED <<disk, proto, mode, mPosition, mBlock, mBlockOffset, mBlockPopulated,
                     at, want, fault>>
      /\ call = C!NoCall
  BY DEF C!Read, C!Write, C!Idle
<1>2. /\ call' \in Calls
      /\ \/ mode = "read" /\ call'.op = "read"
         \/ mode = "write" /\ call'.op = "write"
  <2>1. CASE \E n \in 1 .. MaxTransfer : C!Read(n)
    <3>1. PICK n \in 1 .. MaxTransfer : C!Read(n)
      BY <2>1
    <3>2. n \in Nat
      BY BytesAssumption
    <3> QED
      BY <3>1, <3>2 DEF C!Read, Calls
  <2>2. CASE \E s \in C!Transfers : C!Write(s)
    <3>1. PICK s \in C!Transfers : C!Write(s)
      BY <2>2
    <3>2. PICK n \in 1 .. MaxTransfer : s \in [1 .. n -> Bytes]
      BY DEF C!Transfers
    <3>3. n \in Nat /\ s \in Seq(Bytes)
      BY BytesAssumption, <3>2
    <3> QED
      BY <3>1, <3>3 DEF C!Write, Calls
  <2> QED
    BY <2>1, <2>2
<1>3. call.op = "none"
  BY <1>1 DEF C!NoCall
<1>4. ContentTypeOK'
  BY <1>1, <1>2 DEF ContentInv, ContentTypeOK
<1>5. SeekInv' /\ PlaceInv' /\ C!MissesAreAtTheEnds'
  BY <1>1, <1>2 DEF ContentInv, SeekInv, PlaceInv, C!MissesAreAtTheEnds, C!Broken, C!totalBytes
<1>6. ReadInv'
  BY <1>1, <1>2, <1>3 DEF ContentInv, ReadInv, C!Broken
<1>7. WriteInv'
  BY <1>1, <1>2, <1>3 DEF ContentInv, WriteInv, C!Broken
<1> QED
  BY <1>4, <1>5, <1>6, <1>7 DEF ContentInv

LEMMA WriteCachedStep ==
    ASSUME ContentInv, ~C!Broken, C!WriteCached
    PROVE  ContentInv'
<1> DEFINE m == C!Room
           s == SubSeq(call.left, 1, m)
           p == proto.fd
<1>1. /\ call.op = "write" /\ m > 0 /\ m <= C!empty
      /\ mBlock' = mBlock \o s
      /\ mBlockPopulated' = TRUE
      /\ at' = at + m
      /\ want' = C!Overlay(want, proto.mOffset + at, s)
      /\ fault' = IF at = mPosition + Len(mBlock) THEN fault ELSE "place"
      /\ call' = IF m = Len(call.left) THEN C!NoCall
                 ELSE [call EXCEPT !.left = SubSeq(@, m + 1, Len(@))]
      /\ UNCHANGED <<disk, proto, mode, mPosition, mBlockOffset>>
  BY DEF C!WriteCached
<1>2. call \in [op : {"write"}, left : Seq(Bytes)]
  BY <1>1, SMTT(30) DEF ContentInv, ContentTypeOK, Calls, C!NoCall
<1>3. mode = "write"
  BY <1>1 DEF ContentInv, ContentTypeOK, ReadInv
<1>4. /\ disk \in Seq(FileBytes) /\ mBlock \in Seq(FileBytes) /\ Len(mBlock) \in Nat
      /\ p \in Nat /\ p = proto.mOffset + mPosition /\ proto.mOffset \in Nat
      /\ at \in Nat /\ mPosition \in Nat /\ want \in Seq(FileBytes)
      /\ C!Overlay(disk, p, mBlock) = want
      /\ call.left \in Seq(Bytes) /\ Len(call.left) \in Nat
  BY <1>2, <1>3, ProtoFacts DEF ContentInv, ContentTypeOK, WriteInv, PlaceInv
<1>5. m \in Nat \ {0} /\ m <= Len(call.left)
  <2>1. mBlockOffset \in Nat
    BY DEF ContentInv, ContentTypeOK
  <2>2. C!empty \in Int
    BY <1>4, ContentAssumption DEF C!empty
  <2>3. Len(call.left) \in Nat /\ m > 0
    BY <1>1, <1>4
  <2>4. m = IF C!empty >= mBlockOffset
            THEN IF Len(call.left) < C!empty - mBlockOffset
                 THEN Len(call.left) ELSE C!empty - mBlockOffset
            ELSE Len(call.left)
    BY DEF C!Room, C!Min2
  <2> HIDE DEF m, s
  <2> QED
    BY <2>1, <2>2, <2>3, <2>4
<1> HIDE DEF m, p
<1>6. s \in Seq(Bytes) /\ s \in Seq(FileBytes) /\ Len(s) = m /\ s # <<>>
  <2>1. \A i \in 1 .. m : call.left[i] \in Bytes
    BY <1>4, <1>5
  <2>2. \A i \in 1 .. m : call.left[i] \in FileBytes
    BY <2>1 DEF FileBytes
  <2> HIDE DEF s
  <2>3. s \in Seq(Bytes) /\ Len(s) = IF 1 <= m THEN m - 1 + 1 ELSE 0
    BY <1>5, <2>1, SubSeqProperties DEF s
  <2>4. s \in Seq(FileBytes)
    BY <1>5, <2>2, SubSeqProperties DEF s
  <2> QED
    BY <1>5, <2>3, <2>4
<1>7. call' \in Calls /\ call'.op \in {"none", "write"}
  <2>1. CASE m = Len(call.left)
    BY <1>1, <2>1 DEF Calls, C!NoCall
  <2>2. CASE m # Len(call.left)
    <3> DEFINE rest == SubSeq(call.left, m + 1, Len(call.left))
    <3>1. \A i \in m + 1 .. Len(call.left) : call.left[i] \in Bytes
      BY <1>4, <1>5
    <3>2. m + 1 \in Int /\ Len(call.left) \in Int
      BY <1>4, <1>5
    <3>3. rest \in Seq(Bytes)
      BY <3>1, <3>2, SubSeqProperties
    <3> HIDE DEF rest
    <3>4. call' = [call EXCEPT !.left = rest]
      BY <1>1, <2>2 DEF rest
    <3>5. call' \in [op : {"write"}, left : Seq(Bytes)]
      BY <1>2, <3>3, <3>4
    <3> QED
      BY <3>5 DEF Calls
  <2> QED
    BY <2>1, <2>2
<1> HIDE DEF s
<1>8. mBlock' \in Seq(FileBytes) /\ Len(mBlock') = Len(mBlock) + Len(s)
  <2>1. mBlock \in Seq(FileBytes) /\ s \in Seq(FileBytes)
    BY <1>4, <1>6
  <2>2. mBlock \o s \in Seq(FileBytes) /\ Len(mBlock \o s) = Len(mBlock) + Len(s)
    BY <2>1, ConcatProperties
  <2> QED
    BY <1>1, <2>2
<1>9. at' \in Nat
  BY <1>1, <1>4, <1>5
\* Where the client is not at the end of the block, the data is lost.
<1>10. ~C!Broken' => want' = C!Overlay(disk', p, mBlock')
  <2> SUFFICES ASSUME ~C!Broken' PROVE want' = C!Overlay(disk', p, mBlock')
    OBVIOUS
  <2>0. fault' # "place"
    BY DEF C!Broken
  <2>1. at = mPosition + Len(mBlock) /\ proto.mOffset + at = p + Len(mBlock)
    BY <1>1, <1>4, <2>0
  <2>2. C!Overlay(C!Overlay(disk, p, mBlock), p + Len(mBlock), s) = C!Overlay(disk, p, mBlock \o s)
    <3>1. /\ disk \in Seq(FileBytes) /\ mBlock \in Seq(FileBytes) /\ s \in Seq(FileBytes)
          /\ p \in Nat /\ s # <<>>
      BY <1>4, <1>6
    <3> QED
      BY <3>1, OverlayAppend
  <2> QED
    BY <1>1, <1>4, <2>1, <2>2
<1>11. want' \in Seq(FileBytes)
  <2>1. proto.mOffset + at \in Int
    BY <1>4
  <2> QED
    BY <1>1, <1>4, <1>6, <2>1, OverlayFacts
<1>12. ContentTypeOK'
  BY <1>1, <1>7, <1>8, <1>9, <1>11 DEF ContentInv, ContentTypeOK
<1>13. ReadInv' /\ SeekInv'
  BY <1>1, <1>3, <1>7 DEF ReadInv, SeekInv
<1>14. WriteInv'
  BY <1>1, <1>3, <1>7, <1>10 DEF ContentInv, WriteInv, p
<1>15. fault' \in {fault, "place"} /\ (~C!Broken' => fault' = fault)
  BY <1>1 DEF C!Broken
<1>16. PlaceInv'
  BY <1>1, <1>9, <1>15 DEF ContentInv, PlaceInv
<1>17. C!MissesAreAtTheEnds'
  BY <1>15 DEF C!MissesAreAtTheEnds, C!Broken
<1> QED
  BY <1>12, <1>13, <1>14, <1>16, <1>17 DEF ContentInv

\* The client stays where it is while the block is written back.
LEMMA FlushStep ==
    ASSUME ContentInv, ~C!Broken, mode = "write", C!WriteBack,
           call' \in Calls, call'.op \in {"none", "write", "seek", "skip", "destroyed"}, SeekInv',
           UNCHANGED <<mode, at, want>>
    PROVE  ContentInv'
<1>1. /\ disk' \in Seq(FileBytes) /\ proto' \in Files
      /\ mPosition' \in Nat
      /\ proto'.mPosition = proto'.mOffset + mPosition' /\ proto'.fd = proto'.mPosition
      /\ proto'.mOffset = 0 => proto'.mPosition <= proto'.mLength
      /\ proto'.mUrl = "file" =>
            /\ proto'.mOffset = 0 /\ Len(disk') <= proto'.mLength
            /\ fault' = "none" => proto'.mLength = Len(disk')
      /\ mBlock' = <<>> /\ mBlockOffset' = 0 /\ ~mBlockPopulated'
      /\ fault' \in {"none", "length", "short"}
      /\ fault' # "short" => disk' = want
  BY WriteBackStep
<1>2. ContentTypeOK'
  <2>1. mBlock' \in Seq(FileBytes) /\ mBlockOffset' \in Nat
    BY <1>1
  <2> QED
    BY <1>1, <2>1 DEF ContentInv, ContentTypeOK
<1>3. PlaceInv'
  BY <1>1 DEF ContentInv, PlaceInv
<1>4. WriteInv'
  <2>1. proto'.fd \in Nat
    BY <1>1 DEF Files
  <2>2. C!Overlay(disk', proto'.fd, <<>>) = disk'
    BY <1>1, <2>1, OverlayNothing
  <2>3. ~C!Broken' => fault' # "short"
    BY DEF C!Broken
  <2> QED
    BY <1>1, <2>2, <2>3 DEF WriteInv
<1>5. ReadInv' /\ C!MissesAreAtTheEnds'
  BY <1>1 DEF ReadInv, C!MissesAreAtTheEnds
<1> QED
  BY <1>2, <1>3, <1>4, <1>5 DEF ContentInv

\* What a seek makes of a place that is asked for: the client's, in a file whose
\* offset is 0 or inside the window.
LEMMA SeekResultFacts ==
    ASSUME ContentTypeOK, NEW offset \in Int
    PROVE  /\ C!Clamped(offset) \in Int /\ C!SeekResult(offset) \in Int /\ C!totalBytes \in Int
           /\ C!Clamped(offset) >= 0 => C!Clamped(offset) = proto.mOffset + C!SeekResult(offset)
           /\ C!SeekResult(offset) >= 0 => C!Clamped(offset) >= 0
           /\ C!Clamped(offset) <= proto.mLength
           /\ offset >= 0 /\ offset <= C!totalBytes => C!SeekResult(offset) = offset
           /\ proto.mOffset = 0 => C!SeekResult(offset) = C!Max2(0, C!Min2(offset, proto.mLength))
<1>1. proto.mOffset \in Nat /\ proto.mLength \in Nat
  BY ProtoFacts
<1>2. /\ C!totalBytes = proto.mLength - proto.mOffset
      /\ C!SeekResult(offset) =
            (IF C!Clamped(offset) < 0 THEN -1 ELSE C!Clamped(offset)) - proto.mOffset
      /\ C!Clamped(offset) =
            IF offset + proto.mOffset > proto.mLength THEN proto.mLength - proto.mOffset
            ELSE IF offset + proto.mOffset < 0 THEN 0 ELSE offset + proto.mOffset
  BY DEF C!Clamped, C!SeekResult, C!totalBytes
<1>3. /\ C!Clamped(offset) \in Int /\ C!SeekResult(offset) \in Int /\ C!totalBytes \in Int
      /\ C!Clamped(offset) <= proto.mLength
  BY ONLY <1>1, <1>2, offset \in Int
<1>4. /\ C!Clamped(offset) >= 0 => C!Clamped(offset) = proto.mOffset + C!SeekResult(offset)
      /\ C!SeekResult(offset) >= 0 => C!Clamped(offset) >= 0
  BY ONLY <1>1, <1>2, <1>3, offset \in Int
<1>5. offset >= 0 /\ offset <= C!totalBytes => C!SeekResult(offset) = offset
  BY ONLY <1>1, <1>2, <1>3, offset \in Int
<1>6. proto.mOffset = 0 => C!SeekResult(offset) = C!Max2(0, C!Min2(offset, proto.mLength))
  BY ONLY <1>1, <1>2, <1>3, offset \in Int DEF C!Max2, C!Min2
<1> QED
  BY ONLY <1>3, <1>4, <1>5, <1>6

\* Where the client is after it has asked for a place.
LEMMA WithinFacts ==
    ASSUME ContentTypeOK, NEW asked \in Int
    PROVE  /\ C!End \in Int /\ C!Within(asked) \in Nat
           /\ asked >= 0 /\ asked <= C!End => C!Within(asked) = asked
           /\ asked < 0 => C!Within(asked) = 0
           /\ asked > C!End => C!Within(asked) >= C!End
           /\ C!End >= C!totalBytes
           /\ mode = "read" => C!End = C!totalBytes
           /\ mode = "write" => C!End = C!Max2(C!totalBytes, mPosition + Len(mBlock))
<1>1. /\ proto.mOffset \in Nat /\ proto.mLength \in Nat /\ mPosition \in Int
      /\ Len(mBlock) \in Nat /\ mode \in {"read", "write"}
  BY ProtoFacts DEF ContentTypeOK
<1>2. C!totalBytes \in Int
  BY <1>1 DEF C!totalBytes
<1>3. C!End = IF mode = "write" THEN C!Max2(C!totalBytes, mPosition + Len(mBlock)) ELSE C!totalBytes
  BY DEF C!End
<1>4. C!Within(asked) = C!Max2(0, C!Min2(asked, C!End))
  BY DEF C!Within
<1>5. C!End \in Int /\ C!End >= C!totalBytes
  BY <1>1, <1>2, <1>3 DEF C!Max2
<1> QED
  BY <1>1, <1>2, <1>3, <1>4, <1>5 DEF C!Max2, C!Min2

LEMMA SeekToStep ==
    ASSUME ContentInv, ~C!Broken, NEW offset \in Int, NEW asked \in Int, NEW op \in {"seek", "skip"},
           C!SeekTo(offset, asked, op), mode = "write" => mBlock = <<>>,
           op = "seek" => asked = offset /\ offset >= 0,
           op = "skip" => asked = offset \/ mode = "write"
    PROVE  ContentInv'
<1> DEFINE r == C!SeekResult(offset)
           c == C!Clamped(offset)
           w == C!Within(asked)
           b == C!totalBytes
<1>1. /\ proto' = IF c < 0 THEN [proto EXCEPT !.mPosition = -1]
                  ELSE [proto EXCEPT !.mPosition = c, !.fd = c]
      /\ disk' = disk /\ mPosition' = r /\ at' = w
      /\ fault' = IF r = w THEN fault ELSE op
      /\ call' = C!NoCall
      /\ mBlock' = <<>> /\ mBlockOffset' = 0 /\ mBlockPopulated' = FALSE
      /\ UNCHANGED <<mode, want>>
  BY DEF C!SeekTo, C!SeekBytes, C!ResetBlock, C!Arrive
<1>2. /\ c \in Int /\ r \in Int /\ b \in Int
      /\ c >= 0 => c = proto.mOffset + r
      /\ r >= 0 => c >= 0
      /\ c <= proto.mLength
      /\ offset >= 0 /\ offset <= b => r = offset
      /\ proto.mOffset = 0 => r = C!Max2(0, C!Min2(offset, proto.mLength))
  BY SeekResultFacts DEF ContentInv
<1>3. /\ w \in Nat /\ C!End \in Int /\ C!End >= b
      /\ asked >= 0 /\ asked <= C!End => w = asked
      /\ asked < 0 => w = 0
      /\ asked > C!End => w >= C!End
      /\ mode = "read" => C!End = b
      /\ mode = "write" => C!End = C!Max2(b, mPosition + Len(mBlock))
  BY WithinFacts DEF ContentInv
<1>4. /\ disk \in Seq(FileBytes) /\ mPosition \in Nat /\ mode \in {"read", "write"}
      /\ fault \in {"none", "length"}
      /\ b = proto.mLength - proto.mOffset /\ proto.mOffset \in Nat /\ proto.mLength \in Nat
      /\ proto.mOffset = 0 => mPosition <= proto.mLength
  BY ProtoFacts DEF ContentInv, ContentTypeOK, PlaceInv, C!Broken, C!totalBytes
\* Where the offset is 0, the client is where the code arrives.
<1>5. asked = offset /\ proto.mOffset = 0 => r = w
  <2> SUFFICES ASSUME asked = offset, proto.mOffset = 0 PROVE r = w
    OBVIOUS
  <2>1. b = proto.mLength
    BY <1>4
  <2>2. C!End = proto.mLength
    <3>1. CASE mode = "read"
      BY <1>3, <2>1, <3>1
    <3>2. CASE mode = "write"
      <4>1. mPosition + Len(mBlock) = mPosition
        BY <1>4, <3>2
      <4> HIDE DEF b
      <4> QED
        BY <1>3, <1>4, <2>1, <3>2, <4>1 DEF C!Max2
    <3> QED
      BY <1>4, <3>1, <3>2
  <2>3. w = C!Max2(0, C!Min2(offset, proto.mLength))
    BY <2>2 DEF C!Within
  <2> QED
    BY <1>2, <2>3
\* A client that seeks to a place in the file is there.
<1>6. asked = offset => r = w \/ (w = 0 /\ offset < 0) \/ w >= b
  <2> HIDE DEF r, w, b
  <2>1. CASE offset < 0
    BY <1>3, <2>1
  <2>2. CASE offset >= 0 /\ offset <= b
    BY <1>2, <1>3, <2>2
  <2>3. CASE offset > b
    BY <1>2, <1>3, <2>3
  <2> QED
    BY <1>2, <2>1, <2>2, <2>3
<1> HIDE DEF r, c, w, b
<1>7. fault' \in {"none", "length", "seek", "skip"} /\ (~C!Broken' => fault' = fault /\ r = w)
  BY <1>1, <1>4 DEF C!Broken
<1>8. /\ proto' \in Files /\ proto'.mUrl = proto.mUrl
      /\ proto'.mOffset = proto.mOffset /\ proto'.mLength = proto.mLength
      /\ c >= 0 => proto'.mPosition = c /\ proto'.fd = c
  <2>0. /\ proto = [mUrl |-> proto.mUrl, mOffset |-> proto.mOffset, mLength |-> proto.mLength,
                    mPosition |-> proto.mPosition, fd |-> proto.fd]
        /\ proto.mUrl \in {"file", "pipe"} /\ proto.mOffset \in Nat /\ proto.mLength \in Nat
        /\ proto.fd \in Nat
    BY ProtoFacts DEF ContentInv
  <2>1. CASE c < 0
    <3>1. proto' = [proto EXCEPT !.mPosition = -1] /\ ~(c >= 0)
      BY <1>1, <1>2, <2>1
    <3>2. proto' = [mUrl |-> proto.mUrl, mOffset |-> proto.mOffset, mLength |-> proto.mLength,
                    mPosition |-> -1, fd |-> proto.fd]
      BY ONLY <2>0, <3>1
    <3> QED
      BY ONLY <2>0, <3>1, <3>2 DEF Files
  <2>2. CASE ~(c < 0)
    <3>1. proto' = [proto EXCEPT !.mPosition = c, !.fd = c] /\ c \in Nat
      BY <1>1, <1>2, <2>2
    <3>2. proto' = [mUrl |-> proto.mUrl, mOffset |-> proto.mOffset, mLength |-> proto.mLength,
                    mPosition |-> c, fd |-> c]
      BY ONLY <2>0, <3>1
    <3> QED
      BY ONLY <2>0, <3>1, <3>2 DEF Files
  <2> QED
    BY <2>1, <2>2
<1>9. call' \in Calls /\ call'.op = "none"
  BY <1>1 DEF Calls, C!NoCall
<1>10. ContentTypeOK'
  <2>1. mBlock' \in Seq(FileBytes) /\ mBlockOffset' \in Nat
    BY <1>1
  <2> QED
    BY <1>1, <1>2, <1>3, <1>4, <1>7, <1>8, <1>9, <2>1 DEF ContentInv, ContentTypeOK
<1>11. SeekInv'
  BY <1>9 DEF SeekInv
<1>12. ~C!Broken' => r >= 0 /\ c >= 0 /\ proto'.fd = c /\ proto'.mPosition = c /\ proto'.fd \in Nat
  BY <1>2, <1>3, <1>7, <1>8
<1>13. PlaceInv'
  <2> SUFFICES ASSUME ~C!Broken' PROVE PlaceInv'
    BY DEF PlaceInv
  <2>1. mPosition' >= 0 /\ at' >= 0
    BY <1>1, <1>3, <1>12
  <2>2. proto'.mPosition = proto'.mOffset + mPosition' /\ proto'.fd = proto'.mPosition
    BY <1>1, <1>2, <1>8, <1>12
  <2>3. proto'.mOffset = 0 => proto'.mPosition <= proto'.mLength
    BY <1>2, <1>8, <1>12
  <2>4. proto.mUrl = "file" =>
            /\ proto.mOffset = 0 /\ Len(disk) <= proto.mLength
            /\ fault = "none" => proto.mLength = Len(disk)
    BY DEF ContentInv, PlaceInv
  <2> QED
    BY <1>1, <1>7, <1>8, <2>1, <2>2, <2>3, <2>4 DEF PlaceInv
<1>14. ReadInv'
  <2> SUFFICES ASSUME mode = "read", ~C!Broken' PROVE ReadInv'
    BY <1>1 DEF ReadInv
  <2>1. proto.mLength <= Len(disk) \/ Len(disk) = 0
    BY DEF ContentInv, ReadInv
  <2>2. Len(mBlock') = 0 /\ at' = mPosition' - (Len(mBlock') - mBlockOffset')
    BY <1>1, <1>2, <1>7
  <2>3. mPosition' >= 0 /\ proto'.fd <= proto'.mLength
    BY <1>1, <1>2, <1>8, <1>12
  <2> QED
    BY <1>1, <1>8, <1>9, <2>1, <2>2, <2>3 DEF ReadInv
<1>15. WriteInv'
  <2> SUFFICES ASSUME mode = "write", ~C!Broken' PROVE WriteInv'
    BY <1>1 DEF WriteInv
  <2>1. C!Overlay(disk, proto.fd, <<>>) = want /\ proto.fd \in Nat
    BY ProtoFacts DEF ContentInv, WriteInv
  <2>2. C!Overlay(disk, proto.fd, <<>>) = disk
    BY <1>4, <2>1, OverlayNothing
  <2>3. C!Overlay(disk, proto'.fd, <<>>) = disk
    BY <1>4, <1>12, OverlayNothing
  <2> QED
    BY <1>1, <1>9, <2>1, <2>2, <2>3 DEF WriteInv
<1>16. C!MissesAreAtTheEnds'
  <2>1. C!totalBytes' = b
    BY <1>4, <1>8 DEF C!totalBytes
  <2>2. fault' \in {"seek", "skip"} => r # w /\ fault' = op
    BY <1>1, <1>4
  <2>3. fault' = "seek" => proto'.mOffset > 0 /\ at' >= C!totalBytes'
    <3> HAVE fault' = "seek"
    <3>1. r # w /\ asked = offset /\ offset >= 0
      BY <2>2
    <3>2. proto.mOffset > 0 /\ w >= b
      BY <1>4, <1>5, <1>6, <3>1
    <3> QED
      BY <1>1, <1>8, <2>1, <3>2
  <2>4. fault' = "skip" =>
            mode' = "write" \/ (proto'.mOffset > 0 /\ (at' = 0 \/ at' >= C!totalBytes'))
    <3> HAVE fault' = "skip"
    <3>1. r # w /\ (asked = offset \/ mode = "write")
      BY <2>2
    <3>2. mode = "write" \/ (proto.mOffset > 0 /\ (w = 0 \/ w >= b))
      BY <1>4, <1>5, <1>6, <3>1
    <3> QED
      BY <1>1, <1>8, <2>1, <3>2
  <2> QED
    BY <2>3, <2>4 DEF C!MissesAreAtTheEnds
<1> QED
  BY <1>10, <1>11, <1>13, <1>14, <1>15, <1>16 DEF ContentInv

LEMMA SeekCachedStep ==
    ASSUME ContentInv, ~C!Broken, NEW offset \in Int, NEW asked \in Int, NEW op \in {"seek", "skip"},
           C!SeekCached(offset, asked, op),
           op = "seek" => asked = offset,
           op = "skip" => asked = offset \/ mode = "write"
    PROVE  ContentInv'
<1> DEFINE w == C!Within(asked)
           b == C!totalBytes
<1>1. /\ mBlockOffset' = IF mode = "read" THEN Len(mBlock) - (mPosition - offset)
                         ELSE offset - mPosition
      /\ at' = w /\ fault' = IF offset = w THEN fault ELSE op
      /\ call = C!NoCall
      /\ UNCHANGED <<disk, proto, mode, mPosition, mBlock, mBlockPopulated, call, want>>
      /\ mBlock # <<>>
      /\ IF mode = "read"
         THEN offset < mPosition /\ offset >= mPosition - Len(mBlock)
         ELSE offset >= mPosition /\ offset < mPosition + Len(mBlock)
  BY DEF C!SeekCached, C!InCache, C!Idle, C!Arrive
<1>2. /\ mPosition \in Nat /\ Len(mBlock) \in Nat /\ Len(mBlock) > 0 /\ mode \in {"read", "write"}
      /\ fault \in {"none", "length"} /\ call.op = "none"
      /\ b = proto.mLength - proto.mOffset /\ proto.mOffset \in Nat /\ proto.mLength \in Nat
      /\ proto.fd = proto.mOffset + mPosition
      /\ mode = "read" => /\ Len(mBlock) <= mPosition /\ proto.fd <= proto.mLength
                          /\ mBlockOffset <= Len(mBlock)
  <2>1. mBlock \in Seq(FileBytes)
    BY DEF ContentInv, ContentTypeOK
  <2>2. Len(mBlock) \in Nat /\ Len(mBlock) > 0
    BY <1>1, <2>1, EmptySeq
  <2> QED
    BY <1>1, <2>2, ProtoFacts
    DEF ContentInv, ContentTypeOK, PlaceInv, ReadInv, C!Broken, C!totalBytes, C!NoCall
<1>3. /\ w \in Nat /\ C!End \in Int
      /\ asked >= 0 /\ asked <= C!End => w = asked
      /\ mode = "read" => C!End = b
      /\ mode = "write" => C!End = C!Max2(b, mPosition + Len(mBlock))
  BY WithinFacts DEF ContentInv
<1> HIDE DEF w, b
<1>4. offset >= 0 /\ offset <= C!End
  <2>1. CASE mode = "read"
    BY <1>1, <1>2, <1>3, <2>1
  <2>2. CASE mode = "write"
    <3>1. mPosition + Len(mBlock) <= C!End
      BY <1>2, <1>3, <2>2 DEF C!Max2
    <3> QED
      BY <1>1, <1>2, <1>3, <2>2, <3>1
  <2> QED
    BY <1>2, <2>1, <2>2
\* Only a skip of a writer can miss.
<1>5. /\ fault' \in {"none", "length", "skip"} /\ (~C!Broken' => fault' = fault /\ w = offset)
      /\ fault' = "skip" => mode' = "write"
      /\ mode = "read" => w = offset
  <2>1. asked = offset => w = offset
    BY <1>3, <1>4
  <2> QED
    BY <1>1, <1>2, <2>1 DEF C!Broken
<1>6. mBlockOffset' \in Nat /\ (mode = "read" => mBlockOffset' <= Len(mBlock))
  BY <1>1, <1>2
<1>7. ContentTypeOK'
  BY <1>1, <1>3, <1>5, <1>6 DEF ContentInv, ContentTypeOK
<1>8. SeekInv' /\ C!MissesAreAtTheEnds'
  BY <1>1, <1>2, <1>5 DEF SeekInv, C!MissesAreAtTheEnds
<1>9. PlaceInv'
  BY <1>1, <1>3, <1>5 DEF ContentInv, PlaceInv
<1>10. ReadInv'
  <2> SUFFICES ASSUME mode = "read" PROVE ReadInv'
    BY <1>1 DEF ReadInv
  <2>1. at' = mPosition' - (Len(mBlock') - mBlockOffset')
    BY <1>1, <1>2, <1>5
  <2> QED
    BY <1>1, <1>2, <1>6, <2>1 DEF ContentInv, ReadInv
<1>11. WriteInv'
  BY <1>1, <1>2 DEF ContentInv, WriteInv
<1> QED
  BY <1>7, <1>8, <1>9, <1>10, <1>11 DEF ContentInv

LEMMA MoveStep ==
    ASSUME ContentInv, ~C!Broken, NEW offset \in Int, NEW asked \in Int, NEW op \in {"seek", "skip"},
           C!Move(offset, asked, op),
           op = "seek" => asked = offset /\ offset >= 0,
           op = "skip" => asked = offset \/ mode = "write"
    PROVE  ContentInv'
<1>1. CASE C!SeekCached(offset, asked, op)
  BY <1>1, SeekCachedStep
<1>2. CASE C!FlushForSeek(offset, asked, op)
  <2>1. /\ mBlockPopulated /\ C!WriteBack /\ call' = [op |-> op, to |-> offset, asked |-> asked]
        /\ UNCHANGED <<mode, at, want>>
    BY <1>2 DEF C!FlushForSeek
  <2>2. mode = "write"
    BY <2>1 DEF ContentInv, ContentTypeOK, ReadInv
  <2>3. call' \in Calls /\ call'.op \in {"seek", "skip"} /\ SeekInv'
    BY <2>1, <2>2 DEF Calls, SeekInv
  <2> QED
    BY <2>1, <2>2, <2>3, FlushStep
<1>3. CASE C!SeekProtocol(offset, asked, op)
  <2>1. /\ ~mBlockPopulated /\ call = C!NoCall /\ C!SeekTo(offset, asked, op)
    BY <1>3 DEF C!SeekProtocol, C!Idle
  <2>2. mode = "write" => mBlock = <<>>
    BY <2>1 DEF ContentInv, WriteInv
  <2> QED
    BY <2>1, <2>2, SeekToStep
<1> QED
  BY <1>1, <1>2, <1>3 DEF C!Move

LEMMA DestroyStep ==
    ASSUME ContentInv, ~C!Broken, C!Destroy
    PROVE  ContentInv'
<1>1. /\ call' = [op |-> "destroyed"] /\ call = C!NoCall
      /\ UNCHANGED <<mode, at, want>>
  BY DEF C!Destroy, C!Idle
<1>2. call' \in Calls /\ call'.op = "destroyed" /\ SeekInv'
  BY <1>1 DEF Calls, SeekInv
<1>3. CASE mBlockPopulated
  <2>1. mode = "write" /\ C!WriteBack
    BY <1>3 DEF ContentInv, ContentTypeOK, ReadInv, C!Destroy
  <2> QED
    BY <1>1, <1>2, <2>1, FlushStep
<1>4. CASE ~mBlockPopulated
  <2>1. /\ mBlock' = <<>> /\ mBlockOffset' = 0 /\ mBlockPopulated' = FALSE
        /\ UNCHANGED <<disk, proto, mPosition, fault>>
    BY <1>4 DEF C!Destroy, C!ResetBlock
  <2>2. mPosition >= 0
    BY DEF ContentInv, PlaceInv
  <2>3. ContentTypeOK'
    BY <1>1, <1>2, <2>1 DEF ContentInv, ContentTypeOK
  <2>4. ReadInv'
    BY <1>1, <1>2, <2>1, <2>2 DEF ContentInv, ReadInv, C!Broken
  <2>5. WriteInv'
    BY <1>1, <1>2, <1>4, <2>1 DEF ContentInv, WriteInv, C!Broken
  <2>6. PlaceInv' /\ C!MissesAreAtTheEnds'
    BY <1>1, <2>1 DEF ContentInv, PlaceInv, C!MissesAreAtTheEnds, C!Broken, C!totalBytes
  <2> QED
    BY <1>2, <2>3, <2>4, <2>5, <2>6 DEF ContentInv
<1> QED
  BY <1>3, <1>4

LEMMA ContentInit ==
    ASSUME C!Init
    PROVE  ContentInv
<1>1. /\ mode \in {"read", "write"} /\ (C!Open \/ C!OpenWindow)
      /\ mPosition = 0 /\ mBlock = <<>> /\ mBlockOffset = 0 /\ mBlockPopulated = FALSE
      /\ call = C!NoCall /\ at = 0 /\ want = disk /\ fault = "none"
  BY DEF C!Init
<1>2. disk \in Seq(FileBytes)
  <2>1. disk \in Contents
    BY <1>1 DEF C!Open, C!OpenWindow
  <2>2. disk \in Seq({disk[i] : i \in DOMAIN disk})
    BY <2>1, ContentAssumption
  <2>3. {disk[i] : i \in DOMAIN disk} \subseteq FileBytes
    BY <2>1 DEF FileBytes
  <2>4. DOMAIN disk = 1 .. Len(disk) /\ \A i \in DOMAIN disk : disk[i] \in FileBytes
    BY <2>2, <2>3
  <2>5. Len(disk) \in Nat /\ disk = [i \in 1 .. Len(disk) |-> disk[i]]
    BY <2>2
  <2> QED
    BY <2>4, <2>5
<1>3. /\ proto \in Files
      /\ proto.mPosition = proto.mOffset /\ proto.fd = proto.mOffset
      /\ proto.mLength <= Len(disk) \/ Len(disk) = 0
      /\ proto.fd <= proto.mLength \/ proto.fd >= Len(disk)
      /\ proto.mOffset = 0 => proto.mPosition <= proto.mLength
      /\ proto.mUrl = "file" => proto.mOffset = 0 /\ proto.mLength = Len(disk)
  <2>0. Len(disk) \in Nat /\ (disk # <<>> <=> Len(disk) > 0)
    BY <1>2, EmptySeq
  <2>1. CASE C!Open
    BY <2>0, <2>1 DEF C!Open, Files
  <2>2. CASE C!OpenWindow
    <3>1. PICK offset \in Places, length \in Places :
            proto = [mUrl |-> "pipe", mOffset |-> offset,
                     mLength |-> IF disk # <<>> /\ offset + length > Len(disk) THEN Len(disk)
                                 ELSE offset + length,
                     mPosition |-> offset, fd |-> offset]
      BY <2>2 DEF C!OpenWindow
    <3>2. offset \in Nat /\ length \in Nat
      BY ContentAssumption
    <3> QED
      BY <2>0, <3>1, <3>2 DEF Files
  <2> QED
    BY <1>1, <2>1, <2>2
<1>4. call \in Calls /\ call.op = "none"
  BY <1>1 DEF Calls, C!NoCall
<1>5. ContentTypeOK
  BY <1>1, <1>2, <1>3, <1>4 DEF ContentTypeOK
<1>6. SeekInv /\ C!MissesAreAtTheEnds
  BY <1>1, <1>4 DEF SeekInv, C!MissesAreAtTheEnds
<1>7. PlaceInv
  <2>1. proto.mOffset \in Nat /\ proto.mLength \in Nat /\ Len(disk) \in Nat
    BY <1>2, <1>5, ProtoFacts
  <2>2. proto.mPosition = proto.mOffset + mPosition /\ Len(disk) <= Len(disk)
    BY <1>1, <1>3, <2>1
  <2> QED
    BY <1>1, <1>3, <2>2 DEF PlaceInv
<1>8. ReadInv
  <2>0. mBlockOffset = 0 /\ mPosition = 0 /\ at = 0
    BY <1>1
  <2>4. ~mBlockPopulated
    BY <1>1, Zenon
  <2>3. Len(mBlock) = 0
    BY <1>1
  <2>1. /\ mBlockOffset <= Len(mBlock) /\ Len(mBlock) <= mPosition
        /\ at = mPosition - (Len(mBlock) - mBlockOffset)
    BY ONLY <2>0, <2>3
  <2>2. \A i \in 1 .. Len(mBlock) : mBlock[i] = disk[(proto.fd - Len(mBlock)) + i]
    BY ONLY <2>3
  <2>5. Len(mBlock) > 0 => proto.fd <= proto.mLength /\ proto.fd <= Len(disk)
    BY ONLY <2>3
  <2>6. /\ call.op \in {"none", "read", "destroyed"} /\ call.op # "destroyed"
        /\ proto.mLength <= Len(disk) \/ Len(disk) = 0
        /\ proto.fd <= proto.mLength \/ proto.fd >= Len(disk)
    BY <1>3, <1>4
  <2> QED
    BY ONLY <2>1, <2>2, <2>4, <2>5, <2>6, Zenon DEF ReadInv
<1>9. WriteInv
  <2>1. proto.fd \in Nat
    BY <1>5, ProtoFacts
  <2>2. C!Overlay(disk, proto.fd, <<>>) = disk
    BY <1>2, <2>1, OverlayNothing
  <2> QED
    BY <1>1, <1>4, <2>2 DEF WriteInv
<1> QED
  BY <1>5, <1>6, <1>7, <1>8, <1>9 DEF ContentInv

(* What the reader is told is where it is. *)
LEMMA TellFacts ==
    ASSUME ContentInv, mode = "read", ~C!Broken, call.op # "destroyed"
    PROVE  C!tell = at
<1>1. /\ mPosition \in Int /\ at \in Int /\ mBlockOffset \in Nat /\ mBlock \in Seq(FileBytes)
      /\ mBlockOffset <= Len(mBlock) /\ at = mPosition - (Len(mBlock) - mBlockOffset)
  BY DEF ContentInv, ContentTypeOK, ReadInv
<1>2. CASE mBlock = <<>>
  <2>1. Len(mBlock) = 0 /\ mBlockOffset = 0
    BY <1>1, <1>2
  <2> QED
    BY <1>1, <1>2, <2>1 DEF C!tell
<1>3. CASE mBlock # <<>>
  BY <1>1, <1>3 DEF C!tell, C!Cached
<1> QED
  BY <1>2, <1>3

LEMMA ContentStep ==
    ASSUME ContentInv, C!Next
    PROVE  ContentInv'
<1>1. ~C!Broken
  BY DEF C!Next
<1>2. CASE (\E n \in 1 .. MaxTransfer : C!Read(n)) \/ (\E s \in C!Transfers : C!Write(s))
  BY <1>1, <1>2, CallStep
<1>3. CASE C!ReadCached
  BY <1>1, <1>3, ReadCachedStep
<1>4. CASE C!ReadBlock
  BY <1>1, <1>4, ReadBlockStep
<1>5. CASE C!WriteCached
  BY <1>1, <1>5, WriteCachedStep
<1>6. CASE C!WriteBlock
  <2>1. call.op = "write" /\ C!WriteBack /\ UNCHANGED <<mode, call, at, want>>
    BY <1>6 DEF C!WriteBlock
  <2>2. mode = "write" /\ call \in Calls /\ SeekInv'
    BY <1>1, <2>1 DEF ContentInv, ContentTypeOK, ReadInv, SeekInv
  <2> QED
    BY <1>1, <2>1, <2>2, FlushStep
<1>7. CASE \E offset \in 0 .. MaxLength : C!Seek(offset)
  <2>1. PICK offset \in 0 .. MaxLength : C!Seek(offset)
    BY <1>7
  <2>2. offset \in Int /\ offset >= 0 /\ C!Move(offset, offset, "seek")
    BY <2>1, ContentAssumption DEF C!Seek
  <2> QED
    BY <1>1, <2>2, MoveStep
<1>8. CASE \E n \in {-1, 1} : C!Skip(n)
  <2>1. PICK n \in {-1, 1} : C!Skip(n)
    BY <1>8
  <2>2. C!Move(C!tell + n, at + n, "skip")
    BY <2>1 DEF C!Skip
  <2>3. C!tell + n \in Int /\ at + n \in Int
    BY DEF C!tell, C!Cached, ContentInv, ContentTypeOK
  <2>4. call.op = "none"
    BY <2>2 DEF C!Move, C!SeekCached, C!FlushForSeek, C!SeekProtocol, C!Idle, C!NoCall
  <2>5. mode = "read" => C!tell = at
    BY <1>1, <2>4, TellFacts
  <2>6. at + n = C!tell + n \/ mode = "write"
    BY <2>5 DEF ContentInv, ContentTypeOK
  <2> QED
    BY <1>1, <2>2, <2>3, <2>6, MoveStep
<1>9. CASE C!SeekFlushed
  <2>1. call.op \in {"seek", "skip"} /\ C!SeekTo(call.to, call.asked, call.op)
    BY <1>9 DEF C!SeekFlushed
  <2>2. call \in [op : {"seek", "skip"}, to : Int, asked : Int]
    BY <2>1 DEF ContentInv, ContentTypeOK, Calls, C!NoCall
  <2>3. /\ mode = "write" => mBlock = <<>>
        /\ call.op = "seek" => call.asked = call.to /\ call.to >= 0
        /\ call.op = "skip" => mode = "write"
        /\ call.to \in Int /\ call.asked \in Int
    BY <1>1, <2>1, <2>2 DEF ContentInv, WriteInv, SeekInv
  <2> QED
    BY <1>1, <2>1, <2>2, <2>3, SeekToStep
<1>10. CASE C!Destroy
  BY <1>1, <1>10, DestroyStep
<1> QED
  BY <1>2, <1>3, <1>4, <1>5, <1>6, <1>7, <1>8, <1>9, <1>10 DEF C!Next

(* What the invariant says of a reader and a writer. *)
LEMMA ReadersAreRight ==
    ASSUME ContentInv
    PROVE  C!ReadsAreOfTheFile
<1> SUFFICES ASSUME mode = "read", ~C!Broken PROVE C!ReadsAreOfTheFile
  BY DEF C!ReadsAreOfTheFile
<1> DEFINE ahead == SubSeq(mBlock, mBlockOffset + 1, Len(mBlock))
           from == proto.mOffset + at
           p == proto.fd
           n == Len(mBlock) - mBlockOffset
<1>1. /\ disk \in Seq(FileBytes) /\ mBlock \in Seq(FileBytes)
      /\ Len(disk) \in Nat /\ Len(mBlock) \in Nat /\ mBlockOffset \in Nat
      /\ proto.mOffset \in Nat /\ proto.mLength \in Nat /\ p \in Nat
      /\ mPosition \in Nat /\ at \in Nat
  BY ProtoFacts DEF ContentInv, ContentTypeOK, PlaceInv
<1>2. /\ p = proto.mOffset + mPosition
      /\ mBlockOffset <= Len(mBlock) /\ Len(mBlock) <= mPosition
      /\ Len(mBlock) > 0 => p <= Len(disk) /\ p <= proto.mLength
      /\ \A i \in 1 .. Len(mBlock) : mBlock[i] = disk[(p - Len(mBlock)) + i]
      /\ IF call.op = "destroyed" THEN mBlock = <<>>
         ELSE at = mPosition - (Len(mBlock) - mBlockOffset)
      /\ call.op \in {"none", "read", "destroyed"}
  BY DEF ContentInv, ReadInv, PlaceInv
<1>3. n \in Nat /\ from \in Int /\ (call.op # "destroyed" => from = p - n)
      /\ (call.op = "destroyed" => n = 0)
  <2>1. /\ p = proto.mOffset + mPosition /\ mBlockOffset <= Len(mBlock)
        /\ (call.op # "destroyed" => at = mPosition - (Len(mBlock) - mBlockOffset))
        /\ (call.op = "destroyed" => Len(mBlock) = 0)
    BY <1>2
  <2>2. call.op # "destroyed" => from = p - n
    <3> HAVE call.op # "destroyed"
    <3> QED
      BY <1>1, <2>1, SMTT(30)
  <2>3. call.op = "destroyed" => n = 0
    <3> HAVE call.op = "destroyed"
    <3> QED
      BY <1>1, <2>1
  <2> QED
    BY <1>1, <2>1, <2>2, <2>3
<1>4. /\ ahead \in Seq(FileBytes) /\ Len(ahead) = n
      /\ \A i \in 1 .. n : ahead[i] = mBlock[mBlockOffset + i]
  BY <1>1, <1>2, SubSeqFacts
<1>5. ahead # <<>> => /\ from >= 0 /\ from + Len(ahead) <= Len(disk)
                      /\ from + Len(ahead) <= proto.mLength /\ from = p - n
  <2> SUFFICES ASSUME ahead # <<>>
               PROVE  /\ from >= 0 /\ from + Len(ahead) <= Len(disk)
                      /\ from + Len(ahead) <= proto.mLength /\ from = p - n
    OBVIOUS
  <2>1. n > 0 /\ call.op # "destroyed"
    BY <1>3, <1>4
  <2>2. Len(mBlock) > 0 /\ from >= 0
    BY <1>1, <2>1
  <2>3. from = p - n /\ p <= Len(disk) /\ p <= proto.mLength
    BY <1>2, <1>3, <2>1, <2>2
  <2> HIDE DEF from, p, n
  <2> QED
    BY <1>1, <1>3, <1>4, <2>2, <2>3
<1> HIDE DEF ahead, from
<1>6. ahead = SubSeq(disk, from + 1, from + Len(ahead))
  <2> DEFINE there == SubSeq(disk, from + 1, from + Len(ahead))
  <2>1. \A i \in from + 1 .. from + Len(ahead) : disk[i] \in FileBytes
    BY <1>1, <1>3, <1>4, <1>5
  <2>2. from + 1 \in Int /\ from + Len(ahead) \in Int
    BY <1>3, <1>4
  <2> HIDE DEF there
  <2>3. /\ there \in Seq(FileBytes)
        /\ Len(there) = IF from + 1 <= from + Len(ahead)
                        THEN (from + Len(ahead)) - (from + 1) + 1 ELSE 0
        /\ \A i \in 1 .. (from + Len(ahead)) - (from + 1) + 1 : there[i] = disk[from + 1 + i - 1]
    BY <2>1, <2>2, SubSeqProperties DEF there
  <2>4. Len(there) = n /\ \A i \in 1 .. n : there[i] = disk[from + i]
    <3> HIDE DEF n
    <3> QED
      BY <1>3, <1>4, <2>3
  <2>5. ASSUME NEW i \in 1 .. n
        PROVE  there[i] = ahead[i]
    <3>1. ahead # <<>> /\ from = p - n
      BY <1>3, <1>4, <1>5
    <3>2. mBlockOffset + i \in 1 .. Len(mBlock)
      BY <1>1, <1>2, <1>3
    <3>3. ahead[i] = disk[(p - Len(mBlock)) + (mBlockOffset + i)]
      BY <1>2, <1>4, <3>2
    <3>4. (p - Len(mBlock)) + (mBlockOffset + i) = from + i
      BY <1>1, <3>1
    <3> QED
      BY <2>4, <3>3, <3>4
  <2>6. ahead = there
    BY <1>4, <2>3, <2>4, <2>5, SeqEqual
  <2> QED
    BY <2>6 DEF there
<1>7. call.op # "destroyed" => C!tell = at
  BY TellFacts
<1>8. call.op = "read" /\ C!Cached = 0 => p = from
  BY <1>1, <1>2, <1>3 DEF C!Cached
<1>9. ahead # <<>> => from + Len(ahead) <= C!Min2(Len(disk), proto.mLength)
  <2> HIDE DEF n, p
  <2>1. from + Len(ahead) \in Int /\ Len(disk) \in Int /\ proto.mLength \in Int
    BY <1>1, <1>3, <1>4
  <2>2. ahead # <<>> => from + Len(ahead) <= Len(disk) /\ from + Len(ahead) <= proto.mLength
    BY <1>5
  <2> QED
    BY ONLY <2>1, <2>2 DEF C!Min2
<1>10. at >= 0
  BY <1>1
<1> QED
  BY ONLY <1>6, <1>7, <1>8, <1>9, <1>10, Zenon DEF C!ReadsAreOfTheFile, ahead, from

LEMMA WritersAreRight ==
    ASSUME ContentInv
    PROVE  C!WritesReachTheFile
<1> SUFFICES ASSUME mode = "write", ~C!Broken PROVE C!WritesReachTheFile
  BY DEF C!WritesReachTheFile
<1>1. proto.fd \in Nat /\ disk \in Seq(FileBytes) /\ proto.mLength \in Nat /\ Len(disk) \in Nat
  BY ProtoFacts DEF ContentInv, ContentTypeOK
<1>2. C!Overlay(disk, proto.fd, <<>>) = disk
  BY <1>1, OverlayNothing
<1>3. /\ C!Overlay(disk, proto.fd, mBlock) = want
      /\ proto.fd = proto.mOffset + mPosition /\ mPosition >= 0
      /\ call.op = "destroyed" => mBlock = <<>>
      /\ proto.mUrl = "file" =>
            /\ Len(disk) <= proto.mLength
            /\ fault = "none" => proto.mLength = Len(disk)
  BY DEF ContentInv, PlaceInv, WriteInv
<1>4. proto.mUrl = "file" => proto.mLength >= Len(disk)
  BY <1>1, <1>3
<1> QED
  BY <1>2, <1>3, <1>4 DEF C!WritesReachTheFile


\* The cached block is the file's, or what is left to be written to it, at the
\* place a read or a write goes on from, and the client is there: in any window,
\* until the first seek, skip or write that does not do what it was asked.
THEOREM ContentInvariance == MCSpec => [](scenario = "contents" => ContentInv)
<1>1. MCInit => (scenario = "contents" => ContentInv)
  BY ContentInit DEF MCInit
<1>2. (scenario = "contents" => ContentInv) /\ [MCNext]_mcVars
        => (scenario = "contents" => ContentInv)'
  <2> SUFFICES ASSUME scenario = "contents", ContentInv, [MCNext]_mcVars
               PROVE  ContentInv'
    BY DEF MCNext, mcVars
  <2>1. CASE MCNext
    BY <2>1, ContentStep DEF MCNext
  <2>2. CASE UNCHANGED mcVars
    BY <2>2 DEF mcVars, contentVars, ContentInv, ContentTypeOK, SeekInv, PlaceInv, ReadInv,
              WriteInv, C!MissesAreAtTheEnds, C!Broken, C!totalBytes
  <2> QED
    BY <2>1, <2>2
<1> QED
  BY <1>1, <1>2, PTL DEF MCSpec

\* A cached file is read and written where the client is, which is where it
\* asked to be, but for those that miss at or past the ends of a window and for a
\* writer's skip: read, write, seek and skip of Content.cpp over File.cpp.
THEOREM ContentsAreTheFiles == MCSpec => []ContentIsTheFiles
<1>1. (scenario = "contents" => ContentInv) => ContentIsTheFiles
  BY ReadersAreRight, WritersAreRight DEF ContentIsTheFiles, ContentInv
<1> QED
  BY <1>1, ContentInvariance, PTL

-----------------------------------------------------------------------------
(* Message: entries that own what they hold. *)

MessageEntries ==
    [mType : {"data"}, u : Data] \cup [mType : {"string"}, u : Blocks]
        \cup [mType : {"object"}, u : Objects]
Rows == [Names -> MessageEntries \cup {NULL}]

\* A message that does not exist has no entry.
EntryAt(m, n) == IF msg[m] = NULL THEN NULL ELSE msg[m][n]

MessageTypeOK ==
    /\ msg \in [Messages -> Rows \cup {NULL}]
    /\ block \in [Blocks -> Texts \cup {NULL}]
    /\ usedRefs \in [Objects -> Nat] /\ leaked \in [Objects -> Nat]
    /\ held \subseteq Objects

\* A block is in use exactly if an entry has it, and only one has.
BlocksInv ==
    /\ \A m \in Messages, n \in Names, b \in Blocks :
        EntryAt(m, n) = M!Entry("string", b) => block[b] # NULL
    /\ \A b \in Blocks : block[b] # NULL =>
        \E m \in Messages, n \in Names : EntryAt(m, n) = M!Entry("string", b)
    /\ \A m, k \in Messages, n, j \in Names, b \in Blocks :
        EntryAt(m, n) = M!Entry("string", b) /\ EntryAt(k, j) = M!Entry("string", b)
            => m = k /\ n = j

Using(o) == {e \in Messages \X Names : EntryAt(e[1], e[2]) = M!Entry("object", o)}

CountsInv ==
    \A o \in Objects :
        usedRefs[o] = (IF o \in held THEN 1 ELSE 0) + leaked[o] + Cardinality(Using(o))

AnswerInv ==
    value = [m \in Messages |->
        IF msg[m] = NULL THEN NULL ELSE [n \in Names |-> M!Answer(m, n)]]

MessageInv == MessageTypeOK /\ BlocksInv /\ CountsInv /\ AnswerInv

-----------------------------------------------------------------------------
(* Message's Cardinality is the one of the theorems about finite sets. *)
LEMMA MessageCardinality == \A P : M!Cardinality(P) = Cardinality(P)
  BY DEF M!Cardinality, Cardinality

LEMMA NullIsNoEntry ==
    NULL \notin MessageEntries /\ NULL \notin Rows /\ NULL \notin Texts
<1> DEFINE entries == [mType : {"data", "string", "object"}, u : Data \cup Blocks \cup Objects]
<1>1. MessageEntries \subseteq entries
  BY DEF MessageEntries
<1>2. NULL \notin entries /\ NULL \notin [Names -> entries \cup {NULL}] /\ NULL \notin Texts
  BY MessageAssumption
<1> HIDE DEF entries
<1>3. Rows \subseteq [Names -> entries \cup {NULL}]
  BY <1>1 DEF Rows
<1> QED
  BY <1>1, <1>2, <1>3

LEMMA EntriesAre ==
    ASSUME MessageTypeOK, NEW m \in Messages, NEW n \in Names
    PROVE  /\ EntryAt(m, n) \in MessageEntries \cup {NULL}
           /\ msg[m] # NULL => msg[m] \in Rows /\ EntryAt(m, n) = msg[m][n]
  BY DEF MessageTypeOK, EntryAt, Rows

(* The types of entries. *)
LEMMA EntryTypes ==
    ASSUME NEW e \in MessageEntries \cup {NULL}
    PROVE  /\ M!IsString(e) <=> \E b \in Blocks : e = M!Entry("string", b)
           /\ M!IsObject(e) <=> \E o \in Objects : e = M!Entry("object", o)
           /\ M!IsString(e) => e.u \in Blocks /\ e = M!Entry("string", e.u)
           /\ M!IsObject(e) => e.u \in Objects /\ e = M!Entry("object", e.u)
           /\ ~(M!IsString(e) /\ M!IsObject(e))
<1>1. CASE e = NULL
  <2>1. \A b \in Blocks : M!Entry("string", b) \in MessageEntries
    BY DEF M!Entry, MessageEntries
  <2>2. \A o \in Objects : M!Entry("object", o) \in MessageEntries
    BY DEF M!Entry, MessageEntries
  <2> QED
    BY <1>1, <2>1, <2>2, NullIsNoEntry DEF M!IsString, M!IsObject
<1>2. CASE e \in [mType : {"data"}, u : Data]
  BY <1>2, NullIsNoEntry DEF M!IsString, M!IsObject, M!Entry, MessageEntries
<1>3. CASE e \in [mType : {"string"}, u : Blocks]
  BY <1>3, NullIsNoEntry DEF M!IsString, M!IsObject, M!Entry, MessageEntries
<1>4. CASE e \in [mType : {"object"}, u : Objects]
  BY <1>4, NullIsNoEntry DEF M!IsString, M!IsObject, M!Entry, MessageEntries
<1> QED
  BY <1>1, <1>2, <1>3, <1>4 DEF MessageEntries

LEMMA EntryMakes ==
    /\ \A b \in Blocks : M!Entry("string", b) \in MessageEntries /\ M!Entry("string", b).u = b
    /\ \A o \in Objects : M!Entry("object", o) \in MessageEntries /\ M!Entry("object", o).u = o
    /\ \A x \in Data : M!Entry("data", x) \in MessageEntries /\ M!Entry("data", x).u = x
    /\ \A b \in Blocks, o \in Objects : M!Entry("string", b) # M!Entry("object", o)
    /\ \A b \in Blocks, x \in Data : M!Entry("string", b) # M!Entry("data", x)
    /\ \A o \in Objects, x \in Data : M!Entry("object", o) # M!Entry("data", x)
  BY DEF M!Entry, MessageEntries

LEMMA UsingIsFinite ==
    ASSUME NEW o
    PROVE  IsFiniteSet(Using(o)) /\ Cardinality(Using(o)) \in Nat
<1>1. IsFiniteSet(Messages \X Names)
  BY MessageAssumption, FS_Product
<1>2. Using(o) \subseteq Messages \X Names
  BY DEF Using
<1>3. IsFiniteSet(Using(o))
  BY <1>1, <1>2, FS_Subset
<1> QED
  BY <1>3, FS_CardinalityType

-----------------------------------------------------------------------------
(* One entry changes. *)
Replaces(m, n, x) == msg' = [msg EXCEPT ![m][n] = x]

Changes(m, n, x) ==
    /\ msg' \in [Messages -> Rows \cup {NULL}]
    /\ \A k \in Messages : msg'[k] = NULL <=> msg[k] = NULL
    /\ \A k \in Messages, j \in Names :
        EntryAt(k, j)' = IF k = m /\ j = n THEN x ELSE EntryAt(k, j)

Answers(m, n, a) == value' = [value EXCEPT ![m] = [value[m] EXCEPT ![n] = a]]

LEMMA ChangeEntry ==
    ASSUME MessageTypeOK, NEW m \in Messages, NEW n \in Names, msg[m] # NULL,
           NEW x \in MessageEntries \cup {NULL}, Replaces(m, n, x)
    PROVE  Changes(m, n, x)
<1>1. msg[m] \in Rows /\ msg \in [Messages -> Rows \cup {NULL}]
  BY EntriesAre DEF MessageTypeOK
<1> DEFINE row == [msg[m] EXCEPT ![n] = x]
<1>2. row \in Rows /\ row # NULL
  BY <1>1, NullIsNoEntry DEF Rows
<1>3. msg' = [msg EXCEPT ![m] = row]
  BY DEF Replaces
<1>4. \A j \in Names : row[j] = IF j = n THEN x ELSE msg[m][j]
  BY <1>1 DEF Rows
<1> HIDE DEF row
<1>5. \A k \in Messages : msg'[k] = IF k = m THEN row ELSE msg[k]
  BY <1>1, <1>3
<1> QED
  BY <1>1, <1>2, <1>3, <1>4, <1>5 DEF EntryAt, Changes

(* ... and the entries that use o are one less or more. *)
LEMMA CountChange ==
    ASSUME NEW m \in Messages, NEW n \in Names, NEW x, NEW o \in Objects,
           \A k \in Messages, j \in Names :
                EntryAt(k, j)' = IF k = m /\ j = n THEN x ELSE EntryAt(k, j)
    PROVE  Cardinality(Using(o))' =
                (Cardinality(Using(o)) - (IF EntryAt(m, n) = M!Entry("object", o) THEN 1 ELSE 0))
                + (IF x = M!Entry("object", o) THEN 1 ELSE 0)
<1> DEFINE e == <<m, n>>
           U == Using(o)
           V == U \ {e}
<1>1. /\ IsFiniteSet(U) /\ Cardinality(U) \in Nat
      /\ e \in U <=> EntryAt(m, n) = M!Entry("object", o)
  BY UsingIsFinite DEF Using
<1>2. Using(o)' = IF x = M!Entry("object", o) THEN V \cup {e} ELSE V
  <2>1. ASSUME NEW k \in Messages, NEW j \in Names
        PROVE  <<k, j>> \in Using(o)' <=>
                <<k, j>> \in IF x = M!Entry("object", o) THEN V \cup {e} ELSE V
    BY <2>1 DEF Using, M!Entry
  <2>2. Using(o)' \subseteq Messages \X Names /\ V \cup {e} \subseteq Messages \X Names
    BY DEF Using
  <2> HIDE DEF V, e
  <2> QED
    BY <2>1, <2>2
<1> HIDE DEF U, e
<1>3. /\ IsFiniteSet(V) /\ e \notin V
      /\ Cardinality(V) = IF e \in U THEN Cardinality(U) - 1 ELSE Cardinality(U)
  BY <1>1, FS_RemoveElement
<1> HIDE DEF V
<1>4. Cardinality(V \cup {e}) = Cardinality(V) + 1
  BY <1>3, FS_AddElement
<1>5. Cardinality(Using(o))' = Cardinality(V) + (IF x = M!Entry("object", o) THEN 1 ELSE 0)
  <2>1. Cardinality(V) \in Nat
    BY <1>3, FS_CardinalityType
  <2> QED
    BY <1>2, <1>4, <2>1
<1> QED
  BY <1>1, <1>3, <1>5 DEF U

LEMMA FreedFacts ==
    ASSUME MessageTypeOK, NEW m \in Messages, NEW n \in Names, msg[m] # NULL
    PROVE  /\ M!FreedBlocks(m, n) \in [Blocks -> Texts \cup {NULL}]
           /\ \A b \in Blocks : M!FreedBlocks(m, n)[b] =
                IF EntryAt(m, n) = M!Entry("string", b) THEN NULL ELSE block[b]
<1> DEFINE e == EntryAt(m, n)
<1>1. e \in MessageEntries \cup {NULL} /\ e = msg[m][n] /\ block \in [Blocks -> Texts \cup {NULL}]
  BY EntriesAre DEF MessageTypeOK
<1> HIDE DEF e
<1>2. M!FreedBlocks(m, n) = IF M!IsString(e) THEN [block EXCEPT ![e.u] = NULL] ELSE block
  BY <1>1 DEF M!FreedBlocks
<1>3. CASE M!IsString(e)
  <2>1. e.u \in Blocks /\ e = M!Entry("string", e.u)
    BY <1>1, <1>3, EntryTypes
  <2>2. \A b \in Blocks : e = M!Entry("string", b) <=> b = e.u
    BY <2>1, EntryMakes
  <2> QED
    BY <1>1, <1>2, <1>3, <2>1, <2>2 DEF e
<1>4. CASE ~M!IsString(e)
  <2>1. \A b \in Blocks : e # M!Entry("string", b)
    BY <1>1, <1>4, EntryTypes
  <2> QED
    BY <1>1, <1>2, <1>4, <2>1 DEF e
<1> QED
  BY <1>3, <1>4

LEMMA ReleasedFacts ==
    ASSUME MessageTypeOK, NEW m \in Messages, NEW n \in Names, msg[m] # NULL,
           NEW refs \in [Objects -> Nat]
    PROVE  /\ M!ReleasedBy(refs, m, n) \in [Objects -> Nat]
           /\ \A o \in Objects : M!ReleasedBy(refs, m, n)[o] =
                IF EntryAt(m, n) = M!Entry("object", o) /\ refs[o] # 0
                THEN refs[o] - 1 ELSE refs[o]
<1> DEFINE e == EntryAt(m, n)
<1>1. e \in MessageEntries \cup {NULL} /\ e = msg[m][n]
  BY EntriesAre
<1> HIDE DEF e
<1>2. M!ReleasedBy(refs, m, n) =
        IF M!IsObject(e) THEN [refs EXCEPT ![e.u] = IF @ = 0 THEN 0 ELSE @ - 1] ELSE refs
  BY <1>1 DEF M!ReleasedBy, M!Release
<1>3. CASE M!IsObject(e)
  <2>1. e.u \in Objects /\ e = M!Entry("object", e.u)
    BY <1>1, <1>3, EntryTypes
  <2>2. \A o \in Objects : e = M!Entry("object", o) <=> o = e.u
    BY <2>1, EntryMakes
  <2> QED
    BY <1>2, <1>3, <2>1, <2>2 DEF e
<1>4. CASE ~M!IsObject(e)
  <2>1. \A o \in Objects : e # M!Entry("object", o)
    BY <1>1, <1>4, EntryTypes
  <2> QED
    BY <1>2, <1>4, <2>1 DEF e
<1> QED
  BY <1>3, <1>4

\* The old entry's block is free and a new one's was.
LEMMA BlocksChange ==
    ASSUME MessageInv, NEW m \in Messages, NEW n \in Names,
           NEW x \in MessageEntries \cup {NULL}, Changes(m, n, x),
           \A b \in Blocks : block'[b] # NULL <=>
                \/ x = M!Entry("string", b)
                \/ block[b] # NULL /\ EntryAt(m, n) # M!Entry("string", b),
           \A b \in Blocks : x = M!Entry("string", b) => block[b] = NULL
    PROVE  BlocksInv'
<1> USE DEF Changes
<1>1. \A k \in Messages, j \in Names :
        EntryAt(k, j)' = IF k = m /\ j = n THEN x ELSE EntryAt(k, j)
  OBVIOUS
<1>2. /\ \A k \in Messages, j \in Names, b \in Blocks :
            EntryAt(k, j) = M!Entry("string", b) => block[b] # NULL
      /\ \A b \in Blocks : block[b] # NULL =>
            \E k \in Messages, j \in Names : EntryAt(k, j) = M!Entry("string", b)
      /\ \A k, l \in Messages, i, j \in Names, b \in Blocks :
            EntryAt(k, i) = M!Entry("string", b) /\ EntryAt(l, j) = M!Entry("string", b)
                => k = l /\ i = j
  BY DEF MessageInv, BlocksInv
<1>3. \A b, c \in Blocks : M!Entry("string", b) = M!Entry("string", c) => b = c
  BY DEF M!Entry
<1>4. ASSUME NEW k \in Messages, NEW j \in Names, NEW b \in Blocks,
             EntryAt(k, j)' = M!Entry("string", b)
      PROVE  block'[b] # NULL
  BY <1>1, <1>2, <1>4
<1>5. ASSUME NEW b \in Blocks, block'[b] # NULL
      PROVE  \E k \in Messages, j \in Names : EntryAt(k, j)' = M!Entry("string", b)
  <2>1. CASE x = M!Entry("string", b)
    BY <1>1, <2>1
  <2>2. CASE block[b] # NULL /\ EntryAt(m, n) # M!Entry("string", b)
    BY <1>1, <1>2, <2>2
  <2> QED
    BY <1>5, <2>1, <2>2
<1>6. ASSUME NEW k \in Messages, NEW l \in Messages, NEW i \in Names, NEW j \in Names,
             NEW b \in Blocks,
             EntryAt(k, i)' = M!Entry("string", b), EntryAt(l, j)' = M!Entry("string", b)
      PROVE  k = l /\ i = j
  BY <1>1, <1>2, <1>6
<1>7. \A b \in Blocks : M!Entry("string", b)' = M!Entry("string", b)
  BY DEF M!Entry
<1> QED
  BY <1>4, <1>5, <1>6, <1>7 DEF BlocksInv

\* Every other entry answers as before.
LEMMA AnswerChange ==
    ASSUME MessageInv, NEW m \in Messages, NEW n \in Names, msg[m] # NULL,
           NEW x \in MessageEntries \cup {NULL}, Changes(m, n, x), NEW a,
           \A b \in Blocks : x = M!Entry("string", b) => block[b] = NULL /\ a = block'[b],
           ~M!IsString(x) => a = IF x = NULL THEN NULL ELSE x.u,
           \A b \in Blocks : EntryAt(m, n) # M!Entry("string", b) /\ x # M!Entry("string", b)
                => block'[b] = block[b],
           Answers(m, n, a)
    PROVE  AnswerInv'
<1> DEFINE Row(k) == IF msg[k] = NULL THEN NULL ELSE [j \in Names |-> M!Answer(k, j)]
           RowP(k) == IF msg'[k] = NULL THEN NULL ELSE [j \in Names |-> M!Answer(k, j)']
<1>1. value = [k \in Messages |-> Row(k)] /\ MessageTypeOK /\ BlocksInv
  BY DEF MessageInv, AnswerInv
<1>2. \A k \in Messages, j \in Names : msg[k] # NULL => EntryAt(k, j) = msg[k][j]
  BY DEF EntryAt
<1>3. \A k \in Messages, j \in Names : msg'[k] # NULL => EntryAt(k, j)' = msg'[k][j]
  BY DEF EntryAt
<1>4. ASSUME NEW k \in Messages, NEW j \in Names, msg[k] # NULL
      PROVE  M!Answer(k, j)' = IF k = m /\ j = n THEN a ELSE M!Answer(k, j)
  <2> DEFINE e == EntryAt(k, j)
  <2>1. /\ msg'[k] # NULL /\ msg'[k][j] = IF k = m /\ j = n THEN x ELSE e
        /\ msg[k][j] = e /\ e \in MessageEntries \cup {NULL}
    BY <1>1, <1>2, <1>3, <1>4, EntriesAre DEF Changes
  <2> HIDE DEF e
  <2>2. CASE k = m /\ j = n
    <3>1. msg'[k][j] = x
      BY <2>1, <2>2
    <3>2. M!Answer(k, j)' = IF x = NULL THEN NULL ELSE IF M!IsString(x) THEN block'[x.u] ELSE x.u
      BY <3>1 DEF M!Answer, M!IsString
    <3>3. CASE M!IsString(x)
      <4>1. x.u \in Blocks /\ x = M!Entry("string", x.u) /\ x # NULL
        BY <3>3, EntryTypes DEF M!IsString
      <4> QED
        BY <2>2, <3>2, <3>3, <4>1
    <3>4. CASE ~M!IsString(x)
      BY <2>2, <3>2, <3>4
    <3> QED
      BY <3>3, <3>4
  <2>3. CASE ~(k = m /\ j = n)
    <3>1. msg'[k][j] = e
      BY <2>1, <2>3
    <3>2. M!Answer(k, j)' = IF e = NULL THEN NULL ELSE IF M!IsString(e) THEN block'[e.u] ELSE e.u
      BY <3>1 DEF M!Answer, M!IsString
    <3>3. M!Answer(k, j) = IF e = NULL THEN NULL ELSE IF M!IsString(e) THEN block[e.u] ELSE e.u
      BY <2>1 DEF M!Answer, M!IsString
    <3>4. ASSUME M!IsString(e) PROVE block'[e.u] = block[e.u]
      <4>1. e.u \in Blocks /\ e = M!Entry("string", e.u)
        BY <2>1, <3>4, EntryTypes
      <4>2. block[e.u] # NULL /\ EntryAt(m, n) # M!Entry("string", e.u)
        BY <1>1, <2>3, <4>1 DEF BlocksInv, e
      <4> QED
        BY <4>1, <4>2
    <3> QED
      BY <2>3, <3>2, <3>3, <3>4
  <2> QED
    BY <2>2, <2>3
<1>5. value'[m] = RowP(m) /\ \A k \in Messages : value'[k] = RowP(k)
  <2>0. value' = [value EXCEPT ![m] = [value[m] EXCEPT ![n] = a]]
    BY DEF Answers
  <2>1. value[m] = [j \in Names |-> M!Answer(m, j)]
    BY <1>1
  <2>2. msg'[m] # NULL
    BY DEF Changes
  <2>3. value'[m] = [j \in Names |-> IF j = n THEN a ELSE M!Answer(m, j)]
    BY <1>1, <2>0, <2>1
  <2>4. value'[m] = RowP(m)
    BY <1>4, <2>2, <2>3
  <2>5. ASSUME NEW k \in Messages, k # m PROVE value'[k] = RowP(k)
    <3>1. value'[k] = Row(k)
      BY <1>1, <2>0, <2>5
    <3>2. msg'[k] = NULL <=> msg[k] = NULL
      BY DEF Changes
    <3>3. \A j \in Names : msg[k] # NULL => M!Answer(k, j)' = M!Answer(k, j)
      BY <1>4, <2>5
    <3> QED
      BY <3>1, <3>2, <3>3
  <2> QED
    BY <2>4, <2>5
<1>6. value' = [k \in Messages |-> value'[k]]
  BY <1>1 DEF Answers
<1>7. value' = [k \in Messages |-> RowP(k)]
  BY <1>5, <1>6
<1> QED
  BY <1>7 DEF AnswerInv

LEMMA CountsChange ==
    ASSUME MessageInv, NEW m \in Messages, NEW n \in Names, NEW x, Changes(m, n, x),
           \A o \in Objects : usedRefs'[o] =
                (usedRefs[o] - (IF EntryAt(m, n) = M!Entry("object", o) THEN 1 ELSE 0))
                + (IF x = M!Entry("object", o) THEN 1 ELSE 0),
           UNCHANGED <<held, leaked>>
    PROVE  CountsInv'
<1> SUFFICES ASSUME NEW o \in Objects
             PROVE  usedRefs'[o] = (IF o \in held THEN 1 ELSE 0) + leaked[o]
                                    + Cardinality(Using(o))'
  BY DEF CountsInv
<1>1. Cardinality(Using(o))' =
        (Cardinality(Using(o)) - (IF EntryAt(m, n) = M!Entry("object", o) THEN 1 ELSE 0))
        + (IF x = M!Entry("object", o) THEN 1 ELSE 0)
  BY CountChange DEF Changes
<1>2. /\ usedRefs[o] = (IF o \in held THEN 1 ELSE 0) + leaked[o] + Cardinality(Using(o))
      /\ leaked[o] \in Nat /\ Cardinality(Using(o)) \in Nat
  BY UsingIsFinite DEF MessageInv, CountsInv, MessageTypeOK
<1>3. usedRefs'[o] =
        (usedRefs[o] - (IF EntryAt(m, n) = M!Entry("object", o) THEN 1 ELSE 0))
        + (IF x = M!Entry("object", o) THEN 1 ELSE 0)
  OBVIOUS
<1> QED
  BY <1>1, <1>2, <1>3

\* An object that an entry has is alive.
LEMMA UsedIsAlive ==
    ASSUME MessageInv, NEW m \in Messages, NEW n \in Names, NEW o \in Objects,
           EntryAt(m, n) = M!Entry("object", o)
    PROVE  usedRefs[o] \in Nat \ {0}
<1>1. /\ usedRefs[o] = (IF o \in held THEN 1 ELSE 0) + leaked[o] + Cardinality(Using(o))
      /\ leaked[o] \in Nat /\ Cardinality(Using(o)) \in Nat
  BY UsingIsFinite DEF MessageInv, CountsInv, MessageTypeOK
<1>2. <<m, n>> \in Using(o)
  BY DEF Using
<1>3. Cardinality(Using(o)) # 0
  BY <1>2, UsingIsFinite, FS_EmptySet
<1> QED
  BY <1>1, <1>3

-----------------------------------------------------------------------------
(* The steps.  An entry that is no string replaces another. *)
LEMMA PlainStep ==
    ASSUME MessageInv, NEW m \in Messages, NEW n \in Names, msg[m] # NULL,
           NEW x \in MessageEntries \cup {NULL}, ~M!IsString(x),
           NEW refs \in [Objects -> Nat],
           \A o \in Objects : refs[o] = usedRefs[o] + (IF x = M!Entry("object", o) THEN 1 ELSE 0),
           Replaces(m, n, x),
           block' = M!FreedBlocks(m, n), usedRefs' = M!ReleasedBy(refs, m, n),
           Answers(m, n, IF x = NULL THEN NULL ELSE x.u),
           UNCHANGED <<held, leaked>>
    PROVE  MessageInv'
<1>1. MessageTypeOK /\ Changes(m, n, x)
  <2>1. MessageTypeOK
    BY DEF MessageInv
  <2> QED
    BY <2>1, ChangeEntry
<1>2. \A b \in Blocks : x # M!Entry("string", b)
  BY EntryTypes
<1>3. /\ block' \in [Blocks -> Texts \cup {NULL}]
      /\ \A b \in Blocks : block'[b] =
            IF EntryAt(m, n) = M!Entry("string", b) THEN NULL ELSE block[b]
  BY <1>1, FreedFacts
<1>4. BlocksInv'
  <2>1. \A b \in Blocks : block'[b] # NULL <=>
            \/ x = M!Entry("string", b)
            \/ block[b] # NULL /\ EntryAt(m, n) # M!Entry("string", b)
    BY <1>2, <1>3
  <2> QED
    BY <1>1, <1>2, <2>1, BlocksChange
<1>5. AnswerInv'
  <2> DEFINE a == IF x = NULL THEN NULL ELSE x.u
  <2>1. Answers(m, n, a)
    OBVIOUS
  <2>2. \A b \in Blocks : x = M!Entry("string", b) => block[b] = NULL /\ a = block'[b]
    BY <1>2
  <2>3. \A b \in Blocks : EntryAt(m, n) # M!Entry("string", b) /\ x # M!Entry("string", b)
            => block'[b] = block[b]
    BY <1>3
  <2>4. ~M!IsString(x) => a = IF x = NULL THEN NULL ELSE x.u
    OBVIOUS
  <2> HIDE DEF a
  <2> QED
    BY <1>1, <2>1, <2>2, <2>3, <2>4, AnswerChange
<1>6. /\ usedRefs' \in [Objects -> Nat]
      /\ \A o \in Objects : usedRefs'[o] =
            IF EntryAt(m, n) = M!Entry("object", o) /\ refs[o] # 0
            THEN refs[o] - 1 ELSE refs[o]
  BY <1>1, ReleasedFacts
<1>7. CountsInv'
  <2>1. ASSUME NEW o \in Objects
        PROVE  usedRefs'[o] =
                (usedRefs[o] - (IF EntryAt(m, n) = M!Entry("object", o) THEN 1 ELSE 0))
                + (IF x = M!Entry("object", o) THEN 1 ELSE 0)
    <3>1. usedRefs[o] \in Nat /\ (EntryAt(m, n) = M!Entry("object", o) => usedRefs[o] # 0)
      BY <1>1, UsedIsAlive DEF MessageTypeOK
    <3>2. refs[o] = usedRefs[o] + (IF x = M!Entry("object", o) THEN 1 ELSE 0)
      OBVIOUS
    <3>3. usedRefs'[o] = IF EntryAt(m, n) = M!Entry("object", o) /\ refs[o] # 0
                         THEN refs[o] - 1 ELSE refs[o]
      BY <1>6
    <3> QED
      BY <3>1, <3>2, <3>3
  <2> QED
    BY <1>1, <2>1, CountsChange
<1>8. MessageTypeOK'
  BY <1>1, <1>3, <1>6 DEF MessageTypeOK, Changes
<1> QED
  BY <1>4, <1>5, <1>7, <1>8 DEF MessageInv

LEMMA RemoveStep ==
    ASSUME MessageInv, NEW m \in Messages, NEW n \in Names, M!Remove(m, n)
    PROVE  MessageInv'
<1>1. /\ msg[m] # NULL /\ Replaces(m, n, NULL)
      /\ block' = M!FreedBlocks(m, n) /\ usedRefs' = M!ReleasedBy(usedRefs, m, n)
      /\ Answers(m, n, NULL)
      /\ UNCHANGED <<held, leaked>>
  BY DEF M!Remove, M!Exists, M!Own!Take, M!Own!Put, M!Own!Become, Answers, Replaces
<1>2. ~M!IsString(NULL) /\ \A o \in Objects : NULL # M!Entry("object", o)
  BY NullIsNoEntry, EntryMakes DEF M!IsString
<1>3. /\ usedRefs \in [Objects -> Nat]
      /\ \A o \in Objects : usedRefs[o] = usedRefs[o] + (IF NULL = M!Entry("object", o) THEN 1 ELSE 0)
  BY <1>2 DEF MessageInv, MessageTypeOK
<1> DEFINE x == NULL
<1>4. /\ x \in MessageEntries \cup {NULL} /\ ~M!IsString(x)
      /\ \A o \in Objects : usedRefs[o] = usedRefs[o] + (IF x = M!Entry("object", o) THEN 1 ELSE 0)
      /\ Replaces(m, n, x)
      /\ Answers(m, n, IF x = NULL THEN NULL ELSE x.u)
  BY <1>1, <1>2, <1>3
<1> HIDE DEF x
<1> QED
  BY <1>1, <1>3, <1>4, PlainStep

LEMMA SetDataStep ==
    ASSUME MessageInv, NEW m \in Messages, NEW n \in Names, NEW d \in Data, M!SetData(m, n, d)
    PROVE  MessageInv'
<1> DEFINE x == M!Entry("data", d)
<1>1. /\ msg[m] # NULL /\ Replaces(m, n, x)
      /\ block' = M!FreedBlocks(m, n) /\ usedRefs' = M!ReleasedBy(usedRefs, m, n)
      /\ Answers(m, n, d)
      /\ UNCHANGED <<held, leaked>>
  BY DEF M!SetData, M!Exists, M!Own!Put, M!Own!Become, Answers, Replaces
<1>2. x \in MessageEntries /\ x # NULL /\ x.u = d /\ \A o \in Objects : x # M!Entry("object", o)
  BY NullIsNoEntry, EntryMakes
<1>3. ~M!IsString(x)
  BY DEF M!IsString, M!Entry
<1>4. /\ usedRefs \in [Objects -> Nat]
      /\ \A o \in Objects : usedRefs[o] = usedRefs[o] + (IF x = M!Entry("object", o) THEN 1 ELSE 0)
  BY <1>2 DEF MessageInv, MessageTypeOK
<1>5. Answers(m, n, IF x = NULL THEN NULL ELSE x.u)
  BY <1>1, <1>2
<1> HIDE DEF x
<1> QED
  BY <1>1, <1>2, <1>3, <1>4, <1>5, PlainStep

LEMMA SetObjectStep ==
    ASSUME MessageInv, NEW m \in Messages, NEW n \in Names, NEW p \in Objects,
           M!SetObject(m, n, p)
    PROVE  MessageInv'
<1> DEFINE x == M!Entry("object", p)
           refs == M!Retain(usedRefs, p)
<1>1. /\ msg[m] # NULL /\ Replaces(m, n, x)
      /\ p \in held \/ \E k \in Messages : M!Exists(k) /\ M!Uses(k, p) > 0
      /\ block' = M!FreedBlocks(m, n) /\ usedRefs' = M!ReleasedBy(refs, m, n)
      /\ Answers(m, n, p)
      /\ UNCHANGED <<held, leaked>>
  BY DEF M!SetObject, M!Exists, M!Own!Put, M!Own!Become, Answers, Replaces
<1>2. /\ x \in MessageEntries /\ x # NULL /\ x.u = p
      /\ \A o \in Objects : x = M!Entry("object", o) <=> o = p
  <2>1. \A o \in Objects : M!Entry("object", o).u = o
    BY EntryMakes
  <2> QED
    BY <2>1, NullIsNoEntry, EntryMakes
<1>3. ~M!IsString(x)
  BY DEF M!IsString, M!Entry
<1>4. usedRefs \in [Objects -> Nat] /\ usedRefs[p] # 0
  <2>1. /\ usedRefs[p] = (IF p \in held THEN 1 ELSE 0) + leaked[p] + Cardinality(Using(p))
        /\ leaked[p] \in Nat /\ Cardinality(Using(p)) \in Nat /\ usedRefs \in [Objects -> Nat]
    BY UsingIsFinite DEF MessageInv, CountsInv, MessageTypeOK
  <2>2. CASE p \in held
    BY <2>1, <2>2
  <2>3. CASE \E k \in Messages : M!Exists(k) /\ M!Uses(k, p) > 0
    <3>1. PICK k \in Messages : msg[k] # NULL /\ M!Uses(k, p) > 0
      BY <2>3 DEF M!Exists
    <3>2. \E j \in Names : M!IsObject(msg[k][j]) /\ msg[k][j].u = p
      <4> DEFINE users == {j \in Names : M!IsObject(msg[k][j]) /\ msg[k][j].u = p}
      <4>0. M!Uses(k, p) = Cardinality(users)
        BY MessageCardinality DEF M!Uses
      <4>1. CASE users = {}
        <5>1. M!Uses(k, p) = Cardinality({})
          BY <4>0, <4>1
        <5>2. Cardinality({}) = 0
          BY FS_EmptySet
        <5> QED
          BY <3>1, <5>1, <5>2
      <4> QED
        BY <4>1
    <3>3. PICK j \in Names : M!IsObject(msg[k][j]) /\ msg[k][j].u = p
      BY <3>2
    <3>4. EntryAt(k, j) \in MessageEntries \cup {NULL} /\ EntryAt(k, j) = msg[k][j]
      BY <3>1, EntriesAre DEF MessageInv
    <3>5. EntryAt(k, j) = M!Entry("object", p)
      BY <3>3, <3>4, EntryTypes
    <3>6. usedRefs[p] \in Nat \ {0}
      BY <3>5, UsedIsAlive
    <3> QED
      BY <2>1, <3>6
  <2> QED
    BY <1>1, <2>2, <2>3
<1>5. /\ refs \in [Objects -> Nat]
      /\ \A o \in Objects : refs[o] = usedRefs[o] + (IF x = M!Entry("object", o) THEN 1 ELSE 0)
  <2>1. refs = [usedRefs EXCEPT ![p] = usedRefs[p] + 1]
    BY <1>4 DEF M!Retain
  <2> HIDE DEF x, refs
  <2> QED
    BY <1>2, <1>4, <2>1
<1>6. Answers(m, n, IF x = NULL THEN NULL ELSE x.u)
  BY <1>1, <1>2
<1> HIDE DEF x, refs
<1> QED
  BY <1>1, <1>2, <1>3, <1>5, <1>6, PlainStep

LEMMA SetStringStep ==
    ASSUME MessageInv, NEW m \in Messages, NEW n \in Names, NEW s \in Texts,
           M!SetString(m, n, s)
    PROVE  MessageInv'
<1> DEFINE c == CHOOSE b \in Blocks : block[b] = NULL
           x == M!Entry("string", c)
<1>1. /\ msg[m] # NULL /\ NULL \in {block[b] : b \in Blocks}
      /\ Replaces(m, n, x)
      /\ block' = [M!FreedBlocks(m, n) EXCEPT ![c] = s]
      /\ usedRefs' = M!ReleasedBy(usedRefs, m, n)
      /\ Answers(m, n, s)
      /\ UNCHANGED <<held, leaked>>
  BY DEF M!SetString, M!Exists, M!Own!Put, M!Own!Become, Answers, Replaces
<1>2. c \in Blocks /\ block[c] = NULL
  BY <1>1
<1> HIDE DEF c
<1>3. /\ x \in MessageEntries /\ \A o \in Objects : x # M!Entry("object", o)
      /\ \A b \in Blocks : x = M!Entry("string", b) <=> b = c
  <2>1. \A b \in Blocks : M!Entry("string", b).u = b
    BY EntryMakes
  <2> QED
    BY <1>2, <2>1, EntryMakes
<1>4. M!IsString(x)
  BY <1>2, <1>3, EntryTypes
<1> HIDE DEF x
<1>5. MessageTypeOK /\ Changes(m, n, x)
  <2>1. MessageTypeOK
    BY DEF MessageInv
  <2> QED
    BY <1>1, <1>3, <2>1, ChangeEntry
<1>6. s # NULL
  BY NullIsNoEntry
<1>7. /\ block' \in [Blocks -> Texts \cup {NULL}]
      /\ \A b \in Blocks : block'[b] = IF b = c THEN s ELSE
            IF EntryAt(m, n) = M!Entry("string", b) THEN NULL ELSE block[b]
  <2>1. /\ M!FreedBlocks(m, n) \in [Blocks -> Texts \cup {NULL}]
        /\ \A b \in Blocks : M!FreedBlocks(m, n)[b] =
            IF EntryAt(m, n) = M!Entry("string", b) THEN NULL ELSE block[b]
    BY <1>1, <1>5, FreedFacts
  <2> QED
    BY <1>1, <1>2, <2>1
<1>8. BlocksInv'
  <2>1. \A b \in Blocks : block'[b] # NULL <=>
            \/ x = M!Entry("string", b)
            \/ block[b] # NULL /\ EntryAt(m, n) # M!Entry("string", b)
    BY <1>2, <1>3, <1>6, <1>7
  <2>2. \A b \in Blocks : x = M!Entry("string", b) => block[b] = NULL
    BY <1>2, <1>3
  <2> QED
    BY <1>3, <1>5, <2>1, <2>2, BlocksChange
<1>9. AnswerInv'
  <2>1. \A b \in Blocks : x = M!Entry("string", b) => block[b] = NULL /\ s = block'[b]
    BY <1>2, <1>3, <1>7
  <2>2. \A b \in Blocks : EntryAt(m, n) # M!Entry("string", b) /\ x # M!Entry("string", b)
            => block'[b] = block[b]
    BY <1>3, <1>7
  <2>3. ~M!IsString(x) => s = IF x = NULL THEN NULL ELSE x.u
    BY <1>4
  <2> QED
    BY <1>1, <1>3, <1>5, <2>1, <2>2, <2>3, AnswerChange
<1>10. /\ usedRefs' \in [Objects -> Nat]
       /\ \A o \in Objects : usedRefs'[o] =
            IF EntryAt(m, n) = M!Entry("object", o) /\ usedRefs[o] # 0
            THEN usedRefs[o] - 1 ELSE usedRefs[o]
  BY <1>1, <1>5, ReleasedFacts DEF MessageTypeOK
<1>11. CountsInv'
  <2>1. ASSUME NEW o \in Objects
        PROVE  usedRefs'[o] =
                (usedRefs[o] - (IF EntryAt(m, n) = M!Entry("object", o) THEN 1 ELSE 0))
                + (IF x = M!Entry("object", o) THEN 1 ELSE 0)
    <3>1. /\ usedRefs[o] \in Nat /\ (EntryAt(m, n) = M!Entry("object", o) => usedRefs[o] # 0)
          /\ x # M!Entry("object", o)
      BY <1>3, <1>5, UsedIsAlive DEF MessageTypeOK
    <3>2. usedRefs'[o] = IF EntryAt(m, n) = M!Entry("object", o) /\ usedRefs[o] # 0
                         THEN usedRefs[o] - 1 ELSE usedRefs[o]
      BY <1>10
    <3> QED
      BY <3>1, <3>2
  <2> QED
    BY <1>1, <1>5, <2>1, CountsChange
<1>12. MessageTypeOK'
  BY <1>1, <1>5, <1>7, <1>10 DEF MessageTypeOK, Changes
<1> QED
  BY <1>8, <1>9, <1>11, <1>12 DEF MessageInv

-----------------------------------------------------------------------------
(* Whole messages: the entries of m that use o. *)
UsesOf(m, o) == {n \in Names : EntryAt(m, n) = M!Entry("object", o)}

LEMMA RowCount ==
    ASSUME NEW m, NEW P \in SUBSET Names
    PROVE  /\ IsFiniteSet({m} \X P) /\ Cardinality({m} \X P) = Cardinality(P)
           /\ Cardinality(P) \in Nat
<1>1. IsFiniteSet(P) /\ Cardinality(P) \in Nat
  BY MessageAssumption, FS_Subset, FS_CardinalityType
<1>2. IsFiniteSet({m}) /\ Cardinality({m}) = 1
  BY FS_Singleton
<1>3. IsFiniteSet({m} \X P) /\ Cardinality({m} \X P) = Cardinality({m}) * Cardinality(P)
  BY <1>1, <1>2, FS_Product
<1> QED
  BY <1>1, <1>2, <1>3

LEMMA UsesFacts ==
    ASSUME MessageTypeOK, NEW m \in Messages, NEW o \in Objects, msg[m] # NULL
    PROVE  M!Uses(m, o) = Cardinality(UsesOf(m, o)) /\ M!Uses(m, o) \in Nat
<1> DEFINE users == {n \in Names : M!IsObject(msg[m][n]) /\ msg[m][n].u = o}
<1>1. M!Uses(m, o) = Cardinality(users)
  BY MessageCardinality DEF M!Uses
<1>2. ASSUME NEW n \in Names
      PROVE  M!IsObject(msg[m][n]) /\ msg[m][n].u = o <=> EntryAt(m, n) = M!Entry("object", o)
  <2> DEFINE e == EntryAt(m, n)
  <2>1. e \in MessageEntries \cup {NULL} /\ e = msg[m][n]
    BY EntriesAre
  <2> HIDE DEF e
  <2>2. M!IsObject(e) /\ e.u = o <=> e = M!Entry("object", o)
    <3>1. M!Entry("object", o).u = o
      BY EntryMakes
    <3>2. M!IsObject(e) => e = M!Entry("object", e.u)
      BY <2>1, EntryTypes
    <3>3. e = M!Entry("object", o) => M!IsObject(e)
      BY <2>1, EntryTypes
    <3> QED
      BY <3>1, <3>2, <3>3
  <2> QED
    BY <2>1, <2>2 DEF e
<1>3. users = UsesOf(m, o)
  BY <1>2 DEF UsesOf
<1>4. UsesOf(m, o) \in SUBSET Names
  BY DEF UsesOf
<1> QED
  BY <1>1, <1>3, <1>4, RowCount

LEMMA DisjointUnion ==
    ASSUME NEW P, NEW T, IsFiniteSet(P), IsFiniteSet(T), P \cap T = {}
    PROVE  Cardinality(P \cup T) = Cardinality(P) + Cardinality(T)
<1>1. Cardinality(P) \in Nat /\ Cardinality(T) \in Nat
  BY FS_CardinalityType
<1>2. Cardinality(P \cup T) = Cardinality(P) + Cardinality(T) - Cardinality(P \cap T)
  BY FS_Union
<1>3. Cardinality(P \cap T) = 0
  BY FS_EmptySet
<1> QED
  BY <1>1, <1>2, <1>3

(* clear and ~Message: r is what is left of m. *)
LEMMA ClearedStep ==
    ASSUME MessageInv, NEW m \in Messages, msg[m] # NULL, M!Cleared(m),
           NEW r \in {M!NoEntries, NULL},
           msg' = [msg EXCEPT ![m] = r], value' = [value EXCEPT ![m] = r]
    PROVE  MessageInv'
<1>1. /\ block' = [b \in Blocks |-> IF b \in M!BlocksOf(m) THEN NULL ELSE block[b]]
      /\ usedRefs' = [o \in Objects |-> usedRefs[o] + M!Uses(m, o)]
      /\ leaked' = [o \in Objects |-> leaked[o] + 2 * M!Uses(m, o)]
      /\ held' = held
  BY DEF M!Cleared
<1>2. MessageTypeOK /\ BlocksInv /\ CountsInv /\ AnswerInv
  BY DEF MessageInv
<1>3. r \in Rows \cup {NULL} /\ (r # NULL => \A n \in Names : r[n] = NULL)
  BY DEF Rows, M!NoEntries
<1>4. /\ msg \in [Messages -> Rows \cup {NULL}] /\ msg' \in [Messages -> Rows \cup {NULL}]
      /\ \A k \in Messages : msg'[k] = IF k = m THEN r ELSE msg[k]
  BY <1>2, <1>3 DEF MessageTypeOK
<1>5. \A k \in Messages, j \in Names :
        EntryAt(k, j)' = IF k = m THEN NULL ELSE EntryAt(k, j)
  BY <1>3, <1>4 DEF EntryAt
<1>6. \A b \in Blocks : b \in M!BlocksOf(m) <=> \E n \in Names : EntryAt(m, n) = M!Entry("string", b)
  <2> TAKE b \in Blocks
  <2>1. \A n \in Names : EntryAt(m, n) \in MessageEntries \cup {NULL} /\ EntryAt(m, n) = msg[m][n]
    BY <1>2, EntriesAre
  <2>2. \A n \in Names : M!IsString(EntryAt(m, n)) /\ EntryAt(m, n).u = b
                            <=> EntryAt(m, n) = M!Entry("string", b)
    <3> TAKE n \in Names
    <3> DEFINE e == EntryAt(m, n)
    <3>1. e \in MessageEntries \cup {NULL}
      BY <2>1
    <3> HIDE DEF e
    <3>2. M!Entry("string", b).u = b
      BY EntryMakes
    <3>3. M!IsString(e) => e = M!Entry("string", e.u)
      BY <3>1, EntryTypes
    <3>4. e = M!Entry("string", b) => M!IsString(e)
      BY <3>1, EntryTypes
    <3>5. M!IsString(e) /\ e.u = b <=> e = M!Entry("string", b)
      BY <3>2, <3>3, <3>4
    <3> QED
      BY <3>5 DEF e
  <2>3. b \in M!BlocksOf(m) <=> \E n \in Names : M!IsString(msg[m][n]) /\ msg[m][n].u = b
    BY DEF M!BlocksOf
  <2> QED
    BY <2>1, <2>2, <2>3
<1>7. BlocksInv'
  <2>1. \A b \in Blocks : block'[b] = IF b \in M!BlocksOf(m) THEN NULL ELSE block[b]
    BY <1>1
  <2>2. /\ \A k \in Messages, j \in Names, b \in Blocks :
              EntryAt(k, j) = M!Entry("string", b) => block[b] # NULL
        /\ \A b \in Blocks : block[b] # NULL =>
              \E k \in Messages, j \in Names : EntryAt(k, j) = M!Entry("string", b)
        /\ \A k, l \in Messages, i, j \in Names, b \in Blocks :
              EntryAt(k, i) = M!Entry("string", b) /\ EntryAt(l, j) = M!Entry("string", b)
                  => k = l /\ i = j
    BY <1>2 DEF BlocksInv
  <2>3. \A b \in Blocks : NULL # M!Entry("string", b)
    BY EntryMakes, NullIsNoEntry
  <2>4. ASSUME NEW k \in Messages, NEW j \in Names, NEW b \in Blocks,
               EntryAt(k, j)' = M!Entry("string", b)
        PROVE  block'[b] # NULL
    <3>1. k # m /\ EntryAt(k, j) = M!Entry("string", b)
      BY <1>5, <2>3, <2>4
    <3>2. b \notin M!BlocksOf(m)
      BY <1>6, <2>2, <3>1
    <3> QED
      BY <2>1, <2>2, <3>1, <3>2
  <2>5. ASSUME NEW b \in Blocks, block'[b] # NULL
        PROVE  \E k \in Messages, j \in Names : EntryAt(k, j)' = M!Entry("string", b)
    <3>1. b \notin M!BlocksOf(m) /\ block[b] # NULL
      BY <2>1, <2>5
    <3>2. PICK k \in Messages, j \in Names : EntryAt(k, j) = M!Entry("string", b)
      BY <2>2, <3>1
    <3>3. k # m
      BY <1>6, <3>1, <3>2
    <3> QED
      BY <1>5, <3>2, <3>3
  <2>6. \A k, l \in Messages, i, j \in Names, b \in Blocks :
          EntryAt(k, i)' = M!Entry("string", b) /\ EntryAt(l, j)' = M!Entry("string", b)
              => k = l /\ i = j
    BY <1>5, <2>2, <2>3
  <2>7. \A b \in Blocks : M!Entry("string", b)' = M!Entry("string", b)
    BY DEF M!Entry
  <2> QED
    BY <2>4, <2>5, <2>6, <2>7 DEF BlocksInv
<1>8. ASSUME NEW o \in Objects
      PROVE  Cardinality(Using(o)) = Cardinality(Using(o))' + M!Uses(m, o)
  <2> DEFINE U == Using(o)
             V == Using(o)'
             T == {m} \X UsesOf(m, o)
  <2>1. UsesOf(m, o) \in SUBSET Names
    BY DEF UsesOf
  <2>2. IsFiniteSet(T) /\ Cardinality(T) = M!Uses(m, o)
    BY <1>2, <2>1, RowCount, UsesFacts
  <2>3. M!Entry("object", o) # NULL /\ M!Entry("object", o)' = M!Entry("object", o)
    BY EntryMakes, NullIsNoEntry DEF M!Entry
  <2>4. U = V \cup T /\ V \cap T = {}
    <3>1. /\ U \subseteq Messages \X Names /\ V \subseteq Messages \X Names
          /\ T \subseteq Messages \X Names
      BY <2>1 DEF Using
    <3>2. ASSUME NEW k \in Messages, NEW j \in Names
          PROVE  /\ <<k, j>> \in U <=> <<k, j>> \in V \/ <<k, j>> \in T
                 /\ ~(<<k, j>> \in V /\ <<k, j>> \in T)
      <4>1. <<k, j>> \in U <=> EntryAt(k, j) = M!Entry("object", o)
        BY DEF Using
      <4>2. <<k, j>> \in V <=> EntryAt(k, j)' = M!Entry("object", o)
        BY <2>3 DEF Using
      <4>3. <<k, j>> \in T <=> k = m /\ EntryAt(m, j) = M!Entry("object", o)
        BY DEF UsesOf
      <4> HIDE DEF U, V, T
      <4> QED
        BY <1>5, <2>3, <4>1, <4>2, <4>3
    <3> HIDE DEF U, V, T
    <3> QED
      BY <3>1, <3>2
  <2>5. IsFiniteSet(V)
    BY <2>4, UsingIsFinite, FS_Subset
  <2> HIDE DEF U, V, T
  <2>6. Cardinality(V \cup T) = Cardinality(V) + Cardinality(T)
    BY <2>2, <2>4, <2>5, DisjointUnion
  <2> QED
    BY <2>2, <2>4, <2>6 DEF U, V
<1>9. CountsInv'
  <2> SUFFICES ASSUME NEW o \in Objects
               PROVE  usedRefs'[o] = (IF o \in held' THEN 1 ELSE 0) + leaked'[o]
                                      + Cardinality(Using(o))'
    BY DEF CountsInv
  <2>1. /\ usedRefs[o] = (IF o \in held THEN 1 ELSE 0) + leaked[o] + Cardinality(Using(o))
        /\ leaked[o] \in Nat /\ Cardinality(Using(o)) \in Nat /\ M!Uses(m, o) \in Nat
    BY <1>2, UsingIsFinite, UsesFacts DEF CountsInv, MessageTypeOK
  <2>2. usedRefs'[o] = usedRefs[o] + M!Uses(m, o) /\ leaked'[o] = leaked[o] + 2 * M!Uses(m, o)
    BY <1>1
  <2>3. Cardinality(Using(o))' \in Nat
    <3>1. Using(o)' \subseteq Messages \X Names
      BY DEF Using
    <3>2. IsFiniteSet(Messages \X Names)
      BY MessageAssumption, FS_Product
    <3>3. IsFiniteSet(Using(o)')
      BY <3>1, <3>2, FS_Subset
    <3> QED
      BY <3>3, FS_CardinalityType
  <2> QED
    BY <1>1, <1>8, <2>1, <2>2, <2>3
<1>10. AnswerInv'
  <2> DEFINE Row(k) == IF msg[k] = NULL THEN NULL ELSE [j \in Names |-> M!Answer(k, j)]
             RowP(k) == IF msg'[k] = NULL THEN NULL ELSE [j \in Names |-> M!Answer(k, j)']
  <2>1. value = [k \in Messages |-> Row(k)]
    BY <1>2 DEF AnswerInv
  <2>2. value' = [k \in Messages |-> IF k = m THEN r ELSE Row(k)]
    BY <2>1
  <2>3. RowP(m) = r
    <3>1. CASE r = NULL
      BY <1>4, <3>1
    <3>2. CASE r = M!NoEntries /\ r # NULL
      <4>1. msg'[m] = r
        BY <1>4
      <4>2. \A n \in Names : M!Answer(m, n)' = NULL
        BY <1>3, <3>2, <4>1 DEF M!Answer
      <4> QED
        BY <3>2, <4>1, <4>2 DEF M!NoEntries
    <3> QED
      BY <3>1, <3>2
  <2>4. ASSUME NEW k \in Messages, k # m
        PROVE  RowP(k) = Row(k)
    <3>1. msg'[k] = msg[k]
      BY <1>4, <2>4
    <3>2. ASSUME NEW j \in Names, msg[k] # NULL PROVE M!Answer(k, j)' = M!Answer(k, j)
      <4> DEFINE e == EntryAt(k, j)
      <4>1. e \in MessageEntries \cup {NULL} /\ e = msg[k][j]
        BY <1>2, <3>2, EntriesAre
      <4> HIDE DEF e
      <4>2. M!Answer(k, j)' = IF e = NULL THEN NULL ELSE IF M!IsString(e) THEN block'[e.u] ELSE e.u
        BY <3>1, <4>1 DEF M!Answer, M!IsString
      <4>3. M!Answer(k, j) = IF e = NULL THEN NULL ELSE IF M!IsString(e) THEN block[e.u] ELSE e.u
        BY <4>1 DEF M!Answer, M!IsString
      <4>4. ASSUME M!IsString(e) PROVE block'[e.u] = block[e.u]
        <5>1. e.u \in Blocks /\ e = M!Entry("string", e.u)
          BY <4>1, <4>4, EntryTypes
        <5>2. e.u \notin M!BlocksOf(m)
          BY <1>2, <1>6, <2>4, <5>1 DEF BlocksInv, e
        <5> QED
          BY <1>1, <5>1, <5>2
      <4> QED
        BY <4>2, <4>3, <4>4
    <3> QED
      BY <3>1, <3>2
  <2>5. value' = [k \in Messages |-> RowP(k)]
    BY <2>2, <2>3, <2>4
  <2> QED
    BY <2>5 DEF AnswerInv
<1>11. MessageTypeOK'
  <2>1. usedRefs \in [Objects -> Nat] /\ leaked \in [Objects -> Nat] /\ block \in [Blocks -> Texts \cup {NULL}]
    BY <1>2 DEF MessageTypeOK
  <2>2. \A o \in Objects : M!Uses(m, o) \in Nat
    BY <1>2, UsesFacts
  <2>3. usedRefs' \in [Objects -> Nat] /\ leaked' \in [Objects -> Nat]
    BY <1>1, <2>1, <2>2
  <2>4. block' \in [Blocks -> Texts \cup {NULL}]
    BY <1>1, <2>1
  <2> QED
    BY <1>1, <1>2, <1>4, <2>3, <2>4 DEF MessageTypeOK
<1> QED
  BY <1>7, <1>9, <1>10, <1>11 DEF MessageInv

(* dup: a row of its own, with a block of its own for every string. *)
LEMMA DupStep ==
    ASSUME MessageInv, NEW m \in Messages, NEW d \in Messages, M!Dup(m, d)
    PROVE  MessageInv'
<1> DEFINE strings == {n \in Names : M!IsString(msg[m][n])}
<1>0. msg[m] # NULL /\ msg[d] = NULL
  BY DEF M!Dup, M!Exists
<1>1. PICK copy \in [strings -> {b \in Blocks : block[b] = NULL}] :
        /\ \A n, k \in strings : copy[n] = copy[k] => n = k
        /\ msg' = [msg EXCEPT ![d] = [n \in Names |->
              IF n \in strings THEN M!Entry("string", copy[n]) ELSE msg[m][n]]]
        /\ block' = [b \in Blocks |->
              IF \E n \in strings : copy[n] = b
              THEN block[msg[m][CHOOSE n \in strings : copy[n] = b].u]
              ELSE block[b]]
  BY DEF M!Dup
<1>2. /\ usedRefs' = [o \in Objects |-> usedRefs[o] + M!Uses(m, o)]
      /\ value' = [value EXCEPT ![d] = value[m]]
      /\ UNCHANGED <<held, leaked>>
  BY DEF M!Dup, M!Own!Copy, M!Own!Become
<1>3. MessageTypeOK /\ BlocksInv /\ CountsInv /\ AnswerInv
  BY DEF MessageInv
<1>4. \A n \in Names : EntryAt(m, n) \in MessageEntries \cup {NULL} /\ EntryAt(m, n) = msg[m][n]
  BY <1>0, <1>3, EntriesAre
<1>5. \A n \in Names : n \in strings <=> M!IsString(EntryAt(m, n))
  BY <1>4
<1>6. \A n \in strings : copy[n] \in Blocks /\ block[copy[n]] = NULL
  BY <1>1
<1>6a. strings \subseteq Names
  OBVIOUS
<1> HIDE DEF strings
<1> DEFINE row == [n \in Names |->
              IF n \in strings THEN M!Entry("string", copy[n]) ELSE EntryAt(m, n)]
<1>7. row \in Rows /\ row # NULL
  <2>1. ASSUME NEW n \in Names
        PROVE  (IF n \in strings THEN M!Entry("string", copy[n]) ELSE EntryAt(m, n))
                  \in MessageEntries \cup {NULL}
    BY <1>4, <1>6, EntryMakes
  <2> QED
    BY <2>1, NullIsNoEntry DEF Rows
<1>8. msg' = [msg EXCEPT ![d] = row]
  BY <1>1, <1>4
<1>9. \A n \in Names : row[n] = IF n \in strings THEN M!Entry("string", copy[n]) ELSE EntryAt(m, n)
  OBVIOUS
<1> HIDE DEF row
<1>10. /\ msg' \in [Messages -> Rows \cup {NULL}]
       /\ \A k \in Messages : msg'[k] = IF k = d THEN row ELSE msg[k]
  BY <1>3, <1>7, <1>8 DEF MessageTypeOK
<1>11. \A k \in Messages, j \in Names : EntryAt(k, j)' =
          IF k = d THEN IF j \in strings THEN M!Entry("string", copy[j]) ELSE EntryAt(m, j)
          ELSE EntryAt(k, j)
  BY <1>7, <1>9, <1>10 DEF EntryAt
<1>12. \A j \in Names : EntryAt(d, j) = NULL
  BY <1>0 DEF EntryAt
<1>13. \A n \in strings : /\ EntryAt(m, n).u \in Blocks
                          /\ EntryAt(m, n) = M!Entry("string", EntryAt(m, n).u)
                          /\ block[EntryAt(m, n).u] # NULL
                          /\ block[EntryAt(m, n).u] \in Texts
  <2> TAKE n \in strings
  <2>1. /\ EntryAt(m, n).u \in Blocks /\ EntryAt(m, n) = M!Entry("string", EntryAt(m, n).u)
    BY <1>4, <1>5, <1>6a, EntryTypes
  <2>2. block[EntryAt(m, n).u] # NULL
    BY <1>3, <1>6a, <2>1 DEF BlocksInv
  <2> QED
    BY <1>3, <2>1, <2>2 DEF MessageTypeOK
<1>14. \A n \in strings : block'[copy[n]] = block[EntryAt(m, n).u]
  <2> TAKE n \in strings
  <2> DEFINE c == CHOOSE k \in strings : copy[k] = copy[n]
  <2>1. c \in strings /\ copy[c] = copy[n]
    OBVIOUS
  <2>2. c = n
    BY <1>1, <2>1
  <2>3. block'[copy[n]] = block[msg[m][c].u]
    BY <1>1, <1>6
  <2> QED
    BY <1>4, <1>6a, <2>2, <2>3
<1>15. \A b \in Blocks : (\A n \in strings : copy[n] # b) => block'[b] = block[b]
  BY <1>1
<1>16. /\ \A k \in Messages, j \in Names, b \in Blocks :
             EntryAt(k, j) = M!Entry("string", b) => block[b] # NULL
       /\ \A b \in Blocks : block[b] # NULL =>
             \E k \in Messages, j \in Names : EntryAt(k, j) = M!Entry("string", b)
       /\ \A k, l \in Messages, i, j \in Names, b \in Blocks :
             EntryAt(k, i) = M!Entry("string", b) /\ EntryAt(l, j) = M!Entry("string", b)
                 => k = l /\ i = j
  BY <1>3 DEF BlocksInv
<1>17. \A b, c \in Blocks : M!Entry("string", b) = M!Entry("string", c) => b = c
  BY DEF M!Entry
<1>18. \A j \in Names, b \in Blocks : j \notin strings => EntryAt(m, j) # M!Entry("string", b)
  BY <1>4, <1>5, EntryTypes
<1>19. \A b \in Blocks : NULL # M!Entry("string", b) /\ M!Entry("string", b)' = M!Entry("string", b)
  BY EntryMakes, NullIsNoEntry DEF M!Entry
\* What the new entries and the old ones say of a block.
<1>20. \A k \in Messages, j \in Names, b \in Blocks : EntryAt(k, j)' = M!Entry("string", b) <=>
            \/ k = d /\ j \in strings /\ copy[j] = b
            \/ k # d /\ EntryAt(k, j) = M!Entry("string", b)
  BY <1>6, <1>11, <1>17, <1>18
<1>21. BlocksInv'
  <2>1. ASSUME NEW k \in Messages, NEW j \in Names, NEW b \in Blocks,
               EntryAt(k, j)' = M!Entry("string", b)
        PROVE  block'[b] # NULL
    <3>1. CASE k = d /\ j \in strings /\ copy[j] = b
      BY <1>13, <1>14, <3>1
    <3>2. CASE k # d /\ EntryAt(k, j) = M!Entry("string", b)
      <4>1. block[b] # NULL
        BY <1>16, <3>2
      <4>2. \A n \in strings : copy[n] # b
        BY <1>6, <4>1
      <4> QED
        BY <1>15, <4>1, <4>2
    <3> QED
      BY <1>20, <2>1, <3>1, <3>2
  <2>2. ASSUME NEW b \in Blocks, block'[b] # NULL
        PROVE  \E k \in Messages, j \in Names : EntryAt(k, j)' = M!Entry("string", b)
    <3>1. CASE \E n \in strings : copy[n] = b
      BY <1>6a, <1>20, <3>1
    <3>2. CASE \A n \in strings : copy[n] # b
      <4>1. block[b] # NULL
        BY <1>15, <2>2, <3>2
      <4>2. PICK k \in Messages, j \in Names : EntryAt(k, j) = M!Entry("string", b)
        BY <1>16, <4>1
      <4>3. k # d
        BY <1>12, <1>19, <4>2
      <4> QED
        BY <1>20, <4>2, <4>3
    <3> QED
      BY <3>1, <3>2
  <2>3. ASSUME NEW k \in Messages, NEW l \in Messages, NEW i \in Names, NEW j \in Names,
               NEW b \in Blocks,
               EntryAt(k, i)' = M!Entry("string", b), EntryAt(l, j)' = M!Entry("string", b)
        PROVE  k = l /\ i = j
    <3>1. /\ (k = d /\ i \in strings /\ copy[i] = b) \/ (k # d /\ EntryAt(k, i) = M!Entry("string", b))
          /\ (l = d /\ j \in strings /\ copy[j] = b) \/ (l # d /\ EntryAt(l, j) = M!Entry("string", b))
      BY <1>20, <2>3
    <3>2. \A n \in strings, e \in Messages, f \in Names :
            ~(copy[n] = b /\ EntryAt(e, f) = M!Entry("string", b))
      BY <1>6, <1>16
    <3> QED
      BY <1>1, <1>16, <3>1, <3>2
  <2> QED
    BY <1>19, <2>1, <2>2, <2>3 DEF BlocksInv
<1>22. ASSUME NEW o \in Objects
       PROVE  Cardinality(Using(o))' = Cardinality(Using(o)) + M!Uses(m, o)
  <2> DEFINE U == Using(o)
             V == Using(o)'
             T == {d} \X UsesOf(m, o)
  <2>1. UsesOf(m, o) \in SUBSET Names
    BY DEF UsesOf
  <2>2. IsFiniteSet(T) /\ Cardinality(T) = M!Uses(m, o)
    BY <1>0, <1>3, <2>1, RowCount, UsesFacts
  <2>3. M!Entry("object", o) # NULL /\ M!Entry("object", o)' = M!Entry("object", o)
    BY EntryMakes, NullIsNoEntry DEF M!Entry
  <2>4. \A j \in strings : /\ EntryAt(m, j) # M!Entry("object", o)
                           /\ M!Entry("string", copy[j]) # M!Entry("object", o)
    BY <1>6, <1>13, EntryMakes
  <2>5. V = U \cup T /\ U \cap T = {}
    <3>1. /\ U \subseteq Messages \X Names /\ V \subseteq Messages \X Names
          /\ T \subseteq Messages \X Names
      BY <2>1 DEF Using
    <3>2. ASSUME NEW k \in Messages, NEW j \in Names
          PROVE  /\ <<k, j>> \in V <=> <<k, j>> \in U \/ <<k, j>> \in T
                 /\ ~(<<k, j>> \in U /\ <<k, j>> \in T)
      <4>1. <<k, j>> \in U <=> EntryAt(k, j) = M!Entry("object", o)
        BY DEF Using
      <4>2. <<k, j>> \in V <=> EntryAt(k, j)' = M!Entry("object", o)
        BY <2>3 DEF Using
      <4>3. <<k, j>> \in T <=> k = d /\ EntryAt(m, j) = M!Entry("object", o)
        BY DEF UsesOf
      <4>4. k = d => EntryAt(k, j) = NULL
        BY <1>12
      <4> HIDE DEF U, V, T
      <4> QED
        BY <1>11, <2>3, <2>4, <4>1, <4>2, <4>3, <4>4
    <3> HIDE DEF U, V, T
    <3> QED
      BY <3>1, <3>2
  <2>6. IsFiniteSet(U)
    BY UsingIsFinite
  <2> HIDE DEF U, V, T
  <2>7. Cardinality(U \cup T) = Cardinality(U) + Cardinality(T)
    BY <2>2, <2>5, <2>6, DisjointUnion
  <2> QED
    BY <2>2, <2>5, <2>7 DEF U, V
<1>23. CountsInv'
  <2> SUFFICES ASSUME NEW o \in Objects
               PROVE  usedRefs'[o] = (IF o \in held' THEN 1 ELSE 0) + leaked'[o]
                                      + Cardinality(Using(o))'
    BY DEF CountsInv
  <2>1. /\ usedRefs[o] = (IF o \in held THEN 1 ELSE 0) + leaked[o] + Cardinality(Using(o))
        /\ leaked[o] \in Nat /\ Cardinality(Using(o)) \in Nat /\ M!Uses(m, o) \in Nat
    BY <1>0, <1>3, UsingIsFinite, UsesFacts DEF CountsInv, MessageTypeOK
  <2>2. usedRefs'[o] = usedRefs[o] + M!Uses(m, o)
    BY <1>2
  <2> QED
    BY <1>2, <1>22, <2>1, <2>2
<1>24. AnswerInv'
  <2> DEFINE Row(k) == IF msg[k] = NULL THEN NULL ELSE [j \in Names |-> M!Answer(k, j)]
             RowP(k) == IF msg'[k] = NULL THEN NULL ELSE [j \in Names |-> M!Answer(k, j)']
  <2>1. value = [k \in Messages |-> Row(k)]
    BY <1>3 DEF AnswerInv
  <2>2. value' = [k \in Messages |-> IF k = d THEN Row(m) ELSE Row(k)]
    BY <1>2, <2>1
  <2>3. ASSUME NEW j \in Names
        PROVE  M!Answer(d, j)' = M!Answer(m, j)
    <3> DEFINE e == EntryAt(m, j)
    <3>1. e = msg[m][j] /\ msg'[d][j] = row[j]
      BY <1>4, <1>10
    <3>2. M!Answer(m, j) = IF e = NULL THEN NULL ELSE IF M!IsString(e) THEN block[e.u] ELSE e.u
      BY <3>1 DEF M!Answer, M!IsString
    <3>3. CASE j \in strings
      <4>1. msg'[d][j] = M!Entry("string", copy[j])
        BY <1>9, <3>1, <3>3
      <4>2. /\ M!Entry("string", copy[j]) # NULL /\ M!Entry("string", copy[j]).u = copy[j]
            /\ M!Entry("string", copy[j]).mType = "string"
        BY <1>6, <3>3, EntryMakes, NullIsNoEntry DEF M!Entry
      <4>3. M!Answer(d, j)' = block'[copy[j]]
        BY <4>1, <4>2 DEF M!Answer, M!IsString
      <4>4. M!IsString(e) /\ e # NULL
        BY <1>5, <3>3 DEF M!IsString
      <4> QED
        BY <1>14, <3>2, <3>3, <4>3, <4>4
    <3>4. CASE j \notin strings
      <4>1. msg'[d][j] = e /\ ~M!IsString(e)
        BY <1>5, <1>9, <3>1, <3>4
      <4> HIDE DEF e
      <4>2. M!Answer(d, j)' = IF e = NULL THEN NULL ELSE IF M!IsString(e) THEN block'[e.u] ELSE e.u
        BY <4>1 DEF M!Answer, M!IsString
      <4> QED
        BY <3>2, <4>1, <4>2
    <3> QED
      BY <3>3, <3>4
  <2>4. RowP(d) = Row(m)
    BY <1>0, <1>7, <1>10, <2>3
  <2>5. ASSUME NEW k \in Messages, k # d
        PROVE  RowP(k) = Row(k)
    <3>1. msg'[k] = msg[k]
      BY <1>10, <2>5
    <3>2. ASSUME NEW j \in Names, msg[k] # NULL PROVE M!Answer(k, j)' = M!Answer(k, j)
      <4> DEFINE e == EntryAt(k, j)
      <4>1. e \in MessageEntries \cup {NULL} /\ e = msg[k][j]
        BY <1>3, <3>2, EntriesAre
      <4> HIDE DEF e
      <4>2. M!Answer(k, j)' = IF e = NULL THEN NULL ELSE IF M!IsString(e) THEN block'[e.u] ELSE e.u
        BY <3>1, <4>1 DEF M!Answer, M!IsString
      <4>3. M!Answer(k, j) = IF e = NULL THEN NULL ELSE IF M!IsString(e) THEN block[e.u] ELSE e.u
        BY <4>1 DEF M!Answer, M!IsString
      <4>4. ASSUME M!IsString(e) PROVE block'[e.u] = block[e.u]
        <5>1. e.u \in Blocks /\ e = M!Entry("string", e.u)
          BY <4>1, <4>4, EntryTypes
        <5>2. block[e.u] # NULL
          BY <1>16, <5>1 DEF e
        <5>3. \A n \in strings : copy[n] # e.u
          BY <1>6, <5>2
        <5> QED
          BY <1>15, <5>1, <5>3
      <4> QED
        BY <4>2, <4>3, <4>4
    <3> QED
      BY <3>1, <3>2
  <2>6. value' = [k \in Messages |-> RowP(k)]
    BY <2>2, <2>4, <2>5
  <2> QED
    BY <2>6 DEF AnswerInv
<1>25. MessageTypeOK'
  <2>1. usedRefs \in [Objects -> Nat] /\ block \in [Blocks -> Texts \cup {NULL}]
    BY <1>3 DEF MessageTypeOK
  <2>2. \A o \in Objects : M!Uses(m, o) \in Nat
    BY <1>0, <1>3, UsesFacts
  <2>3. usedRefs' \in [Objects -> Nat]
    BY <1>2, <2>1, <2>2
  <2>4. block' \in [Blocks -> Texts \cup {NULL}]
    <3>1. ASSUME NEW b \in Blocks PROVE block'[b] \in Texts \cup {NULL}
      <4>1. CASE \E n \in strings : copy[n] = b
        BY <1>13, <1>14, <4>1
      <4>2. CASE \A n \in strings : copy[n] # b
        BY <1>15, <2>1, <4>2
      <4> QED
        BY <4>1, <4>2
    <3>2. block' = [b \in Blocks |-> block'[b]]
      BY <1>1
    <3> QED
      BY <3>1, <3>2
  <2> QED
    BY <1>2, <1>3, <1>10, <2>3, <2>4 DEF MessageTypeOK
<1> QED
  BY <1>21, <1>23, <1>24, <1>25 DEF MessageInv

(* NewObject and DropObject: only the client's references change. *)
LEMMA HeldStep ==
    ASSUME MessageInv, UNCHANGED <<msg, block, value, leaked>>,
           held' \subseteq Objects, usedRefs' \in [Objects -> Nat],
           \A o \in Objects : usedRefs'[o] + (IF o \in held THEN 1 ELSE 0)
                                = usedRefs[o] + (IF o \in held' THEN 1 ELSE 0)
    PROVE  MessageInv'
<1>1. MessageTypeOK /\ BlocksInv /\ CountsInv /\ AnswerInv
  BY DEF MessageInv
<1>2. \A m, n : EntryAt(m, n)' = EntryAt(m, n)
  BY DEF EntryAt
<1>3. \A m, n : M!Answer(m, n)' = M!Answer(m, n)
  BY DEF M!Answer, M!IsString
<1>4. \A type, u : M!Entry(type, u)' = M!Entry(type, u)
  BY DEF M!Entry
<1>5. MessageTypeOK'
  BY <1>1 DEF MessageTypeOK
<1>6. BlocksInv'
  BY <1>1, <1>2, <1>4 DEF BlocksInv
<1>7. AnswerInv'
  BY <1>1, <1>3 DEF AnswerInv
<1>8. CountsInv'
  <2> SUFFICES ASSUME NEW o \in Objects
               PROVE  usedRefs'[o] = (IF o \in held' THEN 1 ELSE 0) + leaked'[o]
                                      + Cardinality(Using(o))'
    BY DEF CountsInv
  <2>1. Using(o)' = Using(o)
    BY <1>2, <1>4 DEF Using
  <2>2. /\ usedRefs[o] = (IF o \in held THEN 1 ELSE 0) + leaked[o] + Cardinality(Using(o))
        /\ usedRefs[o] \in Nat /\ usedRefs'[o] \in Nat /\ leaked[o] \in Nat
        /\ Cardinality(Using(o)) \in Nat
    BY <1>1, UsingIsFinite DEF CountsInv, MessageTypeOK
  <2>3. leaked' = leaked /\ Cardinality(Using(o))' = Cardinality(Using(o))
    BY <2>1
  <2>4. usedRefs'[o] + (IF o \in held THEN 1 ELSE 0) = usedRefs[o] + (IF o \in held' THEN 1 ELSE 0)
    OBVIOUS
  <2> QED
    BY <2>2, <2>3, <2>4
<1> QED
  BY <1>5, <1>6, <1>7, <1>8 DEF MessageInv

LEMMA NewObjectStep ==
    ASSUME MessageInv, NEW p \in Objects, M!NewObject(p)
    PROVE  MessageInv'
<1>1. MessageTypeOK
  BY DEF MessageInv
<1>2. /\ p \notin held /\ usedRefs[p] = 0 /\ held' = held \cup {p}
      /\ usedRefs' = [usedRefs EXCEPT ![p] = 1]
      /\ UNCHANGED <<msg, block, value, leaked>>
  BY DEF M!NewObject
<1>3. held' \subseteq Objects /\ usedRefs' \in [Objects -> Nat]
  BY <1>1, <1>2 DEF MessageTypeOK
<1>4. \A o \in Objects : usedRefs'[o] + (IF o \in held THEN 1 ELSE 0)
                            = usedRefs[o] + (IF o \in held' THEN 1 ELSE 0)
  BY <1>1, <1>2 DEF MessageTypeOK
<1> QED
  BY <1>2, <1>3, <1>4, HeldStep

LEMMA DropObjectStep ==
    ASSUME MessageInv, NEW p \in Objects, M!DropObject(p)
    PROVE  MessageInv'
<1>1. MessageTypeOK /\ CountsInv
  BY DEF MessageInv
<1>2. /\ p \in held /\ held' = held \ {p}
      /\ usedRefs' = [usedRefs EXCEPT ![p] = IF usedRefs[p] = 0 THEN 0 ELSE usedRefs[p] - 1]
      /\ UNCHANGED <<msg, block, value, leaked>>
  BY DEF M!DropObject, M!Release
<1>3. usedRefs[p] \in Nat \ {0}
  BY <1>1, <1>2, UsingIsFinite DEF MessageTypeOK, CountsInv
<1>4. held' \subseteq Objects /\ usedRefs' \in [Objects -> Nat]
  BY <1>1, <1>2, <1>3 DEF MessageTypeOK
<1>5. \A o \in Objects : usedRefs'[o] + (IF o \in held THEN 1 ELSE 0)
                            = usedRefs[o] + (IF o \in held' THEN 1 ELSE 0)
  BY <1>1, <1>2, <1>3 DEF MessageTypeOK
<1> QED
  BY <1>2, <1>4, <1>5, HeldStep

(* A message without entries: no entry, no block and no count changes. *)
LEMMA ConstructStep ==
    ASSUME MessageInv, NEW m \in Messages, M!Construct(m)
    PROVE  MessageInv'
<1>1. /\ msg[m] = NULL /\ msg' = [msg EXCEPT ![m] = M!NoEntries]
      /\ value' = [value EXCEPT ![m] = M!NoEntries]
      /\ UNCHANGED <<block, usedRefs, held, leaked>>
  BY DEF M!Construct, M!Exists, M!Own!Make, M!Own!Become, M!Own!Empty, M!NoEntries
<1>2. MessageTypeOK /\ BlocksInv /\ CountsInv /\ AnswerInv
  BY DEF MessageInv
<1>3. M!NoEntries \in Rows /\ M!NoEntries # NULL /\ \A n \in Names : M!NoEntries[n] = NULL
  BY NullIsNoEntry DEF M!NoEntries, Rows
<1>4. /\ msg' \in [Messages -> Rows \cup {NULL}]
      /\ \A k \in Messages : msg'[k] = IF k = m THEN M!NoEntries ELSE msg[k]
  BY <1>1, <1>2, <1>3 DEF MessageTypeOK
<1>5. \A k \in Messages, n \in Names : EntryAt(k, n)' = EntryAt(k, n)
  BY <1>1, <1>3, <1>4 DEF EntryAt
<1>6. \A type, u : M!Entry(type, u)' = M!Entry(type, u)
  BY DEF M!Entry
<1>7. MessageTypeOK'
  BY <1>1, <1>2, <1>4 DEF MessageTypeOK
<1>8. BlocksInv'
  BY <1>1, <1>2, <1>5, <1>6 DEF BlocksInv
<1>9. CountsInv'
  <2>1. \A o \in Objects : Using(o)' = Using(o)
    BY <1>5, <1>6 DEF Using
  <2> QED
    BY <1>1, <1>2, <2>1 DEF CountsInv
<1>10. AnswerInv'
  <2>1. ASSUME NEW k \in Messages, NEW n \in Names, k # m
        PROVE  M!Answer(k, n)' = M!Answer(k, n)
    BY <1>1, <1>4, <2>1 DEF M!Answer, M!IsString
  <2>2. \A n \in Names : M!Answer(m, n)' = NULL
    BY <1>3, <1>4 DEF M!Answer
  <2>3. value' = [k \in Messages |-> IF k = m THEN M!NoEntries ELSE value[k]]
    BY <1>1, <1>2 DEF AnswerInv
  <2>4. ASSUME NEW k \in Messages
        PROVE  value'[k] = IF msg'[k] = NULL THEN NULL ELSE [n \in Names |-> M!Answer(k, n)']
    <3>1. CASE k = m
      BY <1>3, <1>4, <2>2, <2>3, <3>1 DEF M!NoEntries
    <3>2. CASE k # m
      BY <1>2, <1>4, <2>1, <2>3, <3>2 DEF AnswerInv
    <3> QED
      BY <3>1, <3>2
  <2> QED
    BY <2>3, <2>4 DEF AnswerInv
<1> QED
  BY <1>7, <1>8, <1>9, <1>10 DEF MessageInv

LEMMA MessageInit == M!Init => MessageInv
<1> SUFFICES ASSUME M!Init PROVE MessageInv
  OBVIOUS
<1>1. /\ msg = [m \in Messages |-> NULL] /\ block = [b \in Blocks |-> NULL]
      /\ usedRefs = [o \in Objects |-> 0] /\ leaked = [o \in Objects |-> 0]
      /\ held = {} /\ value = [m \in Messages |-> NULL]
  BY DEF M!Init, M!Own!Init
<1>2. \A m \in Messages, n \in Names : EntryAt(m, n) = NULL
  BY <1>1 DEF EntryAt
<1>3. MessageTypeOK
  BY <1>1 DEF MessageTypeOK
<1>4. BlocksInv
  BY <1>1, <1>2, EntryMakes, NullIsNoEntry DEF BlocksInv
<1>5. CountsInv
  <2>1. \A o \in Objects : Using(o) = {}
    BY <1>2, EntryMakes, NullIsNoEntry DEF Using
  <2> QED
    BY <1>1, <2>1, FS_EmptySet, SMTT(30) DEF CountsInv
<1>6. AnswerInv
  BY <1>1 DEF AnswerInv
<1> QED
  BY <1>3, <1>4, <1>5, <1>6 DEF MessageInv

LEMMA MessageStep ==
    ASSUME MessageInv, M!Next
    PROVE  MessageInv'
<1>1. ASSUME NEW o \in Objects, M!NewObject(o) \/ M!DropObject(o) PROVE MessageInv'
  BY <1>1, NewObjectStep, DropObjectStep
<1>2. ASSUME NEW m \in Messages, M!Construct(m) PROVE MessageInv'
  BY <1>2, ConstructStep
<1>3. ASSUME NEW m \in Messages, NEW n \in Names, M!Remove(m, n) PROVE MessageInv'
  BY <1>3, RemoveStep
<1>4. ASSUME NEW m \in Messages, NEW n \in Names, NEW x \in Data, M!SetData(m, n, x)
      PROVE  MessageInv'
  BY <1>4, SetDataStep
<1>5. ASSUME NEW m \in Messages, NEW n \in Names, NEW s \in Texts, M!SetString(m, n, s)
      PROVE  MessageInv'
  BY <1>5, SetStringStep
<1>6. ASSUME NEW m \in Messages, NEW n \in Names, NEW o \in Objects, M!SetObject(m, n, o)
      PROVE  MessageInv'
  BY <1>6, SetObjectStep
<1>7. ASSUME NEW m \in Messages, M!Clear(m) PROVE MessageInv'
  <2>1. /\ msg[m] # NULL /\ M!Cleared(m) /\ msg' = [msg EXCEPT ![m] = M!NoEntries]
        /\ value' = [value EXCEPT ![m] = M!NoEntries]
    BY <1>7 DEF M!Clear, M!Exists, M!Own!Wipe, M!Own!Become, M!Own!Empty, M!NoEntries
  <2> QED
    BY <2>1, ClearedStep
<1>8. ASSUME NEW m \in Messages, M!Destroy(m) PROVE MessageInv'
  <2>1. /\ msg[m] # NULL /\ M!Cleared(m) /\ msg' = [msg EXCEPT ![m] = NULL]
        /\ value' = [value EXCEPT ![m] = NULL]
    BY <1>8 DEF M!Destroy, M!Exists, M!Own!Drop, M!Own!Become
  <2> QED
    BY <2>1, ClearedStep
<1>9. ASSUME NEW m \in Messages, NEW d \in Messages, M!Dup(m, d) PROVE MessageInv'
  BY <1>9, DupStep
<1> QED
  BY <1>1, <1>2, <1>3, <1>4, <1>5, <1>6, <1>7, <1>8, <1>9 DEF M!Next

-----------------------------------------------------------------------------
(* The invariant says what the messages promise. *)
LEMMA EntriesFacts ==
    ASSUME MessageInv, NEW type, NEW u, NULL # M!Entry(type, u)
    PROVE  M!Entries(type, u) =
            {e \in Messages \X Names : EntryAt(e[1], e[2]) = M!Entry(type, u)}
<1>1. ASSUME NEW e \in Messages \X Names
      PROVE  M!Exists(e[1]) /\ msg[e[1]][e[2]] = M!Entry(type, u)
                <=> EntryAt(e[1], e[2]) = M!Entry(type, u)
  BY DEF EntryAt, M!Exists
<1> QED
  BY <1>1 DEF M!Entries

LEMMA MessagesAreRight ==
    ASSUME MessageInv
    PROVE  M!AnswersWhatWasSet /\ M!EntriesOwnWhatTheyHold
<1>1. M!AnswersWhatWasSet
  BY DEF MessageInv, AnswerInv, M!AnswersWhatWasSet, M!Exists
<1>2. ASSUME NEW o \in Objects
      PROVE  usedRefs[o] = (IF o \in held THEN 1 ELSE 0) + leaked[o]
                            + M!Cardinality(M!Entries("object", o))
  <2>1. M!Entries("object", o) = Using(o)
    BY EntriesFacts, EntryMakes, NullIsNoEntry DEF Using
  <2> QED
    BY <2>1, MessageCardinality DEF MessageInv, CountsInv
<1>3. ASSUME NEW b \in Blocks
      PROVE  M!Cardinality(M!Entries("string", b)) = IF block[b] = NULL THEN 0 ELSE 1
  <2> DEFINE E == M!Entries("string", b)
  <2>1. E = {e \in Messages \X Names : EntryAt(e[1], e[2]) = M!Entry("string", b)}
    BY EntriesFacts, EntryMakes, NullIsNoEntry
  <2>2. BlocksInv
    BY DEF MessageInv
  <2> HIDE DEF E
  <2>3. CASE block[b] = NULL
    <3>1. E = {}
      BY <2>1, <2>2, <2>3 DEF BlocksInv
    <3> QED
      BY <2>3, <3>1, FS_EmptySet, MessageCardinality DEF E
  <2>4. CASE block[b] # NULL
    <3>1. PICK m \in Messages, n \in Names : EntryAt(m, n) = M!Entry("string", b)
      BY <2>2, <2>4 DEF BlocksInv
    <3>2. \A k \in Messages, j \in Names :
            EntryAt(k, j) = M!Entry("string", b) => k = m /\ j = n
      BY <2>2, <3>1 DEF BlocksInv
    <3>3. E = {<<m, n>>}
      BY <2>1, <3>1, <3>2
    <3>4. Cardinality(E) = 1
      BY <3>3, FS_Singleton
    <3> QED
      BY <2>4, <3>4, MessageCardinality DEF E
  <2> QED
    BY <2>3, <2>4
<1> QED
  BY <1>1, <1>2, <1>3 DEF M!EntriesOwnWhatTheyHold

\* A message's entries hold what was set last, strings one entry's each, and an
\* object has one reference for each entry that holds it.
THEOREM MessageInvariance == MCSpec => [](scenario = "messages" => MessageInv)
<1>1. MCInit => (scenario = "messages" => MessageInv)
  BY MessageInit DEF MCInit
<1>2. (scenario = "messages" => MessageInv) /\ [MCNext]_mcVars
        => (scenario = "messages" => MessageInv)'
  <2> SUFFICES ASSUME scenario = "messages", MessageInv, [MCNext]_mcVars
               PROVE  MessageInv'
    BY DEF MCNext, mcVars
  <2>1. CASE MCNext
    BY <2>1, MessageStep DEF MCNext
  <2>2. CASE UNCHANGED mcVars
    <3>1. UNCHANGED <<msg, block, usedRefs, held, leaked, value>>
      BY <2>2 DEF mcVars, messageVars
    <3> QED
      BY <3>1, HeldStep DEF MessageInv, MessageTypeOK
  <2> QED
    BY <2>1, <2>2
<1> QED
  BY <1>1, <1>2, PTL DEF MCSpec

\* find answers what was set, and an entry owns its string or its reference:
\* set, find, erase and clear of Message.cpp.
THEOREM MessagesKeepEntries == MCSpec => []MessagesKeepTheirEntries
<1>1. (scenario = "messages" => MessageInv) => MessagesKeepTheirEntries
  BY MessagesAreRight DEF MessagesKeepTheirEntries
<1> QED
  BY <1>1, MessageInvariance, PTL

-----------------------------------------------------------------------------
(* String: what was made of it, in a buffer that is large enough. *)

LEMMA LetterFacts ==
    /\ NUL \in Letters /\ Junk \in Letters /\ Spaces \subseteq Letters
    /\ "a" \in Letters /\ "A" \in Letters
  BY DEF Letters

-----------------------------------------------------------------------------
(* The first elements of a sequence, and two sequences one after the other. *)
LEMMA PrefixFacts ==
    ASSUME NEW A, NEW s \in Seq(A), NEW n \in Nat, n <= Len(s)
    PROVE  /\ SubSeq(s, 1, n) \in Seq(A) /\ Len(SubSeq(s, 1, n)) = n
           /\ \A k \in 1 .. n : SubSeq(s, 1, n)[k] = s[k]
<1>1. /\ SubSeq(s, 0 + 1, n) \in Seq(A) /\ Len(SubSeq(s, 0 + 1, n)) = n - 0
      /\ \A k \in 1 .. n - 0 : SubSeq(s, 0 + 1, n)[k] = s[0 + k]
  BY SubSeqFacts
<1>2. 0 + 1 = 1 /\ n - 0 = n /\ \A k \in 1 .. n : 0 + k = k
  OBVIOUS
<1> QED
  BY <1>1, <1>2

Joins(A, r, s, i, t, n) ==
    /\ s \in Seq(A) /\ Len(s) = i /\ t \in Seq(A) /\ Len(t) = n
    /\ r = s \o t

Joined(A, r, s, i, t, n) ==
    /\ r \in Seq(A) /\ Len(r) = i + n
    /\ \A k \in 1 .. i : r[k] = s[k]
    /\ \A k \in 1 .. n : r[i + k] = t[k]

LEMMA JoinFacts ==
    ASSUME NEW A, NEW r, NEW s, NEW i, NEW t, NEW n, Joins(A, r, s, i, t, n)
    PROVE  Joined(A, r, s, i, t, n)
<1>1. i \in Nat /\ n \in Nat
  BY DEF Joins
<1>2. /\ r \in Seq(A) /\ Len(r) = i + n
      /\ \A k \in 1 .. i + n : r[k] = IF k <= i THEN s[k] ELSE t[k - i]
  BY ConcatProperties DEF Joins
<1>3. ASSUME NEW k \in 1 .. n
      PROVE  r[i + k] = t[k]
  <2> DEFINE j == i + k
  <2>1. j \in 1 .. i + n /\ ~(j <= i) /\ j - i = k
    BY <1>1
  <2> HIDE DEF j
  <2>2. r[j] = t[k]
    BY <1>2, <2>1
  <2> QED
    BY <2>2 DEF j
<1>4. ASSUME NEW k \in 1 .. i
      PROVE  r[k] = s[k]
  <2>1. k \in 1 .. i + n /\ k <= i
    BY <1>1
  <2> QED
    BY <1>2, <2>1
<1> QED
  BY <1>2, <1>3, <1>4 DEF Joined

LEMMA SameSequence ==
    ASSUME NEW A, NEW s \in Seq(A), NEW t \in Seq(A), Len(s) = Len(t),
           \A k \in 1 .. Len(s) : s[k] = t[k]
    PROVE  s = t
  BY SeqEqual

(* memcpy inside a buffer changes what it covers and nothing else. *)
LEMMA CopyFacts ==
    ASSUME NEW A, NEW m \in Seq(A), NEW w \in Seq(A), NEW i \in Nat, i + Len(w) <= Len(m)
    PROVE  /\ S!Put(m, i, w) \in Seq(A) /\ Len(S!Put(m, i, w)) = Len(m)
           /\ \A k \in 1 .. Len(m) : S!Put(m, i, w)[k] =
                IF k > i /\ k <= i + Len(w) THEN w[k - i] ELSE m[k]
<1> DEFINE a == SubSeq(m, 1, i)
           b == SubSeq(m, i + Len(w) + 1, Len(m))
           ab == a \o w
           r == ab \o b
<1>1. Len(m) \in Nat /\ Len(w) \in Nat /\ i <= Len(m) /\ i + Len(w) \in Nat
  OBVIOUS
<1>2. /\ a \in Seq(A) /\ Len(a) = i
      /\ \A k \in 1 .. i : a[k] = m[k]
  BY <1>1, PrefixFacts
<1>3. /\ b \in Seq(A) /\ Len(b) = Len(m) - (i + Len(w))
      /\ \A k \in 1 .. Len(m) - (i + Len(w)) : b[k] = m[(i + Len(w)) + k]
  BY <1>1, SubSeqFacts
<1> HIDE DEF a, b
<1>4. /\ ab \in Seq(A) /\ Len(ab) = i + Len(w)
      /\ \A k \in 1 .. i : ab[k] = a[k]
      /\ \A k \in 1 .. Len(w) : ab[i + k] = w[k]
  <2>1. Joins(A, ab, a, i, w, Len(w))
    BY <1>2 DEF Joins
  <2>2. Joined(A, ab, a, i, w, Len(w))
    BY <2>1, JoinFacts
  <2> QED
    BY <2>2 DEF Joined
<1> HIDE DEF ab
<1>5. /\ r \in Seq(A) /\ Len(r) = Len(ab) + Len(b)
      /\ \A k \in 1 .. Len(ab) : r[k] = ab[k]
      /\ \A k \in 1 .. Len(b) : r[Len(ab) + k] = b[k]
  <2>1. Joins(A, r, ab, Len(ab), b, Len(b))
    BY <1>3, <1>4 DEF Joins
  <2>2. Joined(A, r, ab, Len(ab), b, Len(b))
    BY <2>1, JoinFacts
  <2> QED
    BY <2>2 DEF Joined
<1> HIDE DEF r
<1>6. Len(r) = Len(m)
  BY <1>1, <1>3, <1>4, <1>5
<1>7. ASSUME NEW k \in 1 .. Len(m)
      PROVE  r[k] = IF k > i /\ k <= i + Len(w) THEN w[k - i] ELSE m[k]
  <2>1. CASE k <= i
    <3>1. k \in 1 .. i /\ k \in 1 .. Len(ab) /\ ~(k > i)
      BY <1>1, <1>4, <2>1
    <3> QED
      BY <1>2, <1>4, <1>5, <3>1
  <2>2. CASE k > i /\ k <= i + Len(w)
    <3>1. k - i \in 1 .. Len(w) /\ k \in 1 .. Len(ab) /\ i + (k - i) = k
      BY <1>1, <1>4, <2>2
    <3>2. ab[i + (k - i)] = w[k - i]
      BY <1>4, <3>1
    <3> QED
      BY <1>5, <2>2, <3>1, <3>2
  <2>3. CASE k > i + Len(w)
    <3> DEFINE j == k - (i + Len(w))
    <3>1. /\ j \in 1 .. Len(m) - (i + Len(w)) /\ j \in 1 .. Len(b) /\ Len(ab) + j = k
          /\ (i + Len(w)) + j = k /\ ~(k <= i + Len(w))
      BY <1>1, <1>3, <1>4, <2>3
    <3> HIDE DEF j
    <3>2. r[Len(ab) + j] = b[j] /\ b[j] = m[(i + Len(w)) + j]
      BY <1>3, <1>5, <3>1
    <3> QED
      BY <3>1, <3>2
  <2> QED
    BY <1>1, <2>1, <2>2, <2>3
<1>8. S!Put(m, i, w) = r
  BY DEF S!Put, r, ab, a, b
<1> QED
  BY <1>5, <1>6, <1>7, <1>8

(* What is read up to the end of what was copied, or a part of it. *)
Copied(m, i, w, n) ==
    SubSeq(S!Put(m, i, w), 1, i + n) = SubSeq(m, 1, i) \o SubSeq(w, 1, n)

LEMMA CopyText ==
    ASSUME NEW A, NEW m \in Seq(A), NEW w \in Seq(A), NEW i \in Nat, i + Len(w) <= Len(m),
           NEW n \in Nat, n <= Len(w)
    PROVE  Copied(m, i, w, n)
<1> DEFINE r == S!Put(m, i, w)
           a == SubSeq(m, 1, i)
           b == SubSeq(w, 1, n)
           s == SubSeq(r, 1, i + n)
           t == a \o b
<1>1. /\ Len(m) \in Nat /\ Len(w) \in Nat /\ i <= Len(m) /\ i + n \in Nat
      /\ i + n <= Len(m)
  OBVIOUS
<1>2. /\ r \in Seq(A) /\ Len(r) = Len(m)
      /\ \A k \in 1 .. Len(m) : r[k] = IF k > i /\ k <= i + Len(w) THEN w[k - i] ELSE m[k]
  BY CopyFacts
<1> HIDE DEF r
<1>3. s \in Seq(A) /\ Len(s) = i + n /\ \A k \in 1 .. i + n : s[k] = r[k]
  BY <1>1, <1>2, PrefixFacts
<1>4. a \in Seq(A) /\ Len(a) = i /\ \A k \in 1 .. i : a[k] = m[k]
  BY <1>1, PrefixFacts
<1>5. b \in Seq(A) /\ Len(b) = n /\ \A k \in 1 .. n : b[k] = w[k]
  BY <1>1, PrefixFacts
<1> HIDE DEF a, b, s
<1>6. /\ t \in Seq(A) /\ Len(t) = i + n
      /\ \A k \in 1 .. i : t[k] = a[k]
      /\ \A k \in 1 .. n : t[i + k] = b[k]
  <2>1. Joins(A, t, a, i, b, n)
    BY <1>4, <1>5 DEF Joins
  <2>2. Joined(A, t, a, i, b, n)
    BY <2>1, JoinFacts
  <2> QED
    BY <2>2 DEF Joined
<1> HIDE DEF t
<1>7. ASSUME NEW k \in 1 .. i + n
      PROVE  s[k] = t[k]
  <2>1. CASE k <= i
    <3>1. k \in 1 .. i /\ k \in 1 .. Len(m) /\ ~(k > i)
      BY <1>1, <2>1
    <3> QED
      BY <1>2, <1>3, <1>4, <1>6, <3>1
  <2>2. CASE k > i
    <3> DEFINE j == k - i
    <3>1. j \in 1 .. n /\ k \in 1 .. Len(m) /\ i + j = k /\ k <= i + Len(w)
      BY <1>1, <2>2
    <3>2. r[k] = w[j]
      BY <1>2, <2>2, <3>1
    <3> HIDE DEF j
    <3>3. t[i + j] = w[j]
      BY <1>5, <1>6, <3>1
    <3> QED
      BY <1>3, <3>1, <3>2, <3>3
  <2> QED
    BY <1>1, <2>1, <2>2
<1>8. s = t
  BY <1>3, <1>6, <1>7, SameSequence
<1> QED
  BY <1>8 DEF Copied, s, t, a, b, r

(* insert and replace: y in place of d elements after i, before the rest. *)
Splices(A, m, v, z, i, d, y, r) ==
    /\ m \in Seq(A) /\ v \in Seq(A) /\ z \in Nat /\ Len(v) = z
    /\ z + 1 <= Len(m) /\ (\A k \in 1 .. z : m[k] = v[k])
    /\ i \in Nat /\ d \in Nat /\ i + d <= z
    /\ y \in Seq(A) /\ (z - d) + Len(y) + 1 <= Len(m)
    /\ r = S!Put(S!Put(m, i + Len(y), SubSeq(m, (i + d) + 1, z + 1)), i, y)

HasSplice(A, m, v, z, i, d, y, r) ==
    /\ r \in Seq(A) /\ Len(r) = Len(m)
    /\ SubSeq(r, 1, (z - d) + Len(y)) = SubSeq(v, 1, i) \o y \o SubSeq(v, (i + d) + 1, z)

LEMMA SpliceFacts ==
    ASSUME NEW A, NEW m, NEW v, NEW z, NEW i, NEW d, NEW y, NEW r,
           Splices(A, m, v, z, i, d, y, r)
    PROVE  HasSplice(A, m, v, z, i, d, y, r)
<1> SUFFICES
      ASSUME m \in Seq(A), v \in Seq(A), z \in Nat, Len(v) = z,
             z + 1 <= Len(m), \A k \in 1 .. z : m[k] = v[k],
             i \in Nat, d \in Nat, i + d <= z,
             y \in Seq(A), (z - d) + Len(y) + 1 <= Len(m),
             r = S!Put(S!Put(m, i + Len(y), SubSeq(m, (i + d) + 1, z + 1)), i, y)
      PROVE  /\ r \in Seq(A) /\ Len(r) = Len(m)
             /\ SubSeq(r, 1, (z - d) + Len(y)) =
                    SubSeq(v, 1, i) \o y \o SubSeq(v, (i + d) + 1, z)
  BY DEF Splices, HasSplice
<1> DEFINE w == SubSeq(m, (i + d) + 1, z + 1)
           l == Len(y)
           p == i + l
           n == (z - d) + l
           m1 == S!Put(m, p, w)
           a == SubSeq(v, 1, i)
           c == SubSeq(v, (i + d) + 1, z)
           t == a \o y \o c
           s == SubSeq(r, 1, n)
<1>1. /\ Len(m) \in Nat /\ l \in Nat /\ i + d \in Nat /\ p \in Nat /\ n \in Nat
      /\ i + d <= z + 1 /\ z + 1 \in Nat /\ i <= Len(v) /\ n <= Len(m)
  OBVIOUS
<1>2. /\ w \in Seq(A) /\ Len(w) = (z + 1) - (i + d)
      /\ \A k \in 1 .. (z + 1) - (i + d) : w[k] = m[(i + d) + k]
  BY <1>1, SubSeqFacts
<1> HIDE DEF w
<1>3. p + Len(w) <= Len(m) /\ p + Len(w) = n + 1
  BY <1>1, <1>2
<1>4. /\ m1 \in Seq(A) /\ Len(m1) = Len(m)
      /\ \A k \in 1 .. Len(m) : m1[k] = IF k > p /\ k <= p + Len(w) THEN w[k - p] ELSE m[k]
  <2>1. m \in Seq(A) /\ w \in Seq(A) /\ p \in Nat /\ p + Len(w) <= Len(m)
    BY <1>1, <1>2, <1>3
  <2>2. m1 = S!Put(m, p, w)
    OBVIOUS
  <2> HIDE DEF p, l, m1
  <2> QED
    BY <2>1, <2>2, CopyFacts
<1> HIDE DEF m1
<1>5. i + l <= Len(m1)
  BY <1>1, <1>3, <1>4
<1>6. /\ r \in Seq(A) /\ Len(r) = Len(m)
      /\ \A k \in 1 .. Len(m) : r[k] = IF k > i /\ k <= p THEN y[k - i] ELSE m1[k]
  <2>1. r = S!Put(m1, i, y)
    BY DEF m1, w
  <2> QED
    BY <1>4, <1>5, <2>1, CopyFacts
<1>7. s \in Seq(A) /\ Len(s) = n /\ \A k \in 1 .. n : s[k] = r[k]
  BY <1>1, <1>6, PrefixFacts
<1>8. a \in Seq(A) /\ Len(a) = i /\ \A k \in 1 .. i : a[k] = v[k]
  BY <1>1, PrefixFacts
<1>9. /\ c \in Seq(A) /\ Len(c) = z - (i + d)
      /\ \A k \in 1 .. z - (i + d) : c[k] = v[(i + d) + k]
  BY <1>1, SubSeqFacts
<1>10. /\ t \in Seq(A) /\ Len(t) = n
       /\ \A k \in 1 .. i : t[k] = a[k]
       /\ \A k \in 1 .. l : t[i + k] = y[k]
       /\ \A k \in 1 .. z - (i + d) : t[p + k] = c[k]
  <2> DEFINE ay == a \o y
             q == z - (i + d)
  <2>1. Joins(A, ay, a, i, y, l)
    BY <1>8 DEF Joins
  <2>2. Joined(A, ay, a, i, y, l)
    BY <2>1, JoinFacts
  <2>3. t = ay \o c
    OBVIOUS
  <2> HIDE DEF ay, t
  <2>4. Joins(A, t, ay, p, c, q)
    BY <1>9, <2>2, <2>3 DEF Joins, Joined
  <2>5. Joined(A, t, ay, p, c, q)
    BY <2>4, JoinFacts
  <2>6. p + q = n
    <3>1. l \in Nat
      BY <1>1
    <3> HIDE DEF l
    <3> QED
      BY <3>1
  <2>7. t \in Seq(A) /\ Len(t) = n /\ \A k \in 1 .. q : t[p + k] = c[k]
    BY <2>5, <2>6 DEF Joined
  <2>8. ASSUME NEW k \in 1 .. i
        PROVE  t[k] = a[k]
    <3>1. k \in 1 .. p
      BY <1>1
    <3> QED
      BY <2>2, <2>5, <3>1 DEF Joined
  <2>9. ASSUME NEW k \in 1 .. l
        PROVE  t[i + k] = y[k]
    <3> DEFINE j == i + k
    <3>1. j \in 1 .. p
      BY <1>1
    <3>2. ay[j] = y[k]
      BY <2>2 DEF Joined
    <3> HIDE DEF j
    <3>3. t[j] = ay[j]
      BY <2>5, <3>1 DEF Joined
    <3> QED
      BY <3>2, <3>3 DEF j
  <2> QED
    BY <2>7, <2>8, <2>9
<1> HIDE DEF a, c, t, s
<1>13. ASSUME NEW k \in 1 .. n
       PROVE  s[k] = t[k]
  <2>1. s[k] = IF k > i /\ k <= p THEN y[k - i] ELSE m1[k]
    <3>1. k \in 1 .. Len(m)
      BY <1>1
    <3> QED
      BY <1>6, <1>7, <3>1
  <2>2. CASE k <= i
    <3>1. k \in 1 .. i /\ k \in 1 .. p /\ k \in 1 .. z /\ k \in 1 .. Len(m) /\ ~(k > i) /\ ~(k > p)
      BY <1>1, <2>2
    <3>2. s[k] = m[k]
      BY <1>4, <2>1, <3>1
    <3> QED
      BY <1>8, <1>10, <3>1, <3>2
  <2>3. CASE k > i /\ k <= p
    <3> DEFINE j == k - i
    <3>1. j \in 1 .. l /\ k \in 1 .. p /\ i + j = k
      BY <1>1, <2>3
    <3>2. s[k] = y[j]
      BY <2>1, <2>3
    <3> HIDE DEF j
    <3>3. t[i + j] = y[j]
      BY <1>10, <3>1
    <3> QED
      BY <3>1, <3>2, <3>3
  <2>4. CASE k > p
    <3> DEFINE j == k - p
               h == (i + d) + j
    <3>1. /\ j \in 1 .. z - (i + d) /\ j \in 1 .. (z + 1) - (i + d) /\ p + j = k
          /\ k \in 1 .. Len(m) /\ ~(k <= p) /\ k <= p + Len(w) /\ h \in 1 .. z
      BY <1>1, <1>3, <2>4
    <3>2. s[k] = w[j]
      BY <1>4, <2>1, <2>4, <3>1
    <3> HIDE DEF j
    <3>3. w[j] = m[h] /\ c[j] = v[h] /\ t[p + j] = c[j]
      BY <1>2, <1>9, <1>10, <3>1
    <3> HIDE DEF h
    <3>4. m[h] = v[h]
      BY <3>1
    <3> QED
      BY <3>1, <3>2, <3>3, <3>4
  <2> QED
    BY <1>1, <2>2, <2>3, <2>4
<1>14. s = t
  BY <1>7, <1>10, <1>13, SameSequence
<1> QED
  BY <1>6, <1>14 DEF s, t, a, c

HeapRecord == [refs : Nat, mSize : Nat, bytes : Seq(Letters)]
Heaps == [Buffers -> HeapRecord \cup {NULL}]
Ends == [mData : Buffers \cup {NULL}, mSize : Nat]

StringTypeOK ==
    /\ str \in [Strings -> Ends]
    /\ heap \in Heaps
    /\ value \in [Strings -> Seq(Letters)]
    /\ flaw \in [Strings -> S!Flaws]

\* A buffer lives as long as a string has it, and counts them.
BufferInv(b) ==
    IF heap[b] = NULL THEN S!Sharers(b) = {}
    ELSE /\ heap[b].refs = Cardinality(S!Sharers(b)) /\ S!Sharers(b) # {}
         /\ heap[b].mSize = Len(heap[b].bytes)

\* A string's characters and the terminator are inside its buffer.
RoomInv(s) ==
    IF str[s].mData = NULL THEN str[s].mSize = 0
    ELSE str[s].mSize < Len(heap[str[s].mData].bytes)

\* Strings in one buffer have the same size.
SizesInv ==
    (\A s \in Strings : ~S!Spoiled(s)) =>
        \A s, t \in Strings : str[s].mData = str[t].mData => str[s].mSize = str[t].mSize

\* The characters are those that were asked for, unless they are spoiled.
TextInv == \A s \in Strings : ~S!Spoiled(s) => S!Chars(s) = value[s]

\* The terminator follows, unless it was not written.
EndInv(s) ==
    str[s].mData # NULL /\ flaw[s] = "none" =>
        heap[str[s].mData].bytes[str[s].mSize + 1] = NUL

StringInv ==
    /\ StringTypeOK
    /\ \A b \in Buffers : BufferInv(b)
    /\ \A s \in Strings : RoomInv(s) /\ EndInv(s)
    /\ SizesInv
    /\ TextInv

-----------------------------------------------------------------------------
LEMMA NullIsNoBuffer ==
    NULL \notin Buffers /\ NULL \notin HeapRecord
  BY StringAssumption DEF HeapRecord

(* What a string has: a buffer that lives, and its characters in it. *)
LEMMA StringFacts ==
    ASSUME StringInv, NEW s \in Strings
    PROVE  /\ str[s] \in Ends /\ str[s].mData \in Buffers \cup {NULL} /\ str[s].mSize \in Nat
           /\ str[s].mData = NULL => str[s].mSize = 0 /\ S!Chars(s) = <<>>
           /\ str[s].mData # NULL =>
                /\ str[s].mData \in Buffers /\ heap[str[s].mData] \in HeapRecord
                /\ heap[str[s].mData].bytes \in Seq(Letters)
                /\ heap[str[s].mData].mSize = Len(heap[str[s].mData].bytes)
                /\ str[s].mSize < Len(heap[str[s].mData].bytes)
                /\ S!Chars(s) = SubSeq(heap[str[s].mData].bytes, 1, str[s].mSize)
           /\ S!Chars(s) \in Seq(Letters) /\ Len(S!Chars(s)) = str[s].mSize
<1>1. /\ str[s] \in Ends /\ str[s].mData \in Buffers \cup {NULL} /\ str[s].mSize \in Nat
  BY DEF StringInv, StringTypeOK, Ends
<1>2. CASE str[s].mData = NULL
  <2>1. str[s].mSize = 0 /\ S!Chars(s) = <<>>
    BY <1>2 DEF StringInv, RoomInv, S!Chars, S!HasData
  <2> QED
    BY <1>1, <1>2, <2>1
<1>3. CASE str[s].mData # NULL
  <2> DEFINE b == str[s].mData
             bytes == heap[b].bytes
  <2>1. b \in Buffers /\ s \in S!Sharers(b)
    BY <1>1, <1>3 DEF S!Sharers
  <2>2. heap[b] # NULL /\ heap[b].mSize = Len(heap[b].bytes)
    BY <2>1 DEF StringInv, BufferInv
  <2>3. heap[b] \in HeapRecord
    BY <2>1, <2>2 DEF StringInv, StringTypeOK, Heaps
  <2>4. bytes \in Seq(Letters)
    BY <2>3 DEF HeapRecord
  <2>5. str[s].mSize < Len(bytes)
    BY <1>3 DEF StringInv, RoomInv
  <2>6. S!Chars(s) = SubSeq(bytes, 1, str[s].mSize)
    BY <1>3 DEF S!Chars, S!HasData, S!BytesOf, S!Size
  <2>7. SubSeq(bytes, 1, str[s].mSize) \in Seq(Letters) /\ Len(SubSeq(bytes, 1, str[s].mSize)) = str[s].mSize
    <3> HIDE DEF bytes
    <3>1. str[s].mSize <= Len(bytes)
      BY <1>1, <2>4, <2>5
    <3> QED
      BY <1>1, <2>4, <3>1, PrefixFacts
  <2> QED
    BY <1>1, <1>3, <2>1, <2>2, <2>3, <2>4, <2>5, <2>6, <2>7
<1> QED
  BY <1>2, <1>3

(* Those that have the buffer besides s. *)
Others(s, b) == S!Sharers(b) \ {s}

LEMMA SharersFacts ==
    ASSUME NEW b, NEW s \in Strings
    PROVE  /\ IsFiniteSet(S!Sharers(b)) /\ Cardinality(S!Sharers(b)) \in Nat
           /\ IsFiniteSet(Others(s, b)) /\ Cardinality(Others(s, b)) \in Nat
           /\ s \in S!Sharers(b) <=> str[s].mData = b
           /\ s \in S!Sharers(b) => Cardinality(S!Sharers(b)) = Cardinality(Others(s, b)) + 1
           /\ s \notin S!Sharers(b) => S!Sharers(b) = Others(s, b)
           /\ Cardinality(Others(s, b)) = 0 <=> Others(s, b) = {}
<1>1. S!Sharers(b) \subseteq Strings /\ (s \in S!Sharers(b) <=> str[s].mData = b)
  BY DEF S!Sharers
<1>2. IsFiniteSet(S!Sharers(b)) /\ IsFiniteSet(Others(s, b))
  BY <1>1, StringAssumption, FS_Subset DEF Others
<1>3. Cardinality(S!Sharers(b)) \in Nat /\ Cardinality(Others(s, b)) \in Nat
  BY <1>2, FS_CardinalityType
<1>4. Cardinality(Others(s, b)) = IF s \in S!Sharers(b) THEN Cardinality(S!Sharers(b)) - 1
                                  ELSE Cardinality(S!Sharers(b))
  BY <1>2, FS_RemoveElement DEF Others
<1>5. Cardinality(Others(s, b)) = 0 <=> Others(s, b) = {}
  BY <1>2, FS_EmptySet
<1>6. s \notin S!Sharers(b) => S!Sharers(b) = Others(s, b)
  BY DEF Others
<1> QED
  BY <1>1, <1>2, <1>3, <1>4, <1>5, <1>6

(* release: what it leaves counts the others. *)
ReleasedFrom(hp, s) ==
    \A b \in Buffers :
        IF hp[b] = NULL THEN Others(s, b) = {}
        ELSE /\ heap[b] # NULL /\ hp[b] \in HeapRecord
             /\ hp[b].refs = Cardinality(Others(s, b)) /\ Others(s, b) # {}
             /\ hp[b].bytes = heap[b].bytes /\ hp[b].mSize = Len(hp[b].bytes)

LEMMA ReleaseFacts ==
    ASSUME StringInv, NEW s \in Strings
    PROVE  /\ S!Release(heap, str[s].mData) \in Heaps
           /\ ReleasedFrom(S!Release(heap, str[s].mData), s)
           /\ \A b \in Buffers : b # str[s].mData =>
                S!Release(heap, str[s].mData)[b] = heap[b]
<1> DEFINE hp == S!Release(heap, str[s].mData)
           a == str[s].mData
<1>1. heap \in Heaps /\ \A b \in Buffers : BufferInv(b)
  BY DEF StringInv, StringTypeOK
<1>2. ASSUME NEW b \in Buffers, hp[b] = heap[b], b # a
      PROVE  IF hp[b] = NULL THEN Others(s, b) = {}
             ELSE /\ heap[b] # NULL /\ hp[b] \in HeapRecord
                  /\ hp[b].refs = Cardinality(Others(s, b)) /\ Others(s, b) # {}
                  /\ hp[b].bytes = heap[b].bytes /\ hp[b].mSize = Len(hp[b].bytes)
  <2>1. S!Sharers(b) = Others(s, b)
    BY <1>2, SharersFacts
  <2>2. heap[b] \in HeapRecord \cup {NULL}
    BY <1>1 DEF Heaps
  <2> HIDE DEF hp
  <2> QED
    BY <1>1, <1>2, <2>1, <2>2 DEF BufferInv
<1>3. CASE a = NULL
  <2>1. hp = heap
    BY <1>3 DEF S!Release
  <2>2. \A b \in Buffers : b # a
    BY <1>3, NullIsNoBuffer
  <2> HIDE DEF hp
  <2>3. ReleasedFrom(hp, s)
    BY <1>2, <2>1, <2>2 DEF ReleasedFrom
  <2> QED
    BY <1>1, <2>1, <2>3 DEF hp
<1>4. CASE a # NULL
  <2> DEFINE x == IF heap[a].refs = 1 THEN NULL ELSE [heap[a] EXCEPT !.refs = heap[a].refs - 1]
  <2>1. a \in Buffers /\ heap[a] \in HeapRecord /\ heap[a] # NULL
    BY <1>4, StringFacts, NullIsNoBuffer
  <2>2. hp = [heap EXCEPT ![a] = x]
    BY <1>4 DEF S!Release
  <2>3. /\ heap[a].refs = Cardinality(Others(s, a)) + 1 /\ Cardinality(Others(s, a)) \in Nat
        /\ heap[a].mSize = Len(heap[a].bytes)
        /\ Cardinality(Others(s, a)) = 0 <=> Others(s, a) = {}
    BY <1>1, <2>1, SharersFacts DEF BufferInv
  <2>4. /\ x \in HeapRecord \cup {NULL} /\ (x = NULL <=> Others(s, a) = {})
        /\ x # NULL => /\ x.refs = Cardinality(Others(s, a)) /\ x.bytes = heap[a].bytes
                       /\ x.mSize = heap[a].mSize
    <3>1. CASE heap[a].refs = 1
      BY <2>3, <3>1
    <3>2. CASE heap[a].refs # 1
      <4>1. /\ x = [heap[a] EXCEPT !.refs = heap[a].refs - 1]
            /\ heap[a].refs - 1 = Cardinality(Others(s, a)) /\ Cardinality(Others(s, a)) # 0
        BY <2>3, <3>2
      <4>2. x = [heap[a] EXCEPT !.refs = Cardinality(Others(s, a))]
        BY <4>1
      <4> HIDE DEF x
      <4>3. /\ x \in HeapRecord /\ x.refs = Cardinality(Others(s, a)) /\ x.bytes = heap[a].bytes
            /\ x.mSize = heap[a].mSize
        BY <2>1, <2>3, <4>2 DEF HeapRecord
      <4> QED
        BY <2>3, <4>1, <4>3, NullIsNoBuffer
    <3> QED
      BY <3>1, <3>2
  <2> HIDE DEF x
  <2>5. /\ hp \in Heaps
        /\ \A b \in Buffers : hp[b] = IF b = a THEN x ELSE heap[b]
    BY <1>1, <2>1, <2>2, <2>4 DEF Heaps
  <2> HIDE DEF hp, a
  <2>6. ASSUME NEW b \in Buffers
        PROVE  IF hp[b] = NULL THEN Others(s, b) = {}
               ELSE /\ heap[b] # NULL /\ hp[b] \in HeapRecord
                    /\ hp[b].refs = Cardinality(Others(s, b)) /\ Others(s, b) # {}
                    /\ hp[b].bytes = heap[b].bytes /\ hp[b].mSize = Len(hp[b].bytes)
    <3>1. CASE b = a
      <4>1. hp[b] = x
        BY <2>5, <3>1
      <4> QED
        BY <2>1, <2>3, <2>4, <3>1, <4>1
    <3>2. CASE b # a
      BY <1>2, <2>5, <3>2
    <3> QED
      BY <3>1, <3>2
  <2>7. ReleasedFrom(hp, s)
    BY <2>6 DEF ReleasedFrom
  <2> QED
    BY <2>5, <2>7 DEF hp, a
<1> QED
  BY <1>3, <1>4

Moves(s, r) == str' = [str EXCEPT ![s] = r]

Reads == \A t \in Strings : ~S!Spoiled(t) /\ value[t] = S!Chars(t)
Becomes(s, v) == value' = [value EXCEPT ![s] = v]

\* The others keep their flaws, s has one of them.
Marks(s) ==
    flaw' \in [Strings -> S!Flaws] /\ \A t \in Strings : t # s => flaw'[t] = flaw[t]

LEMMA MarksFacts ==
    ASSUME StringInv, NEW s \in Strings
    PROVE  /\ UNCHANGED flaw => Marks(s) /\ flaw'[s] = flaw[s]
           /\ \A f \in S!Flaws : S!Flawed(s, f) => Marks(s) /\ flaw'[s] = f
<1>1. flaw \in [Strings -> S!Flaws]
  BY DEF StringInv, StringTypeOK
<1> QED
  BY <1>1 DEF Marks, S!Flawed

LEMMA SharersAfter ==
    ASSUME StringInv, NEW s \in Strings, NEW r \in Ends, Moves(s, r), NEW b
    PROVE  /\ S!Sharers(b)' = IF r.mData = b THEN Others(s, b) \cup {s} ELSE Others(s, b)
           /\ Cardinality(S!Sharers(b))' =
                IF r.mData = b THEN Cardinality(Others(s, b)) + 1 ELSE Cardinality(Others(s, b))
           /\ \A t \in Strings : str'[t] = IF t = s THEN r ELSE str[t]
<1>1. \A t \in Strings : str'[t] = IF t = s THEN r ELSE str[t]
  BY DEF StringInv, StringTypeOK, Moves
<1>2. S!Sharers(b)' = IF r.mData = b THEN Others(s, b) \cup {s} ELSE Others(s, b)
  BY <1>1 DEF S!Sharers, Others
<1>3. IsFiniteSet(Others(s, b)) /\ s \notin Others(s, b)
  BY SharersFacts DEF Others
<1>4. Cardinality(Others(s, b) \cup {s}) = Cardinality(Others(s, b)) + 1
  BY <1>3, FS_AddElement
<1>5. Cardinality(S!Sharers(b))' = Cardinality(S!Sharers(b)')
  OBVIOUS
<1> QED
  BY <1>1, <1>2, <1>4, <1>5

(* One string changes, and nobody else sees it. *)
LEMMA AfterStep ==
    ASSUME StringInv, Reads, NEW s \in Strings, NEW r \in Ends, Moves(s, r), heap' \in Heaps,
           \A b \in Buffers : BufferInv(b)',
           \A t \in Strings : t # s /\ str[t].mData # NULL =>
                heap'[str[t].mData].bytes = heap[str[t].mData].bytes,
           \A t \in Strings : t # s /\ str[t].mData = r.mData => str[t].mSize = r.mSize,
           RoomInv(s)', EndInv(s)', Marks(s),
           NEW v \in Seq(Letters), S!Spoiled(s)' \/ v = S!Chars(s)', Becomes(s, v)
    PROVE  StringInv'
<1>1. StringTypeOK /\ \A t \in Strings : str'[t] = IF t = s THEN r ELSE str[t]
  BY DEF StringInv, StringTypeOK, Moves
<1>2. StringTypeOK'
  BY <1>1 DEF StringTypeOK, Moves, Becomes, Marks
<1>3. ASSUME NEW t \in Strings, t # s
      PROVE  RoomInv(t)' /\ EndInv(t)' /\ S!Chars(t)' = S!Chars(t)
  <2>1. str'[t] = str[t] /\ flaw'[t] = flaw[t]
    BY <1>1, <1>3 DEF Marks
  <2>2. RoomInv(t) /\ EndInv(t)
    BY DEF StringInv
  <2>3. CASE str[t].mData = NULL
    BY <2>1, <2>2, <2>3 DEF RoomInv, EndInv, S!Chars, S!HasData
  <2>4. CASE str[t].mData # NULL
    <3>1. heap'[str[t].mData].bytes = heap[str[t].mData].bytes
      BY <1>3, <2>4
    <3> QED
      BY <2>1, <2>2, <2>4, <3>1 DEF RoomInv, EndInv, S!Chars, S!HasData, S!BytesOf, S!Size
  <2> QED
    BY <2>3, <2>4
<1>4. \A t \in Strings : S!Spoiled(t)' \/ value'[t] = S!Chars(t)'
  <2>1. \A t \in Strings : value'[t] = IF t = s THEN v ELSE value[t]
    BY <1>1 DEF StringTypeOK, Becomes
  <2>2. S!Spoiled(s)' \/ value'[s] = S!Chars(s)'
    BY <2>1
  <2>3. ASSUME NEW t \in Strings, t # s PROVE value'[t] = S!Chars(t)'
    BY <1>3, <2>1, <2>3 DEF Reads
  <2> QED
    BY <2>2, <2>3
<1>5. TextInv'
  BY <1>4 DEF TextInv
<1>6. \A t \in Strings : RoomInv(t)' /\ EndInv(t)'
  BY <1>3
<1>7. SizesInv'
  <2>1. \A k, t \in Strings : str[k].mData = str[t].mData => str[k].mSize = str[t].mSize
    BY DEF StringInv, SizesInv, Reads
  <2>2. \A k, t \in Strings : str'[k].mData = str'[t].mData => str'[k].mSize = str'[t].mSize
    BY <1>1, <2>1
  <2> QED
    BY <2>2 DEF SizesInv
<1> QED
  BY <1>2, <1>5, <1>6, <1>7 DEF StringInv

(* s gets a buffer that nobody else has. *)
LEMMA OwnStep ==
    ASSUME StringInv, Reads, NEW s \in Strings, NEW b \in Buffers, Others(s, b) = {},
           NEW bytes \in Seq(Letters), NEW n \in Nat, n < Len(bytes),
           Moves(s, [mData |-> b, mSize |-> n]),
           NEW hp \in Heaps, ReleasedFrom(hp, s),
           heap' = [hp EXCEPT ![b] = [refs |-> 1, mSize |-> Len(bytes), bytes |-> bytes]],
           Marks(s), flaw'[s] = "none" => bytes[n + 1] = NUL,
           NEW v \in Seq(Letters), S!Spoiled(s)' \/ v = SubSeq(bytes, 1, n), Becomes(s, v)
    PROVE  StringInv'
<1> DEFINE r == [mData |-> b, mSize |-> n]
           x == [refs |-> 1, mSize |-> Len(bytes), bytes |-> bytes]
<1>1. /\ r \in Ends /\ r.mData = b /\ r.mSize = n
      /\ x \in HeapRecord /\ x # NULL /\ x.refs = 1 /\ x.mSize = Len(bytes) /\ x.bytes = bytes
  <2>1. Len(bytes) \in Nat
    OBVIOUS
  <2>2. x \in HeapRecord
    BY <2>1 DEF HeapRecord
  <2> QED
    BY <2>2, NullIsNoBuffer DEF Ends
<1>2. heap' \in Heaps /\ \A c \in Buffers : heap'[c] = IF c = b THEN x ELSE hp[c]
  BY <1>1 DEF Heaps
<1>3. Moves(s, r)
  OBVIOUS
<1> HIDE DEF r, x
<1>4. ASSUME NEW c \in Buffers
      PROVE  BufferInv(c)'
  <2>1. /\ S!Sharers(c)' = IF b = c THEN Others(s, c) \cup {s} ELSE Others(s, c)
        /\ Cardinality(S!Sharers(c))' =
              IF b = c THEN Cardinality(Others(s, c)) + 1 ELSE Cardinality(Others(s, c))
    BY <1>1, <1>3, SharersAfter
  <2>2. CASE c = b
    <3>1. Cardinality(Others(s, c)) = 0
      BY <2>2, FS_EmptySet
    <3> QED
      BY <1>1, <1>2, <2>1, <2>2, <3>1 DEF BufferInv
  <2>3. CASE c # b
    BY <1>2, <2>1, <2>3 DEF BufferInv, ReleasedFrom
  <2> QED
    BY <2>2, <2>3
<1>5. ASSUME NEW t \in Strings, t # s, str[t].mData # NULL
      PROVE  heap'[str[t].mData].bytes = heap[str[t].mData].bytes
  <2> DEFINE c == str[t].mData
  <2>1. c \in Buffers /\ t \in Others(s, c)
    BY <1>5, StringFacts DEF Others, S!Sharers
  <2>2. c # b
    BY <2>1
  <2> HIDE DEF c
  <2>3. heap'[c].bytes = heap[c].bytes
    BY <1>2, <2>1, <2>2 DEF ReleasedFrom
  <2> QED
    BY <2>3 DEF c
<1>6. str'[s] = r /\ heap'[b] = x
  BY <1>1, <1>2, <1>3, SharersAfter
<1>7. b # NULL
  BY NullIsNoBuffer
<1>8. RoomInv(s)' /\ EndInv(s)'
  BY <1>1, <1>6, <1>7 DEF RoomInv, EndInv
<1>9. S!Chars(s)' = SubSeq(bytes, 1, n)
  BY <1>1, <1>6, <1>7 DEF S!Chars, S!HasData, S!BytesOf, S!Size
<1>10. \A t \in Strings : t # s /\ str[t].mData = r.mData => str[t].mSize = r.mSize
  BY <1>1 DEF Others, S!Sharers
<1> QED
  BY <1>1, <1>2, <1>3, <1>4, <1>5, <1>8, <1>9, <1>10, AfterStep

(* s shares the buffer of t. *)
LEMMA ShareStep ==
    ASSUME StringInv, Reads, NEW s \in Strings, NEW t \in Strings, S!HasData(t),
           s = t => S!IsShared(s),
           heap' = S!Retain(S!Release(heap, str[s].mData), str[t].mData),
           Moves(s, str[t]), Marks(s), flaw'[s] = flaw[t], Becomes(s, value[t])
    PROVE  StringInv'
<1> DEFINE hp == S!Release(heap, str[s].mData)
           b == str[t].mData
           x == [hp[b] EXCEPT !.refs = @ + 1]
<1>1. hp \in Heaps /\ ReleasedFrom(hp, s)
  BY ReleaseFacts
<1>2. /\ b \in Buffers /\ str[t] \in Ends
      /\ heap[b] \in HeapRecord /\ heap[b] # NULL
      /\ str[t].mSize < Len(heap[b].bytes)
      /\ S!Chars(t) = SubSeq(heap[b].bytes, 1, str[t].mSize)
      /\ S!Chars(t) \in Seq(Letters)
  BY StringFacts, NullIsNoBuffer DEF S!HasData
<1>3. Others(s, b) # {}
  <2>1. CASE s # t
    BY <2>1 DEF Others, S!Sharers
  <2>2. CASE s = t
    <3>1. heap[b].refs > 1
      BY <2>2 DEF S!IsShared
    <3>2. heap[b].refs = Cardinality(S!Sharers(b))
      BY <1>2 DEF StringInv, BufferInv
    <3>3. Cardinality(S!Sharers(b)) = Cardinality(Others(s, b)) + 1
      BY <2>2, SharersFacts
    <3>4. Cardinality(Others(s, b)) # 0
      BY <3>1, <3>2, <3>3
    <3> QED
      BY <3>4, FS_EmptySet
  <2> QED
    BY <2>1, <2>2
<1>4. heap' = [hp EXCEPT ![b].refs = @ + 1]
  BY DEF S!Retain
<1> HIDE DEF hp, b
<1>5. /\ hp[b] \in HeapRecord /\ hp[b] # NULL
      /\ hp[b].refs = Cardinality(Others(s, b))
      /\ hp[b].bytes = heap[b].bytes /\ hp[b].mSize = Len(hp[b].bytes)
  BY <1>1, <1>2, <1>3 DEF ReleasedFrom
<1>6. /\ x \in HeapRecord /\ x # NULL /\ x.refs = Cardinality(Others(s, b)) + 1
      /\ x.bytes = heap[b].bytes /\ x.mSize = Len(x.bytes)
  BY <1>5, NullIsNoBuffer DEF HeapRecord
<1>7. heap' \in Heaps /\ \A c \in Buffers : heap'[c] = IF c = b THEN x ELSE hp[c]
  BY <1>1, <1>2, <1>4, <1>6 DEF Heaps
<1> HIDE DEF x
<1>8. ASSUME NEW c \in Buffers
      PROVE  BufferInv(c)'
  <2>1. /\ S!Sharers(c)' = IF b = c THEN Others(s, c) \cup {s} ELSE Others(s, c)
        /\ Cardinality(S!Sharers(c))' =
              IF b = c THEN Cardinality(Others(s, c)) + 1 ELSE Cardinality(Others(s, c))
    BY <1>2, SharersAfter DEF b
  <2>2. CASE c = b
    BY <1>6, <1>7, <2>1, <2>2 DEF BufferInv
  <2>3. CASE c # b
    BY <1>1, <1>7, <2>1, <2>3 DEF BufferInv, ReleasedFrom
  <2> QED
    BY <2>2, <2>3
<1>9. ASSUME NEW k \in Strings, k # s, str[k].mData # NULL
      PROVE  heap'[str[k].mData].bytes = heap[str[k].mData].bytes
  <2> DEFINE c == str[k].mData
  <2>1. c \in Buffers /\ k \in Others(s, c)
    BY <1>9, StringFacts DEF Others, S!Sharers
  <2> HIDE DEF c
  <2>2. hp[c].bytes = heap[c].bytes
    BY <1>1, <2>1 DEF ReleasedFrom
  <2>3. heap'[c].bytes = heap[c].bytes
    BY <1>6, <1>7, <2>1, <2>2
  <2> QED
    BY <2>3 DEF c
<1>10. str'[s] = str[t] /\ heap'[b].bytes = heap[b].bytes /\ b # NULL
  BY <1>2, <1>6, <1>7, SharersAfter, NullIsNoBuffer
<1>11. RoomInv(s)' /\ EndInv(s)'
  <2>1. EndInv(t)
    BY DEF StringInv
  <2> QED
    BY <1>2, <1>10, <2>1 DEF RoomInv, EndInv, b
<1>12. S!Chars(s)' = S!Chars(t)
  BY <1>2, <1>10 DEF S!Chars, S!HasData, S!BytesOf, S!Size, b
<1>13. value[t] = S!Chars(t)
  BY DEF Reads
<1>14. \A k \in Strings : k # s /\ str[k].mData = str[t].mData => str[k].mSize = str[t].mSize
  BY DEF StringInv, SizesInv, Reads
<1> QED
  BY <1>2, <1>7, <1>8, <1>9, <1>11, <1>12, <1>13, <1>14, AfterStep

LEMMA ClearStringStep ==
    ASSUME StringInv, Reads, NEW s \in Strings, S!Clear(s), Becomes(s, <<>>)
    PROVE  StringInv'
<1> DEFINE r == [mData |-> NULL, mSize |-> 0]
           hp == S!Release(heap, str[s].mData)
<1>1. hp \in Heaps /\ ReleasedFrom(hp, s) /\ heap' = hp /\ Moves(s, r)
  BY ReleaseFacts DEF S!Clear, Moves
<1>2. r \in Ends /\ r.mData = NULL /\ r.mSize = 0
  BY DEF Ends
<1> HIDE DEF r, hp
<1>3. ASSUME NEW c \in Buffers
      PROVE  BufferInv(c)'
  <2>1. NULL # c
    BY NullIsNoBuffer
  <2>2. /\ S!Sharers(c)' = Others(s, c)
        /\ Cardinality(S!Sharers(c))' = Cardinality(Others(s, c))
    BY <1>1, <1>2, <2>1, SharersAfter
  <2> QED
    BY <1>1, <2>2 DEF BufferInv, ReleasedFrom
<1>4. ASSUME NEW t \in Strings, t # s, str[t].mData # NULL
      PROVE  heap'[str[t].mData].bytes = heap[str[t].mData].bytes
  <2> DEFINE c == str[t].mData
  <2>1. c \in Buffers /\ t \in Others(s, c)
    BY <1>4, StringFacts DEF Others, S!Sharers
  <2> HIDE DEF c
  <2>2. heap'[c].bytes = heap[c].bytes
    BY <1>1, <2>1 DEF ReleasedFrom
  <2> QED
    BY <2>2 DEF c
<1>5. str'[s] = r
  BY <1>1, <1>2, SharersAfter
<1>6. RoomInv(s)' /\ EndInv(s)' /\ S!Chars(s)' = <<>>
  BY <1>2, <1>5 DEF RoomInv, EndInv, S!Chars, S!HasData
<1>7. <<>> \in Seq(Letters)
  OBVIOUS
<1>8. \A t \in Strings : t # s /\ str[t].mData = r.mData => str[t].mSize = r.mSize
  BY <1>2, StringFacts
<1>9. Marks(s)
  BY MarksFacts DEF S!Clear, S!Flaws
<1> QED
  BY <1>9, <1>1, <1>2, <1>3, <1>4, <1>6, <1>7, <1>8, AfterStep

(* There are as many buffers as strings: while one of them needs none, a     *)
(* buffer is free.                                                           *)
LEMMA FreeBuffer ==
    ASSUME StringInv, NEW s \in Strings, NEW hp,
           \A b \in Buffers : hp[b] # NULL => Others(s, b) # {}
    PROVE  /\ \E b \in Buffers : hp[b] = NULL
           /\ (CHOOSE b \in Buffers : hp[b] = NULL) \in Buffers
           /\ hp[CHOOSE b \in Buffers : hp[b] = NULL] = NULL
<1> SUFFICES ASSUME \A b \in Buffers : hp[b] # NULL
             PROVE  FALSE
  OBVIOUS
<1> DEFINE rest == Strings \ {s}
           f == [t \in rest |-> str[t].mData]
           used == {f[t] : t \in rest}
<1>1. IsFiniteSet(rest) /\ Cardinality(rest) = Cardinality(Strings) - 1
  BY StringAssumption, FS_RemoveElement
<1>2. f \in Surjection(rest, used)
  BY DEF Surjection
<1>3. \A b \in Buffers : b \in used
  <2> TAKE b \in Buffers
  <2>1. PICK t \in Strings : t # s /\ str[t].mData = b
    BY DEF Others, S!Sharers
  <2> QED
    BY <2>1
<1> HIDE DEF f, rest, used
<1>4. IsFiniteSet(used) /\ Cardinality(used) <= Cardinality(rest)
  BY <1>1, <1>2, FS_Surjection
<1>5. Cardinality(Buffers) <= Cardinality(used)
  BY <1>3, <1>4, FS_Subset
<1>6. /\ Cardinality(Buffers) \in Nat /\ Cardinality(Strings) \in Nat
      /\ Cardinality(used) \in Nat /\ Cardinality(rest) \in Nat
      /\ Cardinality(Buffers) >= Cardinality(Strings)
  BY <1>1, <1>4, StringAssumption, FS_CardinalityType
<1> QED
  BY <1>1, <1>4, <1>5, <1>6

(* Used: what counts of the bytes. *)
LEMMA UsedFacts ==
    ASSUME NEW bytes \in Seq(Letters), NEW n \in Nat, n <= Len(bytes)
    PROVE  /\ S!Used(bytes, n) \in Seq(Letters) /\ Len(S!Used(bytes, n)) = Len(bytes)
           /\ SubSeq(S!Used(bytes, n), 1, n) = SubSeq(bytes, 1, n)
           /\ n < Len(bytes) => S!Used(bytes, n)[n + 1] = bytes[n + 1]
<1> DEFINE u == S!Used(bytes, n)
           z == Len(bytes)
           a == SubSeq(u, 1, n)
           b == SubSeq(bytes, 1, n)
<1>1. z \in Nat /\ DOMAIN bytes = 1 .. z /\ \A i \in 1 .. z : bytes[i] \in Letters
  OBVIOUS
<1>2. Junk \in Letters
  BY LetterFacts
<1>3. u = [i \in 1 .. z |-> IF i <= n + 1 THEN bytes[i] ELSE Junk]
  BY <1>1 DEF S!Used
<1> HIDE DEF u, z
<1>4. u \in [1 .. z -> Letters]
  BY <1>1, <1>2, <1>3
<1>5. u \in Seq(Letters) /\ Len(u) = z
  BY <1>1, <1>4
<1>6. n <= z
  BY DEF z
<1>7. \A i \in 1 .. n : u[i] = bytes[i]
  BY <1>1, <1>3, <1>6
<1>11. n < z => u[n + 1] = bytes[n + 1]
  BY <1>1, <1>3
<1>8. a \in Seq(Letters) /\ Len(a) = n /\ \A k \in 1 .. n : a[k] = u[k]
  BY <1>5, <1>6, PrefixFacts
<1>9. b \in Seq(Letters) /\ Len(b) = n /\ \A k \in 1 .. n : b[k] = bytes[k]
  BY PrefixFacts
<1> HIDE DEF a, b
<1>10. a = b
  BY <1>7, <1>8, <1>9, SameSequence
<1> QED
  BY <1>5, <1>10, <1>11 DEF a, b, u, z

LEMMA SharedFacts ==
    ASSUME StringInv, NEW s \in Strings, S!HasData(s)
    PROVE  S!IsShared(s) <=> Others(s, str[s].mData) # {}
<1> DEFINE b == str[s].mData
<1>1. b \in Buffers /\ heap[b] # NULL
  BY StringFacts, NullIsNoBuffer DEF S!HasData
<1>2. heap[b].refs = Cardinality(S!Sharers(b))
  BY <1>1 DEF StringInv, BufferInv
<1>3. /\ Cardinality(S!Sharers(b)) = Cardinality(Others(s, b)) + 1
      /\ Cardinality(Others(s, b)) \in Nat /\ (Cardinality(Others(s, b)) = 0 <=> Others(s, b) = {})
  BY SharersFacts
<1>4. S!IsShared(s) <=> heap[b].refs > 1
  BY DEF S!IsShared
<1> HIDE DEF b
<1> QED
  BY <1>2, <1>3, <1>4 DEF b

(* Store: s has these bytes, in its own buffer. *)
LEMMA StoreStep ==
    ASSUME StringInv, Reads, NEW s \in Strings, S!HasData(s),
           NEW bytes \in Seq(Letters), NEW n \in Nat, n < Len(bytes),
           NEW room, room = Len(bytes), S!Store(s, room, bytes, n),
           Marks(s), flaw'[s] = "none" => bytes[n + 1] = NUL,
           NEW v \in Seq(Letters), S!Spoiled(s)' \/ v = SubSeq(bytes, 1, n), Becomes(s, v)
    PROVE  StringInv'
<1> DEFINE a == str[s].mData
           u == S!Used(bytes, n)
           x == [refs |-> 1, mSize |-> Len(u), bytes |-> u]
           hp == S!Release(heap, a)
           b == IF S!IsShared(s) THEN S!Free ELSE a
<1>1. /\ u \in Seq(Letters) /\ Len(u) = Len(bytes) /\ n < Len(u)
      /\ S!Spoiled(s)' \/ v = SubSeq(u, 1, n)
      /\ flaw'[s] = "none" => u[n + 1] = NUL
  <2>1. n <= Len(bytes)
    OBVIOUS
  <2>2. /\ u \in Seq(Letters) /\ Len(u) = Len(bytes) /\ SubSeq(u, 1, n) = SubSeq(bytes, 1, n)
        /\ u[n + 1] = bytes[n + 1]
    BY <2>1, UsedFacts
  <2> QED
    BY <2>2
<1>2. /\ hp \in Heaps /\ ReleasedFrom(hp, s)
      /\ \A c \in Buffers : c # a => hp[c] = heap[c]
  BY ReleaseFacts
<1>3. a \in Buffers
  BY StringFacts DEF S!HasData
<1>4. heap \in Heaps
  BY DEF StringInv, StringTypeOK
<1>5. /\ heap' = [(IF S!IsShared(s) THEN hp ELSE heap) EXCEPT ![b] = x]
      /\ Moves(s, [mData |-> b, mSize |-> n])
  BY <1>1 DEF S!Store, Moves
<1>6. CASE S!IsShared(s)
  <2>1. b = S!Free /\ Others(s, a) # {}
    BY <1>6, SharedFacts
  <2>2. ASSUME NEW c \in Buffers, heap[c] # NULL
        PROVE  Others(s, c) # {}
    <3>1. CASE c = a
      BY <2>1, <3>1
    <3>2. CASE c # a
      BY <2>2, <3>2, SharersFacts DEF StringInv, BufferInv
    <3> QED
      BY <3>1, <3>2
  <2>3. b \in Buffers /\ heap[b] = NULL
    BY <2>1, <2>2, FreeBuffer DEF S!Free
  <2>4. Others(s, b) = {}
    BY <2>3 DEF StringInv, BufferInv, Others
  <2>5. heap' = [hp EXCEPT ![b] = x]
    BY <1>5, <1>6
  <2> HIDE DEF hp, b, u
  <2> QED
    BY <1>1, <1>2, <1>5, <2>3, <2>4, <2>5, OwnStep
<1>7. CASE ~S!IsShared(s)
  <2>1. b = a /\ Others(s, a) = {}
    BY <1>7, SharedFacts
  <2>2. heap' = [heap EXCEPT ![a] = x] /\ Moves(s, [mData |-> a, mSize |-> n])
    BY <1>5, <1>7
  <2> HIDE DEF hp, b, u, a, x
  <2>3. heap' = [hp EXCEPT ![a] = x]
    BY <1>2, <1>3, <1>4, <2>2 DEF Heaps
  <2> QED
    BY <1>1, <1>2, <1>3, <2>1, <2>2, <2>3, OwnStep DEF x
<1> QED
  BY <1>6, <1>7

(* A string that had none, or has given back what it had, gets a buffer. *)
LEMMA NewBufferStep ==
    ASSUME StringInv, Reads, NEW s \in Strings, NEW hp \in Heaps, ReleasedFrom(hp, s),
           NEW b, b = CHOOSE c \in Buffers : hp[c] = NULL,
           NEW bytes \in Seq(Letters), NEW n \in Nat, n < Len(bytes),
           NEW room, room = Len(bytes),
           heap' = [hp EXCEPT ![b] = [refs |-> 1, mSize |-> room, bytes |-> bytes]],
           Moves(s, [mData |-> b, mSize |-> n]),
           Marks(s), flaw'[s] = "none" => bytes[n + 1] = NUL,
           NEW v, v = SubSeq(bytes, 1, n), Becomes(s, v)
    PROVE  StringInv'
<1>1. b \in Buffers /\ hp[b] = NULL
  BY FreeBuffer DEF ReleasedFrom
<1>2. Others(s, b) = {}
  BY <1>1 DEF ReleasedFrom
<1>3. v \in Seq(Letters)
  <2>1. n <= Len(bytes)
    OBVIOUS
  <2> QED
    BY <2>1, PrefixFacts
<1> QED
  BY <1>1, <1>2, <1>3, OwnStep

LEMMA LiteralsAreLetters == \A x \in Literals : x \in Seq(Letters)
<1> TAKE x \in Literals
<1>1. x \in Seq({x[i] : i \in DOMAIN x}) /\ {x[i] : i \in DOMAIN x} \subseteq Letters
  BY StringAssumption DEF Letters, LiteralLetters
<1>2. \A A : x \in Seq(A) => Len(x) \in Nat /\ x \in [1 .. Len(x) -> A]
  OBVIOUS
<1>3. Len(x) \in Nat /\ x \in [1 .. Len(x) -> Letters]
  BY <1>1, <1>2
<1> QED
  BY <1>3

LEMMA TerminatedFacts ==
    ASSUME NEW x \in Seq(Letters), NEW c \in Letters
    PROVE  /\ Append(x, c) \in Seq(Letters) /\ Len(Append(x, c)) = Len(x) + 1
           /\ SubSeq(Append(x, c), 1, Len(x)) = x
           /\ Append(x, c)[Len(x) + 1] = c
<1> DEFINE y == Append(x, c)
           n == Len(x)
           s == SubSeq(y, 1, n)
<1>1. /\ y \in Seq(Letters) /\ Len(y) = n + 1 /\ n \in Nat
      /\ (\A k \in 1 .. n : y[k] = x[k]) /\ y[n + 1] = c
  OBVIOUS
<1> HIDE DEF y
<1>2. n <= Len(y)
  BY <1>1
<1>3. s \in Seq(Letters) /\ Len(s) = n /\ \A k \in 1 .. n : s[k] = y[k]
  BY <1>1, <1>2, PrefixFacts
<1> HIDE DEF s
<1>4. s = x
  BY <1>1, <1>3, SameSequence
<1> QED
  BY <1>1, <1>4 DEF s, y

LEMMA ConstructStringStep ==
    ASSUME StringInv, Reads, NEW s \in Strings, NEW x \in Literals,
           S!Construct(s, x), Becomes(s, x)
    PROVE  StringInv'
<1> DEFINE bytes == Append(x, NUL)
           n == Len(x)
           b == S!Free
<1>1. NUL \in Letters /\ x \in Seq(Letters)
  BY LiteralsAreLetters, LetterFacts
<1>2. /\ bytes \in Seq(Letters) /\ Len(bytes) = n + 1 /\ SubSeq(bytes, 1, n) = x /\ n \in Nat
      /\ n < Len(bytes) /\ bytes[n + 1] = NUL
  BY <1>1, TerminatedFacts
<1>3. str[s].mData = NULL
  BY DEF S!Construct, S!HasData
<1>4. heap \in Heaps /\ ReleasedFrom(heap, s)
  BY <1>3, ReleaseFacts DEF S!Release
<1>5. b = CHOOSE c \in Buffers : heap[c] = NULL
  BY DEF S!Free
<1>6. /\ heap' = [heap EXCEPT ![b] = [refs |-> 1, mSize |-> n + 1, bytes |-> bytes]]
      /\ Moves(s, [mData |-> b, mSize |-> n])
  BY DEF S!Construct, Moves
<1>7. Marks(s)
  BY MarksFacts DEF S!Construct, S!Flaws
<1> HIDE DEF bytes, n, b
<1> QED
  BY <1>2, <1>4, <1>5, <1>6, <1>7, NewBufferStep

LEMMA WholeText ==
    ASSUME NEW A, NEW x \in Seq(A)
    PROVE  SubSeq(x, 1, Len(x)) = x /\ SubSeq(x, 1, 0) = <<>>
<1> DEFINE s == SubSeq(x, 1, Len(x))
           e == SubSeq(x, 1, 0)
<1>1. Len(x) \in Nat /\ Len(x) <= Len(x) /\ 0 <= Len(x)
  OBVIOUS
<1>2. s \in Seq(A) /\ Len(s) = Len(x) /\ \A k \in 1 .. Len(x) : s[k] = x[k]
  BY <1>1, PrefixFacts
<1>3. e \in Seq(A) /\ Len(e) = 0
  BY <1>1, PrefixFacts
<1> HIDE DEF s, e
<1>4. s = x
  BY <1>2, SameSequence
<1>5. e = <<>>
  BY <1>3
<1> QED
  BY <1>4, <1>5 DEF s, e

(* What is copied to the start is what is read there. *)
LEMMA CopyToStart ==
    ASSUME NEW A, NEW m \in Seq(A), NEW w \in Seq(A), Len(w) <= Len(m),
           NEW n \in Nat, n <= Len(w)
    PROVE  /\ S!Put(m, 0, w) \in Seq(A) /\ Len(S!Put(m, 0, w)) = Len(m)
           /\ SubSeq(S!Put(m, 0, w), 1, n) = SubSeq(w, 1, n)
           /\ \A k \in 1 .. Len(m) : S!Put(m, 0, w)[k] = IF k <= Len(w) THEN w[k] ELSE m[k]
<1> DEFINE p == S!Put(m, 0, w)
           x == SubSeq(w, 1, n)
<1>1. 0 \in Nat /\ 0 + Len(w) <= Len(m) /\ 0 + n = n
  OBVIOUS
<1>2. p \in Seq(A) /\ Len(p) = Len(m)
  BY <1>1, CopyFacts
<1>6. \A k \in 1 .. Len(m) : p[k] = IF k <= Len(w) THEN w[k] ELSE m[k]
  <2>1. \A k \in 1 .. Len(m) :
            p[k] = IF k > 0 /\ k <= 0 + Len(w) THEN w[k - 0] ELSE m[k]
    BY <1>1, CopyFacts
  <2> HIDE DEF p
  <2> QED
    BY <1>1, <2>1
<1>3. SubSeq(p, 1, 0 + n) = SubSeq(m, 1, 0) \o x
  <2>1. Copied(m, 0, w, n)
    BY <1>1, CopyText
  <2> QED
    BY <2>1 DEF Copied
<1>4. SubSeq(m, 1, 0) = <<>> /\ x \in Seq(A)
  BY WholeText, PrefixFacts
<1> HIDE DEF p, x
<1>5. <<>> \o x = x
  BY <1>4
<1> QED
  BY <1>1, <1>2, <1>3, <1>4, <1>5, <1>6 DEF p, x

LEMMA StringsStay ==
    ASSUME StringInv, UNCHANGED <<str, heap, value, flaw>>
    PROVE  StringInv'
<1>1. StringTypeOK'
  BY DEF StringInv, StringTypeOK
<1>2. \A b : S!Sharers(b)' = S!Sharers(b)
  BY DEF S!Sharers
<1>3. \A b \in Buffers : BufferInv(b)'
  BY <1>2 DEF StringInv, BufferInv
<1>4. \A s \in Strings :
        RoomInv(s)' /\ EndInv(s)' /\ S!Chars(s)' = S!Chars(s) /\ S!Spoiled(s)' = S!Spoiled(s)
  BY DEF StringInv, RoomInv, EndInv, S!Spoiled, S!Chars, S!HasData, S!BytesOf, S!Size
<1>5. SizesInv'
  BY <1>4 DEF StringInv, SizesInv
<1>6. TextInv'
  BY <1>4 DEF StringInv, TextInv
<1> QED
  BY <1>1, <1>3, <1>4, <1>5, <1>6 DEF StringInv

-----------------------------------------------------------------------------
(* set in place: the copies are spoiled, and the run is over. *)
LEMMA InPlaceStep ==
    ASSUME StringInv, Reads, NEW s \in Strings, NEW x \in Seq(Letters),
           S!SetsInPlace(s, x), S!SetChars(s, x), Becomes(s, x)
    PROVE  StringInv'
<1> DEFINE a == str[s].mData
           m == heap[a].bytes
           p == S!Put(m, 0, x)
           n == Len(x)
           w == IF S!IsShared(s) THEN p ELSE S!Used(p, n)
<1>1. /\ a \in Buffers /\ a # NULL /\ heap[a] \in HeapRecord /\ m \in Seq(Letters)
      /\ heap[a].mSize = Len(m) /\ n \in Nat /\ n < Len(m) /\ n <= Len(m)
  <2>1. a # NULL /\ Len(m) > n
    BY DEF S!SetsInPlace, S!HasData, S!BytesOf
  <2>2. a \in Buffers /\ heap[a] \in HeapRecord /\ m \in Seq(Letters) /\ heap[a].mSize = Len(m)
    BY <2>1, StringFacts
  <2>3. n \in Nat /\ Len(m) \in Nat
    BY <2>2
  <2> QED
    BY <2>1, <2>2, <2>3
<1>2. p \in Seq(Letters) /\ Len(p) = Len(m) /\ SubSeq(p, 1, n) = x
  <2>1. n <= n
    BY <1>1
  <2> QED
    BY <1>1, <2>1, CopyToStart, WholeText
<1> HIDE DEF p
<1>3. w \in Seq(Letters) /\ Len(w) = Len(m) /\ SubSeq(w, 1, n) = x
  BY <1>1, <1>2, UsedFacts
<1>4. heap' = [heap EXCEPT ![a].bytes = w] /\ str' = [str EXCEPT ![s].mSize = n]
  BY DEF S!SetChars, p
<1> HIDE DEF w, n
<1>5. /\ heap' \in Heaps
      /\ \A b \in Buffers : b # a => heap'[b] = heap[b]
      /\ heap'[a] \in HeapRecord /\ heap'[a] # NULL /\ heap'[a].refs = heap[a].refs
      /\ heap'[a].mSize = heap[a].mSize /\ heap'[a].bytes = w
  <2> DEFINE r == [heap[a] EXCEPT !.bytes = w]
  <2>1. r \in HeapRecord /\ r.refs = heap[a].refs /\ r.mSize = heap[a].mSize /\ r.bytes = w
    BY <1>1, <1>3 DEF HeapRecord
  <2>2. heap \in Heaps
    BY DEF StringInv, StringTypeOK
  <2>3. heap' = [heap EXCEPT ![a] = r]
    BY <1>4
  <2> HIDE DEF r, m, a
  <2>4. heap' \in Heaps /\ \A b \in Buffers : heap'[b] = IF b = a THEN r ELSE heap[b]
    BY <1>1, <2>1, <2>2, <2>3 DEF Heaps
  <2> QED
    BY <1>1, <2>1, <2>4, NullIsNoBuffer
<1> HIDE DEF m, a
<1>6. /\ str' \in [Strings -> Ends] /\ str'[s].mSize = n
      /\ \A t \in Strings : str'[t].mData = str[t].mData /\ (t # s => str'[t] = str[t])
  <2>1. str \in [Strings -> Ends] /\ str[s] \in Ends
    BY DEF StringInv, StringTypeOK
  <2> DEFINE r == [str[s] EXCEPT !.mSize = n]
  <2>2. r \in Ends /\ r.mData = str[s].mData /\ r.mSize = n
    BY <1>1, <2>1 DEF Ends
  <2>3. str' = [str EXCEPT ![s] = r]
    BY <1>4
  <2> HIDE DEF r
  <2> QED
    BY <2>1, <2>2, <2>3
<1>7. /\ \A t \in Strings : value'[t] = IF t = s THEN x ELSE value[t]
      /\ \A t \in Strings : flaw'[t] = IF t = s THEN "unterminated"
                                       ELSE IF str[t].mData = a THEN "overwritten" ELSE flaw[t]
      /\ flaw' \in [Strings -> S!Flaws] /\ value' \in [Strings -> Seq(Letters)]
  BY DEF S!SetChars, Becomes, StringInv, StringTypeOK, S!Flaws, a
<1>8. StringTypeOK'
  BY <1>5, <1>6, <1>7 DEF StringTypeOK
<1>9. \A b : S!Sharers(b)' = S!Sharers(b)
  BY <1>6 DEF S!Sharers
<1>10. ASSUME NEW b \in Buffers
       PROVE  BufferInv(b)'
  <2>1. BufferInv(b)
    BY DEF StringInv
  <2>2. CASE b = a
    BY <1>1, <1>3, <1>5, <1>9, <2>1, <2>2, NullIsNoBuffer DEF BufferInv, m
  <2>3. CASE b # a
    BY <1>5, <1>9, <2>1, <2>3 DEF BufferInv
  <2> QED
    BY <2>2, <2>3
<1>11. str[s].mData = a
  BY DEF a
<1>12. RoomInv(s)' /\ EndInv(s)' /\ S!Chars(s)' = x
  BY <1>1, <1>3, <1>5, <1>6, <1>7, <1>11
     DEF RoomInv, EndInv, S!Chars, S!HasData, S!BytesOf, S!Size
<1>13. ASSUME NEW t \in Strings, t # s
       PROVE  RoomInv(t)' /\ EndInv(t)' /\ (str[t].mData # a => S!Chars(t)' = S!Chars(t))
  <2>1. /\ RoomInv(t) /\ EndInv(t) /\ str'[t] = str[t] /\ str[t].mData \in Buffers \cup {NULL}
        /\ flaw'[t] = IF str[t].mData = a THEN "overwritten" ELSE flaw[t]
    BY <1>7, <1>6, <1>13, StringFacts DEF StringInv
  <2>2. CASE str[t].mData = NULL
    BY <1>1, <2>1, <2>2 DEF RoomInv, EndInv, S!Chars, S!HasData
  <2>3. CASE str[t].mData = a
    BY <1>1, <1>3, <1>5, <2>1, <2>3 DEF RoomInv, EndInv, m
  <2>4. CASE str[t].mData # NULL /\ str[t].mData # a
    <3>1. heap'[str[t].mData] = heap[str[t].mData]
      BY <1>5, <2>1, <2>4
    <3> QED
      BY <2>1, <2>4, <3>1 DEF RoomInv, EndInv, S!Chars, S!HasData, S!BytesOf, S!Size
  <2> QED
    BY <2>2, <2>3, <2>4
<1>14. SizesInv'
  <2> SUFFICES ASSUME \A k \in Strings : ~S!Spoiled(k)',
                      NEW k \in Strings, NEW t \in Strings, str'[k].mData = str'[t].mData
               PROVE  str'[k].mSize = str'[t].mSize
    BY DEF SizesInv
  <2>1. \A j \in Strings : j # s => str[j].mData # a
    BY <1>7 DEF S!Spoiled
  <2>2. \A i, j \in Strings : str[i].mData = str[j].mData => str[i].mSize = str[j].mSize
    BY DEF StringInv, SizesInv, Reads
  <2> QED
    BY <1>6, <1>11, <2>1, <2>2
<1>15. TextInv'
  <2> SUFFICES ASSUME NEW t \in Strings, ~S!Spoiled(t)'
               PROVE  S!Chars(t)' = value'[t]
    BY DEF TextInv
  <2> QED
    BY <1>7, <1>12, <1>13 DEF Reads, S!Spoiled
<1> QED
  BY <1>8, <1>10, <1>12, <1>13, <1>14, <1>15 DEF StringInv

(* set(x): in place, or in a new buffer after release. *)
LEMMA SetCharsStep ==
    ASSUME StringInv, Reads, NEW s \in Strings, NEW x \in Seq(Letters),
           S!SetChars(s, x), Becomes(s, x)
    PROVE  StringInv'
<1>1. CASE S!SetsInPlace(s, x)
  BY <1>1, InPlaceStep
<1>2. CASE ~S!SetsInPlace(s, x)
  <2> DEFINE hp == S!Release(heap, str[s].mData)
             b == CHOOSE c \in Buffers : hp[c] = NULL
             n == Len(x)
             bytes == Append(x, Junk)
  <2>1. hp \in Heaps /\ ReleasedFrom(hp, s)
    BY ReleaseFacts
  <2>2. /\ bytes \in Seq(Letters) /\ Len(bytes) = n + 1 /\ SubSeq(bytes, 1, n) = x /\ n \in Nat
        /\ n < Len(bytes)
    BY TerminatedFacts, LetterFacts
  <2>3. /\ heap' = [hp EXCEPT ![b] = [refs |-> 1, mSize |-> n + 1, bytes |-> bytes]]
        /\ Moves(s, [mData |-> b, mSize |-> n])
    BY <1>2 DEF S!SetChars, Moves
  <2>4. Marks(s) /\ flaw'[s] = "unterminated"
    BY <1>2 DEF S!SetChars, Marks, StringInv, StringTypeOK, S!Flaws
  <2>5. b = CHOOSE c \in Buffers : hp[c] = NULL
    OBVIOUS
  <2> HIDE DEF bytes, n, b, hp
  <2> QED
    BY <2>1, <2>2, <2>3, <2>4, <2>5, NewBufferStep
<1> QED
  BY <1>1, <1>2

-----------------------------------------------------------------------------
LEMMA ExchangeCount ==
    ASSUME NEW A, IsFiniteSet(A), NEW s \in A, NEW t, t \notin A
    PROVE  Cardinality((A \ {s}) \cup {t}) = Cardinality(A) /\ (A \ {s}) \cup {t} # {}
<1>1. IsFiniteSet(A \ {s}) /\ Cardinality(A \ {s}) = Cardinality(A) - 1
  BY FS_RemoveElement
<1>2. Cardinality((A \ {s}) \cup {t}) = Cardinality(A \ {s}) + 1
  BY <1>1, FS_AddElement
<1>3. Cardinality(A) \in Nat
  BY FS_CardinalityType
<1> QED
  BY <1>1, <1>2, <1>3

(* swap: the two exchange their buffers, unless they have the same one. *)
LEMMA SwapStringStep ==
    ASSUME StringInv, Reads, NEW s \in Strings, NEW t \in Strings, S!Swap(s, t),
           value' = [value EXCEPT ![s] = value[t], ![t] = value[s]]
    PROVE  StringInv'
<1>1. heap' = heap /\ s # t
  BY DEF S!Swap
<1>2. StringTypeOK /\ \A k \in Strings : value[k] = S!Chars(k) /\ ~S!Spoiled(k)
  BY DEF StringInv, Reads
<1>3. CASE str[s].mData = str[t].mData
  <2>1. str' = str /\ flaw' = flaw
    BY <1>3 DEF S!Swap
  <2>2. str[s].mSize = str[t].mSize
    BY <1>3 DEF StringInv, SizesInv, Reads
  <2>3. S!Chars(s) = S!Chars(t)
    BY <1>3, <2>2 DEF S!Chars, S!HasData, S!BytesOf, S!Size
  <2>4. value' = value
    BY <1>2, <2>3 DEF StringTypeOK
  <2> QED
    BY <1>1, <2>1, <2>4, StringsStay
<1>4. CASE str[s].mData # str[t].mData
  <2> DEFINE O(k) == IF k = s THEN t ELSE IF k = t THEN s ELSE k
  <2>1. /\ str' = [str EXCEPT ![s] = str[t], ![t] = str[s]]
        /\ flaw' = [flaw EXCEPT ![s] = flaw[t], ![t] = flaw[s]]
    BY <1>4 DEF S!Swap
  <2>2. \A k \in Strings : /\ O(k) \in Strings /\ str'[k] = str[O(k)] /\ value'[k] = value[O(k)]
                          /\ flaw'[k] = flaw[O(k)]
    BY <1>1, <1>2, <2>1 DEF StringTypeOK
  <2>3. StringTypeOK'
    BY <1>1, <1>2, <2>1 DEF StringTypeOK
  <2>4. ASSUME NEW b
        PROVE  /\ Cardinality(S!Sharers(b)') = Cardinality(S!Sharers(b))
               /\ S!Sharers(b)' = {} <=> S!Sharers(b) = {}
    <3>1. IsFiniteSet(S!Sharers(b))
      BY SharersFacts
    <3>2. CASE b = str[s].mData
      <4>1. /\ s \in S!Sharers(b) /\ t \notin S!Sharers(b)
            /\ S!Sharers(b)' = (S!Sharers(b) \ {s}) \cup {t}
        BY <1>1, <1>4, <2>2, <3>2 DEF S!Sharers
      <4> QED
        BY <3>1, <4>1, ExchangeCount
    <3>3. CASE b = str[t].mData
      <4>1. /\ t \in S!Sharers(b) /\ s \notin S!Sharers(b)
            /\ S!Sharers(b)' = (S!Sharers(b) \ {t}) \cup {s}
        BY <1>1, <1>4, <2>2, <3>3 DEF S!Sharers
      <4> QED
        BY <3>1, <4>1, ExchangeCount
    <3>4. CASE b # str[s].mData /\ b # str[t].mData
      BY <2>2, <3>4 DEF S!Sharers
    <3> QED
      BY <3>2, <3>3, <3>4
  <2>5. ASSUME NEW b \in Buffers
        PROVE  BufferInv(b)'
    <3>1. BufferInv(b) /\ Cardinality(S!Sharers(b))' = Cardinality(S!Sharers(b)')
      BY DEF StringInv
    <3> QED
      BY <1>1, <2>4, <3>1 DEF BufferInv
  <2>6. ASSUME NEW k \in Strings
        PROVE  RoomInv(k)' /\ EndInv(k)' /\ S!Chars(k)' = S!Chars(O(k))
    <3>1. /\ O(k) \in Strings /\ str'[k] = str[O(k)] /\ flaw'[k] = flaw[O(k)]
          /\ RoomInv(O(k)) /\ EndInv(O(k))
      BY <2>2 DEF StringInv
    <3> HIDE DEF O
    <3> QED
      BY <1>1, <3>1 DEF RoomInv, EndInv, S!Chars, S!HasData, S!BytesOf, S!Size
  <2> HIDE DEF O
  <2>7. TextInv'
    BY <1>2, <2>2, <2>6 DEF TextInv
  <2>8. SizesInv'
    <3>1. \A i, j \in Strings : str[i].mData = str[j].mData => str[i].mSize = str[j].mSize
      BY DEF StringInv, SizesInv, Reads
    <3>2. \A i, j \in Strings : str'[i].mData = str'[j].mData => str'[i].mSize = str'[j].mSize
      BY <2>2, <3>1
    <3> QED
      BY <3>2 DEF SizesInv
  <2> QED
    BY <2>3, <2>5, <2>6, <2>7, <2>8 DEF StringInv
<1> QED
  BY <1>3, <1>4

(* Sequences that agree up to z have the same parts up to z. *)
LEMMA SamePart ==
    ASSUME NEW A, NEW m \in Seq(A), NEW v \in Seq(A), Len(v) <= Len(m),
           \A k \in 1 .. Len(v) : m[k] = v[k],
           NEW i \in Nat, NEW j \in Nat, i <= j, j <= Len(v)
    PROVE  SubSeq(m, i + 1, j) = SubSeq(v, i + 1, j)
<1> DEFINE a == SubSeq(m, i + 1, j)
           b == SubSeq(v, i + 1, j)
<1>1. Len(m) \in Nat /\ Len(v) \in Nat /\ j <= Len(m)
  OBVIOUS
<1>2. a \in Seq(A) /\ Len(a) = j - i /\ \A k \in 1 .. j - i : a[k] = m[i + k]
  BY <1>1, SubSeqFacts
<1>3. b \in Seq(A) /\ Len(b) = j - i /\ \A k \in 1 .. j - i : b[k] = v[i + k]
  BY <1>1, SubSeqFacts
<1>4. \A k \in 1 .. j - i : i + k \in 1 .. Len(v)
  BY <1>1
<1> HIDE DEF a, b
<1>5. \A k \in 1 .. Len(a) : a[k] = b[k]
  BY <1>2, <1>3, <1>4
<1>6. a = b
  BY <1>2, <1>3, <1>5, SameSequence
<1> QED
  BY <1>6 DEF a, b

LEMMA SamePrefix ==
    ASSUME NEW A, NEW m \in Seq(A), NEW v \in Seq(A), Len(v) <= Len(m),
           \A k \in 1 .. Len(v) : m[k] = v[k],
           NEW j \in Nat, j <= Len(v)
    PROVE  SubSeq(m, 1, j) = SubSeq(v, 1, j)
<1>1. SubSeq(m, 0 + 1, j) = SubSeq(v, 0 + 1, j)
  BY SamePart
<1>2. 0 + 1 = 1
  OBVIOUS
<1> QED
  BY <1>1, <1>2

(* What OwnedSequences makes of a value. *)
Spliced(v, i, d, y) == SubSeq(v, 1, i) \o y \o SubSeq(v, (i + d) + 1, Len(v))

LEMMA SplicedAtEnd ==
    ASSUME NEW A, NEW v \in Seq(A), NEW y \in Seq(A)
    PROVE  Spliced(v, Len(v), 0, y) = v \o y
<1> DEFINE z == Len(v)
           c == SubSeq(v, (z + 0) + 1, z)
<1>1. z \in Nat /\ (z + 0) + 1 = z + 1 /\ z <= z /\ z - z = 0
  OBVIOUS
<1>2. c \in Seq(A) /\ Len(c) = 0
  BY <1>1, SubSeqFacts
<1> HIDE DEF c
<1>3. c = <<>> /\ SubSeq(v, 1, z) = v /\ v \o y \in Seq(A)
  BY <1>2, WholeText, ConcatProperties
<1>4. Spliced(v, z, 0, y) = SubSeq(v, 1, z) \o y \o c
  BY DEF Spliced, c
<1> HIDE DEF z
<1>5. (v \o y) \o <<>> = v \o y
  BY <1>3, ConcatEmptySeq
<1> QED
  BY <1>3, <1>4, <1>5 DEF z

LEMMA SplicedType ==
    ASSUME NEW A, NEW v \in Seq(A), NEW y \in Seq(A), NEW i \in Nat, NEW d \in Nat, i + d <= Len(v)
    PROVE  Spliced(v, i, d, y) \in Seq(A)
<1> DEFINE a == SubSeq(v, 1, i)
           c == SubSeq(v, (i + d) + 1, Len(v))
<1>1. i <= Len(v) /\ i + d \in Nat /\ Len(v) \in Nat /\ Len(v) <= Len(v)
  OBVIOUS
<1>2. a \in Seq(A)
  BY <1>1, PrefixFacts
<1>3. c \in Seq(A)
  BY <1>1, SubSeqFacts
<1>4. Spliced(v, i, d, y) = a \o y \o c
  BY DEF Spliced
<1> HIDE DEF a, c
<1>5. a \o y \in Seq(A)
  BY <1>2, ConcatProperties
<1> QED
  BY <1>3, <1>4, <1>5, ConcatProperties

LEMMA SplicedEmpty ==
    ASSUME NEW A, NEW v \in Seq(A), NEW i \in Nat, i <= Len(v)
    PROVE  Spliced(v, i, 0, <<>>) = v
<1> DEFINE z == Len(v)
           a == SubSeq(v, 1, i)
           c == SubSeq(v, i + 1, z)
           t == a \o c
<1>1. z \in Nat /\ (i + 0) + 1 = i + 1 /\ z <= z
  OBVIOUS
<1>2. a \in Seq(A) /\ Len(a) = i /\ \A k \in 1 .. i : a[k] = v[k]
  BY PrefixFacts
<1>3. c \in Seq(A) /\ Len(c) = z - i /\ \A k \in 1 .. z - i : c[k] = v[i + k]
  BY <1>1, SubSeqFacts
<1>4. Spliced(v, i, 0, <<>>) = (a \o <<>>) \o c
  BY <1>1 DEF Spliced
<1> HIDE DEF a, c, z
<1>5. a \o <<>> = a
  BY <1>2, ConcatEmptySeq
<1>6. Joins(A, t, a, i, c, z - i)
  BY <1>2, <1>3 DEF Joins
<1> HIDE DEF t
<1>7. Joined(A, t, a, i, c, z - i)
  BY <1>6, JoinFacts
<1>8. /\ t \in Seq(A) /\ Len(t) = z
      /\ \A k \in 1 .. i : t[k] = a[k]
      /\ \A k \in 1 .. z - i : t[i + k] = c[k]
  BY <1>1, <1>7 DEF Joined
<1>9. ASSUME NEW k \in 1 .. z
      PROVE  t[k] = v[k]
  <2>1. CASE k <= i
    <3>1. k \in 1 .. i
      BY <2>1
    <3> QED
      BY <1>2, <1>8, <3>1
  <2>2. CASE k > i
    <3> DEFINE j == k - i
    <3>1. j \in 1 .. z - i /\ i + j = k
      BY <1>1, <2>2
    <3> HIDE DEF j
    <3>2. t[i + j] = c[j] /\ c[j] = v[i + j]
      BY <1>3, <1>8, <3>1
    <3> QED
      BY <3>1, <3>2
  <2> QED
    BY <1>1, <2>1, <2>2
<1>10. t = v
  BY <1>8, <1>9, SameSequence DEF z
<1> QED
  BY <1>4, <1>5, <1>10 DEF t

-----------------------------------------------------------------------------
(* edit: the buffer is large enough and begins with the characters. *)
LEMMA TextFacts ==
    ASSUME StringInv, NEW s \in Strings, S!HasData(s)
    PROVE  /\ S!BytesOf(s) \in Seq(Letters) /\ S!Size(s) \in Nat
           /\ S!Size(s) < Len(S!BytesOf(s)) /\ heap[str[s].mData].mSize = Len(S!BytesOf(s))
           /\ S!Chars(s) \in Seq(Letters) /\ Len(S!Chars(s)) = S!Size(s)
           /\ \A k \in 1 .. S!Size(s) : S!BytesOf(s)[k] = S!Chars(s)[k]
           /\ flaw[s] = "none" => S!BytesOf(s)[S!Size(s) + 1] = NUL
<1> DEFINE m == heap[str[s].mData].bytes
           z == str[s].mSize
           c == S!Chars(s)
<1>1. /\ m \in Seq(Letters) /\ z \in Nat /\ z < Len(m)
      /\ heap[str[s].mData].mSize = Len(m) /\ c = SubSeq(m, 1, z)
      /\ c \in Seq(Letters) /\ Len(c) = z
  BY StringFacts DEF S!HasData
<1>5. flaw[s] = "none" => m[z + 1] = NUL
  BY DEF StringInv, EndInv, S!HasData
<1>2. S!BytesOf(s) = m /\ S!Size(s) = z
  BY DEF S!BytesOf, S!Size
<1> HIDE DEF m, z, c
<1>3. z <= Len(m)
  BY <1>1
<1>4. \A k \in 1 .. z : SubSeq(m, 1, z)[k] = m[k]
  BY <1>1, <1>3, PrefixFacts
<1> QED
  BY <1>1, <1>2, <1>4, <1>5 DEF c, m

LEMMA EditFacts ==
    ASSUME StringInv, NEW s \in Strings, S!HasData(s), NEW n \in Nat, S!Size(s) <= n
    PROVE  /\ S!Edit(s, n) \in Seq(Letters) /\ n <= Len(S!Edit(s, n))
           /\ \A k \in 1 .. S!Size(s) : S!Edit(s, n)[k] = S!Chars(s)[k]
           /\ S!Size(s) < n => S!Edit(s, n)[S!Size(s) + 1] = S!BytesOf(s)[S!Size(s) + 1]
<1> DEFINE m == S!BytesOf(s)
           z == S!Size(s)
           e == S!Edit(s, n)
           r == S!Resized(m, n)
<1>1. /\ m \in Seq(Letters) /\ z \in Nat /\ z < Len(m) /\ Len(m) \in Nat
      /\ \A k \in 1 .. z : m[k] = S!Chars(s)[k]
  BY TextFacts
<1>2. /\ r \in Seq(Letters) /\ Len(r) = n /\ \A k \in 1 .. z : r[k] = m[k]
      /\ z < n => r[z + 1] = m[z + 1]
  <2>1. r = [i \in 1 .. n |-> IF i <= Len(m) THEN m[i] ELSE Junk]
    BY DEF S!Resized
  <2>2. \A i \in 1 .. n : i <= Len(m) => m[i] \in Letters
    BY <1>1
  <2> HIDE DEF r, m, z
  <2>3. r \in [1 .. n -> Letters]
    BY <2>1, <2>2, LetterFacts
  <2>4. r \in Seq(Letters) /\ Len(r) = n
    BY <2>3
  <2>5. \A k \in 1 .. z : k \in 1 .. n /\ k <= Len(m)
    BY <1>1 DEF z
  <2>6. z < n => z + 1 \in 1 .. n /\ z + 1 <= Len(m)
    BY <1>1 DEF z
  <2> QED
    BY <2>1, <2>4, <2>5, <2>6
<1>3. e = IF ~S!IsShared(s) /\ n <= Len(m) THEN m ELSE r
  BY DEF S!Edit
<1> HIDE DEF e, m, r
<1>4. CASE ~S!IsShared(s) /\ n <= Len(m)
  BY <1>1, <1>3, <1>4 DEF e, m
<1>5. CASE ~(~S!IsShared(s) /\ n <= Len(m))
  <2>1. e = r
    BY <1>3, <1>5
  <2>2. n <= Len(e)
    BY <1>2, <2>1
  <2> QED
    BY <1>1, <1>2, <2>1, <2>2 DEF e, m
<1> QED
  BY <1>4, <1>5

-----------------------------------------------------------------------------
(* append: x is y and its terminator. *)
LEMMA AppendStep ==
    ASSUME StringInv, Reads, NEW s \in Strings, S!HasData(s),
           NEW y \in Seq(Letters), NEW x \in Seq(Letters),
           Len(x) = Len(y) + 1, SubSeq(x, 1, Len(y)) = y,
           S!AppendBytes(s, x), Marks(s), flaw'[s] = "none" => x[Len(x)] = NUL,
           Becomes(s, S!Chars(s) \o y)
    PROVE  StringInv'
<1> DEFINE z == S!Size(s)
           n == z + Len(x)
           e == S!Edit(s, n)
           c == S!Chars(s)
           p == S!Put(e, z, x)
<1>1. /\ z \in Nat /\ Len(x) \in Nat /\ Len(y) \in Nat /\ n \in Nat /\ z <= n
      /\ n - 1 \in Nat /\ n - 1 = z + Len(y) /\ Len(y) <= Len(x)
      /\ c \in Seq(Letters) /\ Len(c) = z
  <2>1. z \in Nat /\ c \in Seq(Letters) /\ Len(c) = z
    BY TextFacts
  <2>2. Len(x) \in Nat /\ Len(y) \in Nat
    OBVIOUS
  <2> HIDE DEF z, c
  <2> QED
    BY <2>1, <2>2
<1>2. /\ e \in Seq(Letters) /\ n <= Len(e)
      /\ \A k \in 1 .. z : e[k] = c[k]
  BY <1>1, EditFacts
<1>3. S!Store(s, Len(e), p, n - 1)
  BY DEF S!AppendBytes
<1> HIDE DEF e, c
<1>4. p \in Seq(Letters) /\ Len(p) = Len(e) /\ p[(n - 1) + 1] = x[Len(x)]
  <2>1. /\ n \in 1 .. Len(e) /\ n > z /\ n <= z + Len(x) /\ n - z = Len(x) /\ (n - 1) + 1 = n
        /\ z + Len(x) <= Len(e)
    BY <1>1, <1>2
  <2> HIDE DEF n, z
  <2>2. /\ p \in Seq(Letters) /\ Len(p) = Len(e)
        /\ \A k \in 1 .. Len(e) : p[k] = IF k > z /\ k <= z + Len(x) THEN x[k - z] ELSE e[k]
    BY <1>1, <1>2, <2>1, CopyFacts
  <2> HIDE DEF p
  <2> QED
    BY <2>1, <2>2
<1>5. SubSeq(p, 1, z + Len(y)) = SubSeq(e, 1, z) \o SubSeq(x, 1, Len(y))
  <2>1. z + Len(x) <= Len(e) /\ z \in Nat /\ Len(y) \in Nat /\ Len(y) <= Len(x)
    BY <1>1, <1>2
  <2>2. e \in Seq(Letters)
    BY <1>2
  <2> HIDE DEF z, n
  <2>3. Copied(e, z, x, Len(y))
    BY <2>1, <2>2, CopyText
  <2> QED
    BY <2>3 DEF Copied
<1> HIDE DEF p
<1>6. SubSeq(e, 1, z) = c
  <2>1. Len(c) <= Len(e) /\ z <= Len(c)
    BY <1>1, <1>2
  <2>2. SubSeq(e, 1, z) = SubSeq(c, 1, z)
    BY <1>1, <1>2, <2>1, SamePrefix
  <2> QED
    BY <1>1, <2>2, WholeText
<1>7. c \o y = SubSeq(p, 1, n - 1)
  BY <1>1, <1>5, <1>6
<1>8. n - 1 < Len(p) /\ Len(e) = Len(p)
  BY <1>1, <1>2, <1>4
<1>9. Becomes(s, c \o y) /\ c \o y \in Seq(Letters)
  BY <1>1, ConcatProperties DEF c
<1> HIDE DEF n
<1> QED
  BY <1>1, <1>3, <1>4, <1>7, <1>8, <1>9, StoreStep

(* What moves keeps its terminator. *)
KeepsEnd(e, z, i, d, y) ==
    S!Put(S!Put(e, i + Len(y), SubSeq(e, (i + d) + 1, z + 1)), i, y)[(z - d) + Len(y) + 1] = e[z + 1]

LEMMA SpliceEnd ==
    ASSUME NEW A, NEW e \in Seq(A), NEW z \in Nat, z + 1 <= Len(e),
           NEW i \in Nat, NEW d \in Nat, i + d <= z,
           NEW y \in Seq(A), (z - d) + Len(y) + 1 <= Len(e)
    PROVE  KeepsEnd(e, z, i, d, y)
<1> DEFINE w == SubSeq(e, (i + d) + 1, z + 1)
           h == i + Len(y)
           p == S!Put(e, h, w)
           q == S!Put(p, i, y)
           l == Len(y)
           n == (z - d) + l + 1
           j == (z + 1) - (i + d)
<1>1. Len(e) \in Nat /\ l \in Nat
  OBVIOUS
<1>2. /\ h \in Nat /\ j \in Nat /\ j >= 1 /\ i + d \in Nat /\ i + d <= z + 1
      /\ z + 1 \in Nat /\ h + j = n /\ n - h = j /\ n > h /\ n \in 1 .. Len(e)
      /\ (i + d) + j = z + 1 /\ i + l = h /\ h <= Len(e)
  <2> HIDE DEF w, p, q
  <2> QED
    BY <1>1
<1>3. w \in Seq(A) /\ Len(w) = j /\ w[j] = e[(i + d) + j]
  <2>1. /\ w \in Seq(A) /\ Len(w) = (z + 1) - (i + d)
        /\ \A k \in 1 .. (z + 1) - (i + d) : w[k] = e[(i + d) + k]
    <3> HIDE DEF p, q, h, l, n, j
    <3>1. i + d \in Nat /\ z + 1 \in Nat /\ i + d <= z + 1 /\ z + 1 <= Len(e)
      BY <1>2
    <3> DEFINE from == i + d
               to == z + 1
    <3>2. from \in Nat /\ to \in Nat /\ from <= to /\ to <= Len(e)
      BY <3>1
    <3>3. w = SubSeq(e, from + 1, to)
      OBVIOUS
    <3> HIDE DEF w, from, to
    <3>4. w \in Seq(A) /\ Len(w) = to - from /\ \A k \in 1 .. to - from : w[k] = e[from + k]
      BY <3>2, <3>3, SubSeqFacts
    <3> QED
      BY <3>4 DEF from, to
  <2>2. j \in 1 .. j
    BY <1>2
  <2> HIDE DEF w
  <2> QED
    BY <2>1, <2>2
<1> HIDE DEF w
<1>4. /\ p \in Seq(A) /\ Len(p) = Len(e)
      /\ \A k \in 1 .. Len(e) : p[k] = IF k > h /\ k <= h + Len(w) THEN w[k - h] ELSE e[k]
  <2>1. h + Len(w) <= Len(e)
    BY <1>2, <1>3
  <2>2. h \in Nat
    BY <1>2
  <2> HIDE DEF h, n, j, l
  <2> QED
    BY <1>3, <2>1, <2>2, CopyFacts
<1>5. p[n] = w[j]
  <2>1. n \in 1 .. Len(e) /\ n > h /\ n <= h + Len(w) /\ n - h = j
    BY <1>2, <1>3
  <2> HIDE DEF p, n, h, j
  <2> QED
    BY <1>4, <2>1
<1> HIDE DEF p
<1>6. \A k \in 1 .. Len(p) : q[k] = IF k > i /\ k <= i + Len(y) THEN y[k - i] ELSE p[k]
  <2>1. i + Len(y) <= Len(p)
    BY <1>2, <1>4
  <2> QED
    BY <1>4, <2>1, CopyFacts
<1>7. q[n] = p[n]
  <2>1. n \in 1 .. Len(p) /\ ~(n <= i + Len(y))
    BY <1>2, <1>4
  <2> HIDE DEF q, n
  <2> QED
    BY <1>6, <2>1
<1>8. q[n] = e[z + 1]
  <2> HIDE DEF q, n, j
  <2> QED
    BY <1>2, <1>3, <1>5, <1>7
<1> QED
  BY <1>8 DEF KeepsEnd, q, p, w

(* insert and replace: y in place of d characters after i. *)
LEMMA SpliceStep ==
    ASSUME StringInv, Reads, NEW s \in Strings, S!HasData(s),
           NEW e \in Seq(Letters), \A k \in 1 .. S!Size(s) : e[k] = S!Chars(s)[k],
           S!Size(s) + 1 <= Len(e),
           NEW i \in Nat, NEW d \in Nat, i + d <= S!Size(s),
           NEW y \in Seq(Letters), (S!Size(s) - d) + Len(y) + 1 <= Len(e),
           S!Store(s, Len(e),
               S!Put(S!Put(e, i + Len(y), SubSeq(e, (i + d) + 1, S!Size(s) + 1)), i, y),
               (S!Size(s) - d) + Len(y)),
           Marks(s), flaw'[s] = "none" => e[S!Size(s) + 1] = NUL,
           NEW v \in Seq(Letters), Becomes(s, v),
           S!Spoiled(s)' \/ v = Spliced(S!Chars(s), i, d, y)
    PROVE  StringInv'
<1> DEFINE z == S!Size(s)
           n == (z - d) + Len(y)
           r == S!Put(S!Put(e, i + Len(y), SubSeq(e, (i + d) + 1, z + 1)), i, y)
           c == S!Chars(s)
<1>1. z \in Nat /\ c \in Seq(Letters) /\ Len(c) = z /\ \A k \in 1 .. z : e[k] = c[k]
  BY TextFacts
<1>2. S!Store(s, Len(e), r, n) /\ (S!Spoiled(s)' \/ v = Spliced(c, i, d, y))
  OBVIOUS
<1>3. /\ z + 1 <= Len(e) /\ i + d <= z /\ (z - d) + Len(y) + 1 <= Len(e)
      /\ Len(y) \in Nat /\ Len(e) \in Nat
  OBVIOUS
<1>8. flaw'[s] = "none" => e[z + 1] = NUL
  OBVIOUS
<1> HIDE DEF c, z
<1>9. flaw'[s] = "none" => r[n + 1] = NUL
  <2>1. KeepsEnd(e, z, i, d, y)
    BY <1>1, <1>3, SpliceEnd
  <2>2. r[(z - d) + Len(y) + 1] = e[z + 1]
    BY <2>1 DEF KeepsEnd
  <2> HIDE DEF r
  <2> QED
    BY <1>8, <2>2
<1>4. /\ r \in Seq(Letters) /\ Len(r) = Len(e)
      /\ SubSeq(r, 1, (z - d) + Len(y)) = SubSeq(c, 1, i) \o y \o SubSeq(c, (i + d) + 1, z)
  <2>1. Splices(Letters, e, c, z, i, d, y, r)
    BY <1>1, <1>3 DEF Splices
  <2> HIDE DEF r
  <2>2. HasSplice(Letters, e, c, z, i, d, y, r)
    BY <2>1, SpliceFacts
  <2> QED
    BY <2>2 DEF HasSplice
<1> HIDE DEF r
<1>5. S!Spoiled(s)' \/ v = SubSeq(r, 1, n)
  BY <1>1, <1>2, <1>4 DEF Spliced
<1>6. n \in Nat /\ n + 1 <= Len(e)
  BY <1>1, <1>3
<1> HIDE DEF n
<1>7. n < Len(r) /\ Len(e) = Len(r)
  BY <1>3, <1>4, <1>6
<1> QED
  BY <1>2, <1>4, <1>5, <1>6, <1>7, <1>9, StoreStep

(* erase: what follows moves down, with a terminator. *)
LEMMA EraseStringStep ==
    ASSUME StringInv, Reads, NEW s \in Strings, NEW pos \in Nat, NEW n \in Nat,
           S!Erase(s, pos, n), Becomes(s, Spliced(S!Chars(s), pos, n, <<>>))
    PROVE  StringInv'
<1> DEFINE m == S!BytesOf(s)
           z == S!Size(s)
           c == S!Chars(s)
           rest == SubSeq(m, (pos + n) + 1, z)
           x == Append(rest, NUL)
           p == S!Put(m, pos, x)
           v == Spliced(c, pos, n, <<>>)
<1>1. S!HasData(s) /\ pos < z /\ pos + n <= z
  BY StringFacts DEF S!Erase, S!HasData, S!Size
<1>2. /\ m \in Seq(Letters) /\ z \in Nat /\ z < Len(m) /\ heap[str[s].mData].mSize = Len(m)
      /\ c \in Seq(Letters) /\ Len(c) = z /\ \A k \in 1 .. z : m[k] = c[k]
  BY <1>1, TextFacts
<1>3. S!Store(s, heap[str[s].mData].mSize, p, z - n)
  BY DEF S!Erase, S!EditSame, S!Terminated
<1> HIDE DEF m, z, c
<1>4. Len(m) \in Nat /\ pos + n \in Nat /\ z - n \in Nat /\ z <= Len(m)
  BY <1>1, <1>2
<1>5. rest \in Seq(Letters) /\ Len(rest) = z - (pos + n)
  BY <1>1, <1>2, <1>4, SubSeqFacts
<1>6. rest = SubSeq(c, (pos + n) + 1, z)
  BY <1>1, <1>2, <1>4, SamePart
<1> HIDE DEF rest
<1>7. /\ x \in Seq(Letters) /\ Len(x) = Len(rest) + 1 /\ SubSeq(x, 1, Len(rest)) = rest
      /\ x[Len(rest) + 1] = NUL
  BY <1>5, TerminatedFacts, LetterFacts
<1> HIDE DEF x
<1>8. /\ pos + Len(x) <= Len(m) /\ Len(rest) <= Len(x) /\ Len(rest) \in Nat
      /\ z - n = pos + Len(rest)
  <2>1. Len(rest) = z - (pos + n) /\ Len(x) = Len(rest) + 1 /\ z < Len(m) /\ z \in Nat
    BY <1>2, <1>5, <1>7
  <2> QED
    BY <1>1, <1>4, <2>1
<1>9. p \in Seq(Letters) /\ Len(p) = Len(m) /\ p[(z - n) + 1] = NUL
  <2>1. /\ p \in Seq(Letters) /\ Len(p) = Len(m)
        /\ \A k \in 1 .. Len(m) : p[k] = IF k > pos /\ k <= pos + Len(x) THEN x[k - pos] ELSE m[k]
    BY <1>2, <1>7, <1>8, CopyFacts
  <2> DEFINE k == (z - n) + 1
  <2>2. /\ k \in 1 .. Len(m) /\ k > pos /\ k <= pos + Len(x) /\ k - pos = Len(rest) + 1
    BY <1>4, <1>7, <1>8
  <2> HIDE DEF p, k
  <2>3. p[k] = NUL
    BY <1>7, <2>1, <2>2
  <2> QED
    BY <2>1, <2>3 DEF k
<1>10. SubSeq(p, 1, pos + Len(rest)) = SubSeq(m, 1, pos) \o SubSeq(x, 1, Len(rest))
  <2>1. m \in Seq(Letters) /\ x \in Seq(Letters)
    BY <1>2, <1>7
  <2>2. pos + Len(x) <= Len(m) /\ Len(rest) <= Len(x) /\ Len(rest) \in Nat
    BY <1>8
  <2>3. Copied(m, pos, x, Len(rest))
    BY <2>1, <2>2, CopyText
  <2> QED
    BY <2>3 DEF Copied
<1> HIDE DEF p
<1>11. SubSeq(m, 1, pos) = SubSeq(c, 1, pos)
  <2>1. Len(c) <= Len(m) /\ pos <= Len(c)
    BY <1>1, <1>2, <1>4
  <2> QED
    BY <1>2, <2>1, SamePrefix
<1>12. SubSeq(c, 1, pos) \o <<>> = SubSeq(c, 1, pos)
  <2>1. SubSeq(c, 1, pos) \in Seq(Letters)
    BY <1>1, <1>2, PrefixFacts
  <2> QED
    BY <2>1, ConcatEmptySeq
<1>13. v = SubSeq(p, 1, z - n)
  <2>1. v = (SubSeq(c, 1, pos) \o <<>>) \o rest
    BY <1>2, <1>6 DEF Spliced
  <2> QED
    BY <1>7, <1>8, <1>10, <1>11, <1>12, <2>1
<1>14. z - n < Len(p) /\ Len(m) = Len(p)
  BY <1>2, <1>4, <1>9
<1>15. Becomes(s, v) /\ Marks(s)
  BY MarksFacts DEF S!Erase, S!Flaws, c
<1>16. v \in Seq(Letters)
  <2>1. z - n <= Len(p)
    BY <1>4, <1>14, <1>2
  <2> HIDE DEF v
  <2> QED
    BY <1>4, <1>9, <1>13, <2>1, PrefixFacts
<1> HIDE DEF v
<1> QED
  BY <1>1, <1>2, <1>3, <1>4, <1>9, <1>13, <1>14, <1>15, <1>16, StoreStep

(* lower, upper and operator[]: as many characters as before. *)
LEMMA RewriteStep ==
    ASSUME StringInv, Reads, NEW s \in Strings, NEW x \in Seq(Letters), Len(x) = S!Size(s),
           S!Rewrite(s, x), Becomes(s, x)
    PROVE  StringInv'
<1> DEFINE m == S!BytesOf(s)
           z == S!Size(s)
           p == S!Put(m, 0, x)
<1>6. Marks(s) /\ flaw'[s] = flaw[s]
  BY MarksFacts DEF S!Rewrite
<1>1. S!HasData(s) /\ S!Store(s, heap[str[s].mData].mSize, p, z)
  BY DEF S!Rewrite, S!EditSame
<1>2. /\ m \in Seq(Letters) /\ z \in Nat /\ z < Len(m) /\ heap[str[s].mData].mSize = Len(m)
      /\ flaw[s] = "none" => m[z + 1] = NUL
  BY <1>1, TextFacts
<1> HIDE DEF m
<1>3. Len(x) = z /\ z <= Len(x) /\ Len(x) <= Len(m)
  BY <1>2
<1> HIDE DEF z
<1>4. p \in Seq(Letters) /\ Len(p) = Len(m) /\ SubSeq(p, 1, z) = SubSeq(x, 1, z)
      /\ p[z + 1] = m[z + 1]
  <2>1. z + 1 \in 1 .. Len(m) /\ ~(z + 1 <= Len(x))
    BY <1>2, <1>3
  <2> QED
    BY <1>2, <1>3, <2>1, CopyToStart
<1>5. SubSeq(x, 1, z) = x
  BY <1>3, WholeText
<1> HIDE DEF p
<1> QED
  BY <1>1, <1>2, <1>4, <1>5, <1>6, StoreStep

LEMMA HasLeast ==
    ASSUME NEW T, T \subseteq Nat, T # {}
    PROVE  \E i \in T : \A j \in T : i <= j
<1> DEFINE Before == OpToRel(<, Nat)
<1>1. IsWellFoundedOn(Before, Nat)
  BY NatLessThanWellFounded
<1>2. \A i, j \in Nat : i < j => <<i, j>> \in Before
  BY DEF OpToRel
<1> HIDE DEF Before
<1>3. PICK i \in T : \A j \in T : ~(<<j, i>> \in Before)
  BY <1>1, WFMin
<1>4. \A j \in T : ~(j < i)
  BY <1>2, <1>3
<1> QED
  BY <1>3, <1>4

LEMMA LeastFacts ==
    ASSUME NEW T, T \subseteq Nat, T # {}
    PROVE  S!Least(T) \in T
  BY HasLeast DEF S!Least

LEMMA GreatestFacts ==
    ASSUME NEW n \in Nat, NEW T, T \subseteq 1 .. n, T # {}
    PROVE  S!Greatest(T) \in T
<1> DEFINE U == {n - i : i \in T}
<1>1. U \subseteq Nat /\ U # {}
  <2>1. \A i \in T : n - i \in Nat /\ n - i \in U
    OBVIOUS
  <2> QED
    BY <2>1
<1>2. PICK u \in U : \A w \in U : u <= w
  BY <1>1, HasLeast
<1>3. PICK i \in T : u = n - i
  OBVIOUS
<1>4. \A j \in T : j <= i
  <2> TAKE j \in T
  <2>1. n - j \in U
    OBVIOUS
  <2>2. n - i <= n - j /\ i \in 1 .. n /\ j \in 1 .. n
    BY <1>2, <1>3, <2>1
  <2> QED
    BY <2>2
<1> QED
  BY <1>4 DEF S!Greatest

LEMMA TrimmedType ==
    ASSUME NEW A, NEW x \in Seq(A)
    PROVE  S!Trimmed(x) \in Seq(A) /\ Len(S!Trimmed(x)) <= Len(x)
<1> DEFINE kept == {i \in DOMAIN x : x[i] \notin Spaces}
           n == Len(x)
<1>1. n \in Nat /\ kept \subseteq 1 .. n /\ kept \subseteq Nat
  OBVIOUS
<1>2. S!Trimmed(x) = IF kept = {} THEN <<>> ELSE SubSeq(x, S!Least(kept), S!Greatest(kept))
  BY DEF S!Trimmed
<1> HIDE DEF kept
<1>3. CASE kept = {}
  <2>1. S!Trimmed(x) = <<>>
    BY <1>2, <1>3
  <2> QED
    BY <1>1, <2>1
<1>4. CASE kept # {}
  <2> DEFINE i == S!Least(kept)
             j == S!Greatest(kept)
             r == SubSeq(x, i, j)
  <2>1. i \in 1 .. n /\ j \in 1 .. n
    BY <1>1, <1>4, LeastFacts, GreatestFacts
  <2>2. S!Trimmed(x) = r
    BY <1>2, <1>4
  <2> HIDE DEF i, j
  <2>3. \A k \in i .. j : x[k] \in A
    BY <2>1
  <2>4. r \in Seq(A) /\ Len(r) = IF i <= j THEN j - i + 1 ELSE 0
    <3>1. i \in Int /\ j \in Int
      BY <2>1
    <3> QED
      BY <2>3, <3>1, SubSeqProperties
  <2> HIDE DEF r
  <2>5. Len(r) <= n
    BY <1>1, <2>1, <2>4
  <2> QED
    BY <2>2, <2>4, <2>5 DEF n
<1> QED
  BY <1>3, <1>4

LEMMA TrimmedFacts ==
    ASSUME NEW x \in Seq(Letters)
    PROVE  S!Trimmed(x) \in Seq(Letters) /\ Len(S!Trimmed(x)) <= Len(x)
  BY TrimmedType

LEMMA IndexOfFacts ==
    ASSUME NEW x \in Seq(Letters), NEW y \in Seq(Letters), ~(S!IndexOf(x, y) < 0)
    PROVE  S!IndexOf(x, y) \in Nat /\ S!IndexOf(x, y) + Len(y) <= Len(x)
<1> DEFINE all == {i \in 0 .. Len(x) : i + Len(y) <= Len(x)
                        /\ SubSeq(x, i + 1, i + Len(y)) = y}
<1>1. S!IndexOf(x, y) = IF all = {} THEN -1 ELSE S!Least(all)
  BY DEF S!IndexOf
<1>2. Len(x) \in Nat /\ all \subseteq Nat /\ \A i \in all : i + Len(y) <= Len(x)
  OBVIOUS
<1> HIDE DEF all
<1>3. all # {}
  BY <1>1
<1>4. S!IndexOf(x, y) \in all
  BY <1>1, <1>2, <1>3, LeastFacts
<1> QED
  BY <1>2, <1>4

-----------------------------------------------------------------------------
LEMMA StayStep ==
    ASSUME StringInv, Reads, NEW s \in Strings, UNCHANGED <<str, heap, flaw>>,
           NEW v, v = S!Chars(s), Becomes(s, v)
    PROVE  StringInv'
<1>1. value' = value
  BY DEF Becomes, Reads, StringInv, StringTypeOK
<1> QED
  BY <1>1, StringsStay

LEMMA EmptyText == \A A : \A x \in Seq(A) : Len(x) <= 0 => x = <<>>
  OBVIOUS

(* trim: what is kept moves to the start, with a terminator. *)
LEMMA TrimStep ==
    ASSUME StringInv, Reads, NEW s \in Strings, S!Trim(s), Becomes(s, S!Trimmed(S!Chars(s)))
    PROVE  StringInv'
<1> DEFINE m == S!BytesOf(s)
           z == S!Size(s)
           c == S!Chars(s)
           y == S!Trimmed(c)
           x == Append(y, NUL)
           p == S!Put(m, 0, x)
           n == Len(y)
<1>1. z \in Nat /\ c \in Seq(Letters) /\ Len(c) = z
  BY StringFacts DEF S!Size
<1>2. y \in Seq(Letters) /\ n <= z
  BY <1>1, TrimmedFacts
<1>3. CASE z = 0
  <2>1. c = <<>> /\ y = <<>>
    BY <1>1, <1>2, <1>3, EmptyText
  <2>2. UNCHANGED <<str, heap, flaw>>
    BY <1>3 DEF S!Trim
  <2>3. Becomes(s, y)
    OBVIOUS
  <2> HIDE DEF y
  <2> QED
    BY <2>1, <2>2, <2>3, StayStep
<1>4. CASE z # 0
  <2>1. S!HasData(s)
    BY <1>4, StringFacts DEF S!HasData, S!Size
  <2>2. S!Store(s, heap[str[s].mData].mSize, p, n)
    BY <1>4 DEF S!Trim, S!EditSame, S!Terminated
  <2>3. m \in Seq(Letters) /\ z < Len(m) /\ heap[str[s].mData].mSize = Len(m)
    BY <2>1, TextFacts
  <2>4. Becomes(s, y) /\ Marks(s)
    BY <1>4, MarksFacts DEF S!Trim, S!Flaws
  <2> HIDE DEF m, z, c, y
  <2>5. x \in Seq(Letters) /\ Len(x) = n + 1 /\ SubSeq(x, 1, n) = y
        /\ x[n + 1] = NUL
    BY <1>2, TerminatedFacts, LetterFacts
  <2>6. Len(m) \in Nat /\ n \in Nat
    BY <1>2, <2>3
  <2> HIDE DEF x, n
  <2>7. Len(x) <= Len(m) /\ n <= Len(x) /\ n < Len(m)
    BY <1>1, <1>2, <2>3, <2>5, <2>6
  <2>8. p \in Seq(Letters) /\ Len(p) = Len(m) /\ SubSeq(p, 1, n) = SubSeq(x, 1, n)
        /\ p[n + 1] = x[n + 1]
    <3>1. n + 1 \in 1 .. Len(m) /\ n + 1 <= Len(x)
      BY <2>5, <2>6, <2>7
    <3> QED
      BY <2>3, <2>5, <2>6, <2>7, <3>1, CopyToStart
  <2> HIDE DEF p
  <2> QED
    BY <1>2, <2>1, <2>2, <2>3, <2>4, <2>5, <2>6, <2>7, <2>8, StoreStep
<1> QED
  BY <1>3, <1>4

(* insert before the end. *)
LEMMA InsertBytesStep ==
    ASSUME StringInv, Reads, NEW s \in Strings, S!HasData(s), NEW pos \in Nat, pos <= S!Size(s),
           NEW y \in Seq(Letters), S!InsertBytes(s, pos, y),
           Marks(s), flaw'[s] = "none" => flaw[s] = "none",
           NEW v \in Seq(Letters), Becomes(s, v),
           S!Spoiled(s)' \/ v = Spliced(S!Chars(s), pos, 0, y)
    PROVE  StringInv'
<1> DEFINE z == S!Size(s)
           n == z + Len(y) + 1
           e == S!Edit(s, n)
<1>1. z \in Nat /\ Len(y) \in Nat /\ n \in Nat
  <2>1. z \in Nat
    BY TextFacts
  <2> HIDE DEF z
  <2> QED
    BY <2>1
<1>2. S!Store(s, Len(e),
        S!Put(S!Put(e, pos + Len(y), SubSeq(e, pos + 1, z + 1)), pos, y), n - 1)
  BY DEF S!InsertBytes
<1>3. z <= n /\ pos <= z /\ z < n
  BY <1>1
<1>4. /\ e \in Seq(Letters) /\ n <= Len(e)
      /\ \A k \in 1 .. z : e[k] = S!Chars(s)[k]
      /\ flaw'[s] = "none" => e[z + 1] = NUL
  BY <1>1, <1>3, EditFacts, TextFacts
<1> HIDE DEF e
<1>5. /\ pos + 1 = (pos + 0) + 1 /\ n - 1 = (z - 0) + Len(y) /\ pos + 0 <= z
      /\ z + 1 <= Len(e) /\ (z - 0) + Len(y) + 1 <= Len(e)
  <2>1. Len(e) \in Nat /\ n <= Len(e)
    BY <1>4
  <2> HIDE DEF z
  <2> QED
    BY <1>1, <1>3, <2>1
<1>6. S!Store(s, Len(e),
        S!Put(S!Put(e, pos + Len(y), SubSeq(e, (pos + 0) + 1, z + 1)), pos, y), (z - 0) + Len(y))
  BY <1>2, <1>5
<1> QED
  BY <1>4, <1>5, <1>6, SpliceStep

LEMMA RemainderFacts ==
    ASSUME NEW i \in Nat, NEW p \in Nat, p # 0
    PROVE  i % p \in 0 .. p - 1 /\ (i < p => i % p = i)
<1>1. i % p \in 0 .. p - 1
  OBVIOUS
<1>2. i < p => i % p = i
  OBVIOUS
<1> QED
  BY <1>1, <1>2

(* What strncpy finds: the bytes of t, those up to pos at least. *)
LEMMA FoundFacts ==
    ASSUME StringInv, NEW s \in Strings, NEW t \in Strings, S!HasData(t),
           NEW pos \in Nat, pos <= S!Size(s),
           NEW n \in Nat, n = IF pos = S!Size(s) THEN S!Size(t) + 1 ELSE S!Size(t),
           NEW x \in S!Found(s, pos, t)
    PROVE  /\ x \in Seq(Letters) /\ Len(x) = n
           /\ \A k \in 1 .. n : s # t \/ k <= pos => x[k] = S!BytesOf(t)[k]
<1> DEFINE m == S!BytesOf(t)
           b == SubSeq(m, 1, n)
           w == [i \in 1 .. n |-> b[((i - 1) % pos) + 1]]
<1>1. /\ m \in Seq(Letters) /\ n <= Len(m)
  <2>1. m \in Seq(Letters) /\ S!Size(t) \in Nat /\ S!Size(t) < Len(m)
    BY TextFacts
  <2> HIDE DEF m
  <2> QED
    BY <2>1
<1>2. b \in Seq(Letters) /\ Len(b) = n /\ \A k \in 1 .. n : b[k] = m[k]
  BY <1>1, PrefixFacts
<1>3. S!Found(s, pos, t) = IF s # t \/ pos = 0 THEN {b} ELSE {b, w}
  BY DEF S!Found
<1> HIDE DEF m, b
<1>4. CASE x = b
  BY <1>2, <1>4 DEF m
<1>5. pos <= n \/ s # t
  <2>1. S!Size(t) \in Nat
    BY TextFacts
  <2> QED
    BY <2>1
<1>6. CASE x = w /\ s = t /\ pos # 0
  <2>1. \A i \in 1 .. n : /\ (i - 1) % pos \in 0 .. pos - 1
                          /\ i <= pos => (i - 1) % pos = i - 1
    <3> TAKE i \in 1 .. n
    <3> DEFINE h == i - 1
    <3>1. h \in Nat /\ (i <= pos => h < pos)
      OBVIOUS
    <3> HIDE DEF h
    <3>2. h % pos \in 0 .. pos - 1 /\ (h < pos => h % pos = h)
      BY <1>6, <3>1, RemainderFacts
    <3> QED
      BY <3>1, <3>2 DEF h
  <2> DEFINE Wrap(i) == ((i - 1) % pos) + 1
  <2>2. \A i \in 1 .. n : Wrap(i) \in 1 .. n /\ (i <= pos => Wrap(i) = i)
    <3> TAKE i \in 1 .. n
    <3> DEFINE q == (i - 1) % pos
    <3>1. q \in 0 .. pos - 1 /\ (i <= pos => q = i - 1)
      BY <2>1
    <3> HIDE DEF q
    <3>2. q + 1 \in 1 .. n /\ (i <= pos => q + 1 = i)
      BY <1>5, <1>6, <3>1
    <3> QED
      BY <3>2 DEF q
  <2>3. w = [i \in 1 .. n |-> b[Wrap(i)]]
    OBVIOUS
  <2> HIDE DEF Wrap, w
  <2>4. \A i \in 1 .. n : b[Wrap(i)] \in Letters
    BY <1>2, <2>2
  <2>5. w \in [1 .. n -> Letters]
    BY <2>3, <2>4
  <2>6. w \in Seq(Letters) /\ Len(w) = n
    BY <2>5
  <2>7. \A k \in 1 .. n : k <= pos => w[k] = b[k]
    BY <2>2, <2>3
  <2> QED
    BY <1>2, <1>6, <2>6, <2>7 DEF m
<1> QED
  BY <1>3, <1>4, <1>6

LEMMA InsertStep ==
    ASSUME StringInv, Reads, NEW s \in Strings, NEW t \in Strings, NEW pos \in Nat,
           S!Insert(s, pos, t), Becomes(s, Spliced(S!Chars(s), pos, 0, S!Chars(t)))
    PROVE  StringInv'
<1> DEFINE z == S!Size(s)
           c == S!Chars(s)
           y == S!Chars(t)
           v == Spliced(c, pos, 0, y)
<1>1. /\ z \in Nat /\ c \in Seq(Letters) /\ Len(c) = z /\ (z # 0 => S!HasData(s))
  BY StringFacts DEF S!Size, S!HasData
<1>2. /\ S!Size(t) \in Nat /\ y \in Seq(Letters) /\ Len(y) = S!Size(t)
      /\ (S!Size(t) # 0 => S!HasData(t))
  BY StringFacts DEF S!Size, S!HasData
<1>3. pos <= z /\ Becomes(s, v) /\ flaw[t] \in S!Flaws /\ flaw[s] \in S!Flaws
  BY DEF S!Insert, StringInv, StringTypeOK
<1> HIDE DEF c, v
<1>4. CASE S!Size(t) = 0
  <2>1. y = <<>>
    BY <1>2, <1>4, EmptyText
  <2>2. UNCHANGED <<str, heap, flaw>>
    BY <1>4 DEF S!Insert
  <2>3. pos <= Len(c)
    BY <1>1, <1>3
  <2>4. v = c
    BY <1>1, <2>1, <2>3, SplicedEmpty DEF v
  <2> QED
    BY <1>3, <2>2, <2>4, StayStep DEF c
<1>5. CASE S!Size(t) # 0 /\ z = 0
  <2>1. S!Set(s, t)
    BY <1>5 DEF S!Insert
  <2>2. c = <<>> /\ pos = 0 /\ pos = Len(c)
    BY <1>1, <1>3, <1>5, EmptyText
  <2>3. v = c \o y
    BY <1>1, <1>2, <2>2, SplicedAtEnd DEF v
  <2>4. v = y
    <3> HIDE DEF y
    <3> QED
      BY <1>2, <2>2, <2>3, ConcatEmptySeq
  <2>5. v = value[t]
    BY <2>4 DEF Reads
  <2>6. /\ Moves(s, str[t]) /\ heap' = S!Retain(S!Release(heap, str[s].mData), str[t].mData)
        /\ Marks(s) /\ flaw'[s] = flaw[t] /\ (s = t => S!IsShared(s))
    BY <1>3, <2>1, MarksFacts DEF S!Set, Moves
  <2> QED
    BY <1>2, <1>3, <1>5, <2>5, <2>6, ShareStep
<1>6. CASE S!Size(t) # 0 /\ z # 0 /\ pos = z
  <2> DEFINE b == S!BytesOf(t)
             n == S!Size(t)
             f == IF s = t THEN "unterminated" ELSE flaw[t]
  <2>1. PICK x \in S!Found(s, pos, t) : S!AppendBytes(s, x) /\ S!Flawed(s, f)
    BY <1>6 DEF S!Insert
  <2>2. /\ b \in Seq(Letters) /\ n < Len(b) /\ \A k \in 1 .. n : b[k] = y[k]
        /\ flaw[t] = "none" => b[n + 1] = NUL
    BY <1>2, <1>6, TextFacts
  <2>3. f \in S!Flaws
    BY <1>3 DEF S!Flaws
  <2> HIDE DEF f
  <2>4. Marks(s) /\ flaw'[s] = f
    BY <2>1, <2>3, MarksFacts
  <2>5. v = c \o y
    BY <1>1, <1>2, <1>6, SplicedAtEnd DEF v
  <2>6. /\ x \in Seq(Letters) /\ Len(x) = n + 1
        /\ \A k \in 1 .. n + 1 : s # t \/ k <= pos => x[k] = b[k]
    <3>1. n + 1 \in Nat /\ n + 1 = IF pos = S!Size(s) THEN S!Size(t) + 1 ELSE S!Size(t)
      BY <1>2, <1>6
    <3> QED
      BY <1>2, <1>3, <1>6, <2>1, <3>1, FoundFacts
  <2> HIDE DEF b, n, y
  <2>7. Len(y) = n /\ n \in Nat /\ (s = t => n = pos)
    BY <1>2, <1>6 DEF n
  <2>8. \A k \in 1 .. Len(y) : x[k] = y[k]
    <3> TAKE k \in 1 .. Len(y)
    <3>1. k \in 1 .. n /\ k \in 1 .. n + 1 /\ (s # t \/ k <= pos)
      BY <2>7
    <3> QED
      BY <2>2, <2>6, <3>1
  <2>9. Len(y) <= Len(x) /\ Len(y) <= Len(y) /\ Len(y) \in Nat /\ Len(x) = Len(y) + 1
    BY <2>6, <2>7
  <2>10. SubSeq(x, 1, Len(y)) = SubSeq(y, 1, Len(y))
    BY <1>2, <2>6, <2>8, <2>9, SamePrefix
  <2>11. SubSeq(x, 1, Len(y)) = y
    BY <1>2, <2>10, WholeText
  <2>12. Becomes(s, S!Chars(s) \o y)
    BY <1>3, <2>5 DEF c
  <2>13. flaw'[s] = "none" => x[Len(x)] = NUL
    <3>1. n + 1 \in 1 .. n + 1
      BY <2>7
    <3> QED
      BY <2>2, <2>4, <2>6, <3>1 DEF f
  <2> QED
    BY <1>1, <1>2, <1>6, <2>1, <2>4, <2>6, <2>9, <2>11, <2>12, <2>13, AppendStep
<1>7. CASE S!Size(t) # 0 /\ z # 0 /\ pos # z
  <2>1. PICK x \in S!Found(s, pos, t) :
            S!InsertBytes(s, pos, x) /\ S!Flawed(s, IF x = y THEN flaw[s] ELSE "overlapped")
    BY <1>7 DEF S!Insert
  <2>2. x \in Seq(Letters)
    <3> DEFINE n == S!Size(t)
    <3>1. n \in Nat /\ n = IF pos = S!Size(s) THEN S!Size(t) + 1 ELSE S!Size(t)
      BY <1>2, <1>7
    <3> HIDE DEF n
    <3> QED
      BY <1>2, <1>3, <1>7, <2>1, <3>1, FoundFacts
  <2>3. v \in Seq(Letters)
    <3>1. pos + 0 <= Len(c)
      BY <1>1, <1>3
    <3> HIDE DEF y
    <3> QED
      BY <1>1, <1>2, <3>1, SplicedType DEF v
  <2>4. Marks(s) /\ flaw'[s] = IF x = y THEN flaw[s] ELSE "overlapped"
    <3> DEFINE f == IF x = y THEN flaw[s] ELSE "overlapped"
    <3>1. f \in S!Flaws /\ S!Flawed(s, f)
      BY <1>3, <2>1 DEF S!Flaws
    <3> HIDE DEF f
    <3>2. Marks(s) /\ flaw'[s] = f
      BY <3>1, MarksFacts
    <3> QED
      BY <3>2 DEF f
  <2>5. S!Spoiled(s)' \/ v = Spliced(S!Chars(s), pos, 0, x)
    BY <2>4 DEF v, c, S!Spoiled
  <2> HIDE DEF y
  <2>6. flaw'[s] = "none" => flaw[s] = "none"
    BY <2>4
  <2> QED
    BY <1>1, <1>2, <1>3, <1>7, <2>1, <2>2, <2>3, <2>4, <2>5, <2>6, InsertBytesStep
<1> QED
  BY <1>4, <1>5, <1>6, <1>7

LEMMA InsertCharsStep ==
    ASSUME StringInv, Reads, NEW s \in Strings, NEW x \in Seq(Letters), NEW pos \in Nat,
           S!InsertChars(s, pos, x),
           Becomes(s, Spliced(S!Chars(s), pos, 0, x))
    PROVE  StringInv'
<1> DEFINE z == S!Size(s)
           c == S!Chars(s)
           v == Spliced(c, pos, 0, x)
<1>1. /\ z \in Nat /\ c \in Seq(Letters) /\ Len(c) = z /\ (z # 0 => S!HasData(s))
  BY StringFacts DEF S!Size, S!HasData
<1>2. pos <= z
  BY DEF S!InsertChars
<1>3. Becomes(s, v)
  OBVIOUS
<1> HIDE DEF c, v
<1>4. CASE x = <<>>
  <2>1. UNCHANGED <<str, heap, flaw>>
    BY <1>4 DEF S!InsertChars
  <2>2. pos <= Len(c)
    BY <1>1, <1>2
  <2>3. v = c
    BY <1>1, <1>4, <2>2, SplicedEmpty DEF v
  <2> QED
    BY <1>3, <1>4, <2>1, <2>3, StayStep DEF c
<1>5. CASE x # <<>> /\ z = 0
  <2>1. S!SetChars(s, x)
    BY <1>5 DEF S!InsertChars
  <2>2. c = <<>> /\ pos = Len(c)
    BY <1>1, <1>2, <1>5, EmptyText
  <2>3. v = c \o x
    BY <1>1, <2>2, SplicedAtEnd DEF v
  <2>4. v = x
    BY <2>2, <2>3, ConcatEmptySeq
  <2> QED
    BY <1>3, <2>1, <2>4, SetCharsStep
<1>6. CASE x # <<>> /\ z # 0 /\ pos = z
  <2> DEFINE w == Append(x, NUL)
  <2>1. S!AppendBytes(s, w) /\ Marks(s)
    BY <1>6, MarksFacts DEF S!InsertChars, S!Terminated, S!Flaws
  <2>2. w \in Seq(Letters) /\ Len(w) = Len(x) + 1 /\ SubSeq(w, 1, Len(x)) = x /\ w[Len(w)] = NUL
    BY TerminatedFacts, LetterFacts
  <2> HIDE DEF w
  <2>3. v = c \o x
    BY <1>1, <1>6, SplicedAtEnd DEF v
  <2>4. Becomes(s, S!Chars(s) \o x)
    BY <1>3, <1>6, <2>3 DEF c
  <2> QED
    BY <1>1, <1>6, <2>1, <2>2, <2>4, AppendStep
<1>7. CASE x # <<>> /\ z # 0 /\ pos # z
  <2>1. S!InsertBytes(s, pos, x) /\ Marks(s) /\ flaw'[s] = flaw[s]
    BY <1>7, MarksFacts DEF S!InsertChars
  <2>2. v = Spliced(S!Chars(s), pos, 0, x)
    BY DEF c, v
  <2>3. v \in Seq(Letters)
    <3>1. pos + 0 <= Len(c)
      BY <1>1, <1>2
    <3> QED
      BY <1>1, <3>1, SplicedType DEF v
  <2> QED
    BY <1>1, <1>2, <1>3, <1>7, <2>1, <2>2, <2>3, InsertBytesStep
<1> QED
  BY <1>4, <1>5, <1>6, <1>7

\* What replace asks of the history variable.
ReplacedText(s, x, y) ==
    LET i == S!IndexOf(S!Chars(s), x) IN
    IF i < 0 THEN value' = value ELSE Becomes(s, Spliced(S!Chars(s), i, Len(x), y))

LEMMA ReplaceTextStep ==
    ASSUME StringInv, Reads, NEW s \in Strings, NEW x \in Seq(Letters), NEW y \in Seq(Letters),
           S!Replace(s, x, y), ReplacedText(s, x, y)
    PROVE  StringInv'
<1> DEFINE m == S!BytesOf(s)
           z == S!Size(s)
           c == S!Chars(s)
           i == S!IndexOf(c, x)
           n == z + (Len(y) - Len(x))
           e == IF n > z THEN S!Edit(s, n + 1) ELSE m
           rest == SubSeq(e, (i + Len(x)) + 1, z + 1)
           r == S!Put(S!Put(e, i + Len(y), rest), i, y)
<1>1. /\ S!HasData(s) /\ Len(x) <= z + Len(y) /\ m[z + 1] = NUL
      /\ Marks(s) /\ flaw'[s] = flaw[s]
  BY MarksFacts DEF S!Replace, S!IsTerminated
<1>2. /\ m \in Seq(Letters) /\ z \in Nat /\ z < Len(m) /\ c \in Seq(Letters) /\ Len(c) = z
      /\ \A k \in 1 .. z : m[k] = c[k]
  BY <1>1, TextFacts
<1>3. IF i < 0 THEN S!Store(s, Len(e), e, z) ELSE S!Store(s, Len(e), r, n)
  BY DEF S!Replace, S!EditSame
<1>4. IF i < 0 THEN value' = value ELSE Becomes(s, Spliced(c, i, Len(x), y))
  BY DEF ReplacedText
<1>5. ~(i < 0) => i \in Nat /\ i + Len(x) <= Len(c)
  BY <1>2, IndexOfFacts
<1> DEFINE lx == Len(x)
           ly == Len(y)
<1>6. lx \in Nat /\ ly \in Nat
  OBVIOUS
<1>7. n \in Nat /\ n + 1 \in Nat /\ (n > z => z <= n + 1)
  <2>1. z \in Nat /\ lx <= z + ly
    BY <1>1, <1>2
  <2> HIDE DEF z, lx, ly
  <2>2. n = z + (ly - lx)
    BY DEF lx, ly
  <2> HIDE DEF n
  <2> QED
    BY <1>6, <2>1, <2>2
<1>8. /\ e \in Seq(Letters) /\ z < Len(e) /\ n < Len(e)
      /\ \A k \in 1 .. z : e[k] = c[k]
      /\ e[z + 1] = NUL
  <2>1. CASE n > z
    <3> DEFINE f == S!Edit(s, n + 1)
    <3>1. z <= n + 1
      BY <1>7, <2>1
    <3>2. f \in Seq(Letters) /\ n + 1 <= Len(f) /\ (\A k \in 1 .. z : f[k] = c[k])
          /\ (z < n + 1 => f[z + 1] = m[z + 1])
      BY <1>1, <1>7, <3>1, EditFacts
    <3>3. e = f
      BY <2>1
    <3> HIDE DEF f, e, n, z, c
    <3>4. Len(f) \in Nat
      BY <3>2
    <3>5. z < Len(f) /\ n < Len(f) /\ z < n + 1
      BY <1>2, <1>7, <2>1, <3>2, <3>4
    <3> QED
      BY <1>1, <3>2, <3>3, <3>5
  <2>2. CASE ~(n > z)
    <3>1. e = m
      BY <2>2
    <3> HIDE DEF e, m, n, z, c
    <3>2. Len(m) \in Nat
      BY <1>2
    <3>3. n < Len(m)
      BY <1>2, <1>7, <2>2, <3>2
    <3> QED
      BY <1>1, <1>2, <3>1, <3>3
  <2> QED
    BY <2>1, <2>2
<1> HIDE DEF e, m, i
<1>9. CASE i < 0
  <2>1. S!Store(s, Len(e), e, z)
    BY <1>3, <1>9
  <2>2. Len(c) <= Len(e) /\ z <= Len(c)
    <3>1. Len(e) \in Nat
      BY <1>8
    <3> HIDE DEF z, c
    <3> QED
      BY <1>2, <1>8, <3>1
  <2>3. SubSeq(e, 1, z) = SubSeq(c, 1, z) /\ SubSeq(c, 1, z) = c
    <3> HIDE DEF z, c
    <3> QED
      BY <1>2, <1>8, <2>2, SamePrefix, WholeText
  <2>4. Becomes(s, c)
    BY <1>4, <1>9 DEF Becomes, Reads, StringInv, StringTypeOK
  <2> HIDE DEF z, c, n, r
  <2> QED
    BY <1>1, <1>2, <1>8, <2>1, <2>3, <2>4, StoreStep
<1>10. CASE ~(i < 0)
  <2>1. S!Store(s, Len(e), r, n) /\ Becomes(s, Spliced(S!Chars(s), i, Len(x), y))
    BY <1>3, <1>4, <1>10
  <2>2. i \in Nat /\ i + lx <= z
    BY <1>2, <1>5, <1>10
  <2>3. n = (z - lx) + ly /\ z + 1 <= Len(e) /\ (z - lx) + ly + 1 <= Len(e)
    <3>1. z \in Nat /\ Len(e) \in Nat /\ z < Len(e) /\ n < Len(e)
      BY <1>2, <1>8
    <3> HIDE DEF z, lx, ly
    <3>2. n = z + (ly - lx)
      BY DEF lx, ly
    <3> HIDE DEF n
    <3> QED
      BY <1>6, <1>7, <3>1, <3>2
  <2>4. S!Store(s, Len(e), r, (z - lx) + ly)
    <3> HIDE DEF r
    <3> QED
      BY <2>1, <2>3
  <2> HIDE DEF n
  <2> DEFINE v == Spliced(S!Chars(s), i, Len(x), y)
  <2>5. v \in Seq(Letters) /\ Becomes(s, v)
    <3>1. i + Len(x) <= Len(S!Chars(s)) /\ S!Chars(s) \in Seq(Letters)
      BY <1>2, <1>5, <1>10
    <3> QED
      BY <2>1, <2>2, <3>1, SplicedType
  <2>6. v = Spliced(S!Chars(s), i, Len(x), y)
    OBVIOUS
  <2> HIDE DEF v
  <2> QED
    BY <1>1, <1>6, <1>8, <2>2, <2>3, <2>4, <2>5, <2>6, SpliceStep
<1> QED
  BY <1>9, <1>10

LEMMA StringInit == ASSUME S!Init PROVE StringInv
<1>1. /\ str = [s \in Strings |-> [mData |-> NULL, mSize |-> 0]]
      /\ heap = [b \in Buffers |-> NULL]
      /\ value = [s \in Strings |-> <<>>]
      /\ flaw = [s \in Strings |-> "none"]
  BY DEF S!Init
<1>2. StringTypeOK
  BY <1>1 DEF StringTypeOK, Ends, Heaps, S!Flaws
<1>3. ASSUME NEW b \in Buffers
      PROVE  BufferInv(b)
  <2>1. S!Sharers(b) = {}
    BY <1>1, NullIsNoBuffer DEF S!Sharers
  <2> QED
    BY <1>1, <2>1 DEF BufferInv
<1>4. \A s \in Strings : RoomInv(s) /\ EndInv(s) /\ S!Chars(s) = <<>>
  BY <1>1 DEF RoomInv, EndInv, S!Chars, S!HasData
<1>5. SizesInv
  BY <1>1 DEF SizesInv
<1>6. TextInv
  BY <1>1, <1>4 DEF TextInv
<1> QED
  BY <1>2, <1>3, <1>4, <1>5, <1>6 DEF StringInv

(* What OwnedSequences says of a change. *)
LEMMA OwnFacts ==
    ASSUME NEW s, NEW i, NEW d, NEW y
    PROVE  /\ S!Own!Become(s, y) => Becomes(s, y)
           /\ S!Own!Splice(s, i, d, y) => Becomes(s, Spliced(value[s], i, d, y))
           /\ S!Own!Insert(s, i, y) => Becomes(s, Spliced(value[s], i, 0, y))
           /\ S!Own!Erase(s, i, d) => Becomes(s, Spliced(value[s], i, d, <<>>))
<1>1. \A v : S!Own!Become(s, v) => Becomes(s, v)
  BY DEF S!Own!Become, Becomes
<1>2. \A n, v : S!Own!Splice(s, i, n, v) => Becomes(s, Spliced(value[s], i, n, v))
  BY <1>1 DEF S!Own!Splice, Spliced
<1> QED
  BY <1>1, <1>2 DEF S!Own!Insert, S!Own!Erase

LEMMA WithFirstType ==
    ASSUME NEW A, "a" \in A, "A" \in A, NEW x \in Seq(A), NEW c \in A
    PROVE  /\ S!Lowered(x) \in Seq(A) /\ Len(S!Lowered(x)) = Len(x)
           /\ S!Raised(x) \in Seq(A) /\ Len(S!Raised(x)) = Len(x)
           /\ S!WithFirst(x, c) \in Seq(A) /\ Len(S!WithFirst(x, c)) = Len(x)
<1> DEFINE n == Len(x)
<1>1. n \in Nat /\ DOMAIN x = 1 .. n /\ \A i \in 1 .. n : x[i] \in A
  OBVIOUS
<1> HIDE DEF n
<1>2. \A k \in A : Lower(k) \in A /\ Upper(k) \in A
  BY DEF Lower, Upper
<1>3. S!Lowered(x) = [i \in 1 .. n |-> Lower(x[i])]
  BY <1>1 DEF S!Lowered
<1>4. S!Raised(x) = [i \in 1 .. n |-> Upper(x[i])]
  BY <1>1 DEF S!Raised
<1>5. S!Lowered(x) \in [1 .. n -> A] /\ S!Raised(x) \in [1 .. n -> A]
  BY <1>1, <1>2, <1>3, <1>4
<1>6. S!Lowered(x) \in Seq(A) /\ Len(S!Lowered(x)) = n
      /\ S!Raised(x) \in Seq(A) /\ Len(S!Raised(x)) = n
  BY <1>1, <1>5
<1>7. S!WithFirst(x, c) \in Seq(A) /\ Len(S!WithFirst(x, c)) = n
  BY DEF S!WithFirst, n
<1> QED
  BY <1>6, <1>7 DEF n

LEMMA WithFirstFacts ==
    ASSUME NEW x \in Seq(Letters), NEW c \in Letters
    PROVE  /\ S!Lowered(x) \in Seq(Letters) /\ Len(S!Lowered(x)) = Len(x)
           /\ S!Raised(x) \in Seq(Letters) /\ Len(S!Raised(x)) = Len(x)
           /\ S!WithFirst(x, c) \in Seq(Letters) /\ Len(S!WithFirst(x, c)) = Len(x)
  BY LetterFacts, WithFirstType

LEMMA ReadsFacts ==
    ASSUME StringInv, \A s \in Strings : ~S!Spoiled(s)
    PROVE  Reads
  BY DEF StringInv, TextInv, Reads

-----------------------------------------------------------------------------
LEMMA StringStep ==
    ASSUME StringInv, S!Next
    PROVE  StringInv'
<1>1. Reads
  BY ReadsFacts DEF S!Next
<1>2. \A s \in Strings : value[s] = S!Chars(s)
  BY <1>1 DEF Reads
<1>3. \A s \in Strings : S!Chars(s) \in Seq(Letters) /\ Len(S!Chars(s)) = S!Size(s) /\ S!Size(s) \in Nat
  BY StringFacts DEF S!Size
<1>4. PICK s \in Strings :
        \/ \E x \in Literals :
            \/ S!Construct(s, x) /\ S!Own!Become(s, x)
            \/ S!SetChars(s, x) /\ S!Own!Become(s, x)
            \/ \E y \in Literals : x # <<>> /\ S!Replace(s, x, y) /\ S!Replaced(s, x, y)
        \/ \E t \in Strings :
            \/ (S!CopyConstruct(s, t) \/ S!Set(s, t)) /\ S!Own!Become(s, value[t])
            \/ S!Swap(s, t) /\ value' = [value EXCEPT ![s] = value[t], ![t] = value[s]]
        \/ S!Clear(s) /\ S!Own!Become(s, <<>>)
        \/ \E pos \in 0 .. S!Size(s) :
            \/ \E t \in Strings : S!Insert(s, pos, t) /\ S!Own!Insert(s, pos, value[t])
            \/ \E x \in Literals : S!InsertChars(s, pos, x) /\ S!Own!Insert(s, pos, x)
            \/ \E n \in 1 .. S!Size(s) : S!Erase(s, pos, n) /\ S!Own!Erase(s, pos, n)
        \/ S!Trim(s) /\ S!Own!Become(s, S!Trimmed(value[s]))
        \/ S!Rewrite(s, S!Lowered(S!Chars(s))) /\ S!Own!Become(s, S!Lowered(value[s]))
        \/ S!Rewrite(s, S!Raised(S!Chars(s))) /\ S!Own!Become(s, S!Raised(value[s]))
        \/ \E c \in Spaces :
            S!Rewrite(s, S!WithFirst(S!Chars(s), c)) /\ S!Own!Become(s, S!WithFirst(value[s], c))
  BY DEF S!Next
<1>5. ASSUME NEW x \in Literals, S!Construct(s, x), S!Own!Become(s, x)
      PROVE  StringInv'
  BY <1>1, <1>5, OwnFacts, ConstructStringStep
<1>6. ASSUME NEW x \in Literals, S!SetChars(s, x), S!Own!Become(s, x)
      PROVE  StringInv'
  BY <1>1, <1>6, OwnFacts, LiteralsAreLetters, SetCharsStep
<1>7. ASSUME NEW x \in Literals, NEW y \in Literals, S!Replace(s, x, y), S!Replaced(s, x, y)
      PROVE  StringInv'
  <2>1. ReplacedText(s, x, y)
    BY <1>2, <1>7, OwnFacts DEF S!Replaced, ReplacedText
  <2> QED
    BY <1>1, <1>7, <2>1, LiteralsAreLetters, ReplaceTextStep
<1>8. ASSUME NEW t \in Strings, S!CopyConstruct(s, t), S!Own!Become(s, value[t])
      PROVE  StringInv'
  <2>1. /\ S!HasData(t) /\ s # t /\ str[s].mData = NULL
        /\ heap' = S!Retain(heap, str[t].mData) /\ Moves(s, str[t])
    BY <1>8 DEF S!CopyConstruct, S!HasData, Moves
  <2>4. Marks(s) /\ flaw'[s] = flaw[t]
    BY <1>8, MarksFacts DEF S!CopyConstruct, StringInv, StringTypeOK
  <2>2. S!Release(heap, str[s].mData) = heap
    BY <2>1 DEF S!Release
  <2>3. Becomes(s, value[t])
    BY <1>8, OwnFacts
  <2> QED
    BY <1>1, <2>1, <2>2, <2>3, <2>4, ShareStep
<1>9. ASSUME NEW t \in Strings, S!Set(s, t), S!Own!Become(s, value[t])
      PROVE  StringInv'
  <2>1. /\ S!HasData(t) /\ (s = t => S!IsShared(s)) /\ Moves(s, str[t])
        /\ heap' = S!Retain(S!Release(heap, str[s].mData), str[t].mData)
    BY <1>9 DEF S!Set, Moves
  <2>3. Marks(s) /\ flaw'[s] = flaw[t]
    BY <1>9, MarksFacts DEF S!Set, StringInv, StringTypeOK
  <2>2. Becomes(s, value[t])
    BY <1>9, OwnFacts
  <2> QED
    BY <1>1, <2>1, <2>2, <2>3, ShareStep
<1>10. ASSUME NEW t \in Strings, S!Swap(s, t),
              value' = [value EXCEPT ![s] = value[t], ![t] = value[s]]
       PROVE  StringInv'
  BY <1>1, <1>10, SwapStringStep
<1>11. ASSUME S!Clear(s), S!Own!Become(s, <<>>)
       PROVE  StringInv'
  BY <1>1, <1>11, OwnFacts, ClearStringStep
<1>12. ASSUME NEW pos \in 0 .. S!Size(s), NEW t \in Strings,
              S!Insert(s, pos, t), S!Own!Insert(s, pos, value[t])
       PROVE  StringInv'
  <2>1. pos \in Nat
    BY <1>3
  <2>2. Becomes(s, Spliced(S!Chars(s), pos, 0, S!Chars(t)))
    BY <1>2, <1>12, OwnFacts
  <2> QED
    BY <1>1, <1>12, <2>1, <2>2, InsertStep
<1>13. ASSUME NEW pos \in 0 .. S!Size(s), NEW x \in Literals, S!InsertChars(s, pos, x),
              S!Own!Insert(s, pos, x)
       PROVE  StringInv'
  <2>1. pos \in Nat /\ x \in Seq(Letters)
    BY <1>3, LiteralsAreLetters
  <2>2. Becomes(s, Spliced(S!Chars(s), pos, 0, x))
    BY <1>2, <1>13, OwnFacts
  <2> QED
    BY <1>1, <1>13, <2>1, <2>2, InsertCharsStep
<1>14. ASSUME NEW pos \in 0 .. S!Size(s), NEW n \in 1 .. S!Size(s),
              S!Erase(s, pos, n), S!Own!Erase(s, pos, n)
       PROVE  StringInv'
  <2>1. pos \in Nat /\ n \in Nat
    BY <1>3
  <2>2. Becomes(s, Spliced(S!Chars(s), pos, n, <<>>))
    BY <1>2, <1>14, OwnFacts
  <2> QED
    BY <1>1, <1>14, <2>1, <2>2, EraseStringStep
<1>15. ASSUME S!Trim(s), S!Own!Become(s, S!Trimmed(value[s]))
       PROVE  StringInv'
  <2>1. Becomes(s, S!Trimmed(S!Chars(s)))
    BY <1>2, <1>15, OwnFacts
  <2> QED
    BY <1>1, <1>15, <2>1, TrimStep
<1>16. ASSUME NEW v \in Seq(Letters), Len(v) = S!Size(s), S!Rewrite(s, v), Becomes(s, v)
       PROVE  StringInv'
  BY <1>1, <1>16, RewriteStep
<1>17. ASSUME S!Rewrite(s, S!Lowered(S!Chars(s))), S!Own!Become(s, S!Lowered(value[s]))
       PROVE  StringInv'
  <2>1. Becomes(s, S!Lowered(S!Chars(s)))
    BY <1>2, <1>17, OwnFacts
  <2>2. S!Lowered(S!Chars(s)) \in Seq(Letters) /\ Len(S!Lowered(S!Chars(s))) = S!Size(s)
    BY <1>3, LetterFacts, WithFirstFacts
  <2> QED
    BY <1>16, <1>17, <2>1, <2>2
<1>18. ASSUME S!Rewrite(s, S!Raised(S!Chars(s))), S!Own!Become(s, S!Raised(value[s]))
       PROVE  StringInv'
  <2>1. Becomes(s, S!Raised(S!Chars(s)))
    BY <1>2, <1>18, OwnFacts
  <2>2. S!Raised(S!Chars(s)) \in Seq(Letters) /\ Len(S!Raised(S!Chars(s))) = S!Size(s)
    BY <1>3, LetterFacts, WithFirstFacts
  <2> QED
    BY <1>16, <1>18, <2>1, <2>2
<1>19. ASSUME NEW c \in Spaces, S!Rewrite(s, S!WithFirst(S!Chars(s), c)),
              S!Own!Become(s, S!WithFirst(value[s], c))
       PROVE  StringInv'
  <2>1. Becomes(s, S!WithFirst(S!Chars(s), c))
    BY <1>2, <1>19, OwnFacts
  <2>2. /\ S!WithFirst(S!Chars(s), c) \in Seq(Letters)
        /\ Len(S!WithFirst(S!Chars(s), c)) = S!Size(s)
    BY <1>3, LetterFacts, WithFirstFacts
  <2> QED
    BY <1>16, <1>19, <2>1, <2>2
<1> QED
  BY <1>4, <1>5, <1>6, <1>7, <1>8, <1>9, <1>10, <1>11, <1>12, <1>13, <1>14, <1>15,
     <1>17, <1>18, <1>19

-----------------------------------------------------------------------------
(* What the client made of a string has no terminator in it. *)
Visible == LiteralLetters \cup Spaces \cup {"a", "A"}

VisibleInv == \A s \in Strings : value[s] \in Seq(Visible)

LEMMA VisibleFacts ==
    /\ NUL \notin Visible /\ "a" \in Visible /\ "A" \in Visible /\ Spaces \subseteq Visible
    /\ \A x \in Literals : x \in Seq(Visible)
<1>1. ASSUME NEW x \in Literals
      PROVE  x \in Seq(Visible)
  <2>1. x \in Seq({x[i] : i \in DOMAIN x}) /\ {x[i] : i \in DOMAIN x} \subseteq Visible
    BY StringAssumption DEF Visible, LiteralLetters
  <2>2. \A A : x \in Seq(A) => Len(x) \in Nat /\ x \in [1 .. Len(x) -> A]
    OBVIOUS
  <2>3. Len(x) \in Nat /\ x \in [1 .. Len(x) -> Visible]
    BY <2>1, <2>2
  <2> QED
    BY <2>3
<1> QED
  BY <1>1, StringAssumption DEF Visible

LEMMA VisibleInit == ASSUME S!Init PROVE VisibleInv
  BY DEF S!Init, VisibleInv

LEMMA VisibleChange ==
    ASSUME VisibleInv, StringInv, NEW s, NEW v \in Seq(Visible), Becomes(s, v)
    PROVE  VisibleInv'
  BY DEF VisibleInv, Becomes, StringInv, StringTypeOK

LEMMA VisibleSplice ==
    ASSUME VisibleInv, StringInv, NEW s \in Strings, NEW i \in Nat, NEW d \in Nat,
           NEW y \in Seq(Visible), i + d <= Len(value[s]), S!Own!Splice(s, i, d, y)
    PROVE  VisibleInv'
<1>1. value[s] \in Seq(Visible)
  BY DEF VisibleInv
<1>2. Spliced(value[s], i, d, y) \in Seq(Visible)
  BY <1>1, SplicedType
<1>3. Becomes(s, Spliced(value[s], i, d, y))
  BY OwnFacts
<1> QED
  BY <1>2, <1>3, VisibleChange

LEMMA VisibleStep ==
    ASSUME StringInv, VisibleInv, S!Next
    PROVE  VisibleInv'
<1>1. \A s \in Strings : value[s] = S!Chars(s)
  BY ReadsFacts DEF S!Next, Reads
<1>2. \A s \in Strings : value[s] \in Seq(Letters) /\ Len(value[s]) = S!Size(s) /\ S!Size(s) \in Nat
  BY <1>1, StringFacts DEF S!Size
<1>3. \A s \in Strings : value[s] \in Seq(Visible)
  BY DEF VisibleInv
<1>4. PICK s \in Strings :
        \/ \E x \in Literals :
            \/ S!Own!Become(s, x)
            \/ \E y \in Literals : S!Replaced(s, x, y)
        \/ \E t \in Strings :
            \/ S!Own!Become(s, value[t])
            \/ value' = [value EXCEPT ![s] = value[t], ![t] = value[s]]
        \/ S!Own!Become(s, <<>>)
        \/ \E pos \in 0 .. S!Size(s) :
            \/ \E t \in Strings : S!Own!Insert(s, pos, value[t])
            \/ \E x \in Literals : S!Own!Insert(s, pos, x)
            \/ \E n \in 1 .. S!Size(s) : S!Erase(s, pos, n) /\ S!Own!Erase(s, pos, n)
        \/ S!Own!Become(s, S!Trimmed(value[s]))
        \/ S!Own!Become(s, S!Lowered(value[s]))
        \/ S!Own!Become(s, S!Raised(value[s]))
        \/ \E c \in Spaces : S!Own!Become(s, S!WithFirst(value[s], c))
  BY DEF S!Next
<1>5. ASSUME NEW v \in Seq(Visible), S!Own!Become(s, v)
      PROVE  VisibleInv'
  BY <1>5, OwnFacts, VisibleChange
<1>6. ASSUME NEW x \in Literals, NEW y \in Literals, S!Replaced(s, x, y)
      PROVE  VisibleInv'
  <2> DEFINE i == S!IndexOf(value[s], x)
  <2>1. IF i < 0 THEN value' = value ELSE S!Own!Splice(s, i, Len(x), y)
    BY <1>6 DEF S!Replaced
  <2>2. CASE i < 0
    BY <2>1, <2>2 DEF VisibleInv
  <2>3. CASE ~(i < 0)
    <3>1. x \in Seq(Letters) /\ Len(x) \in Nat /\ y \in Seq(Visible)
      BY LiteralsAreLetters, VisibleFacts
    <3>2. i \in Nat /\ i + Len(x) <= Len(value[s])
      BY <1>2, <2>3, <3>1, IndexOfFacts
    <3>3. S!Own!Splice(s, i, Len(x), y)
      BY <2>1, <2>3
    <3> HIDE DEF i
    <3> QED
      BY <3>1, <3>2, <3>3, VisibleSplice
  <2> QED
    BY <2>2, <2>3
<1>7. ASSUME NEW t \in Strings, value' = [value EXCEPT ![s] = value[t], ![t] = value[s]]
      PROVE  VisibleInv'
  BY <1>3, <1>7 DEF VisibleInv, StringInv, StringTypeOK
<1>8. ASSUME NEW pos \in 0 .. S!Size(s), NEW y \in Seq(Visible), S!Own!Insert(s, pos, y)
      PROVE  VisibleInv'
  <2>1. pos \in Nat /\ 0 \in Nat /\ pos + 0 <= Len(value[s])
    BY <1>2
  <2>2. S!Own!Splice(s, pos, 0, y)
    BY <1>8 DEF S!Own!Insert
  <2> QED
    BY <2>1, <2>2, VisibleSplice
<1>9. ASSUME NEW pos \in 0 .. S!Size(s), NEW n \in 1 .. S!Size(s),
             S!Erase(s, pos, n), S!Own!Erase(s, pos, n)
      PROVE  VisibleInv'
  <2>1. pos \in Nat /\ n \in Nat /\ pos + n <= Len(value[s])
    BY <1>2, <1>9 DEF S!Erase
  <2>2. S!Own!Splice(s, pos, n, <<>>) /\ <<>> \in Seq(Visible)
    BY <1>9 DEF S!Own!Erase
  <2> QED
    BY <2>1, <2>2, VisibleSplice
<1>10. /\ \A x \in Literals : x \in Seq(Visible)
       /\ \A t \in Strings : value[t] \in Seq(Visible)
       /\ <<>> \in Seq(Visible) /\ S!Trimmed(value[s]) \in Seq(Visible)
       /\ S!Lowered(value[s]) \in Seq(Visible) /\ S!Raised(value[s]) \in Seq(Visible)
       /\ \A c \in Spaces : S!WithFirst(value[s], c) \in Seq(Visible)
  <2>1. "a" \in Visible /\ "A" \in Visible /\ Spaces \subseteq Visible
    BY VisibleFacts
  <2>2. value[s] \in Seq(Visible) /\ <<>> \in Seq(Visible)
    BY <1>3
  <2>3. S!Trimmed(value[s]) \in Seq(Visible)
    BY <2>2, TrimmedType
  <2>4. S!Lowered(value[s]) \in Seq(Visible) /\ S!Raised(value[s]) \in Seq(Visible)
    BY <2>1, <2>2, WithFirstType
  <2>5. \A c \in Spaces : S!WithFirst(value[s], c) \in Seq(Visible)
    BY <2>1, <2>2, WithFirstType
  <2> QED
    BY <1>3, <2>2, <2>3, <2>4, <2>5, VisibleFacts
<1> QED
  BY <1>4, <1>5, <1>6, <1>7, <1>8, <1>9, <1>10

(* c_str() of a buffer whose first terminator is the one behind the characters. *)
LEMMA CStringFacts ==
    ASSUME StringInv, VisibleInv, NEW s \in Strings, S!HasData(s), flaw[s] = "none"
    PROVE  S!CString(s) = value[s]
<1> DEFINE m == S!BytesOf(s)
           z == S!Size(s)
           ends == {i \in DOMAIN m : m[i] = NUL}
<1>1. /\ m \in Seq(Letters) /\ z \in Nat /\ z < Len(m) /\ Len(m) \in Nat
      /\ m[z + 1] = NUL /\ Len(S!Chars(s)) = z
      /\ \A k \in 1 .. z : m[k] = S!Chars(s)[k]
  BY TextFacts
<1>2. S!Chars(s) = value[s]
  BY DEF StringInv, TextInv, S!Spoiled
<1>3. \A k \in 1 .. z : m[k] # NUL
  <2>1. value[s] \in Seq(Visible) /\ Len(value[s]) = z
    BY <1>1, <1>2 DEF VisibleInv
  <2>2. \A k \in 1 .. z : value[s][k] \in Visible
    BY <2>1
  <2> HIDE DEF m, z
  <2> QED
    BY <1>1, <1>2, <2>2, VisibleFacts
<1>4. S!CString(s) = IF ends = {} THEN m ELSE SubSeq(m, 1, S!Least(ends) - 1)
  BY DEF S!CString
<1>5. S!Chars(s) = SubSeq(m, 1, z)
  BY DEF S!Chars
<1> HIDE DEF m, z
<1>6. z + 1 \in ends /\ \A i \in ends : z + 1 <= i
  BY <1>1, <1>3
<1>7. ends \subseteq Nat
  BY <1>1
<1> HIDE DEF ends
<1>8. S!Least(ends) = z + 1
  <2>1. \A j \in ends : z + 1 <= j
    BY <1>6
  <2>2. \A i \in ends : (\A j \in ends : i <= j) => i = z + 1
    BY <1>1, <1>6, <1>7
  <2>3. S!Least(ends) \in ends /\ \A j \in ends : S!Least(ends) <= j
    BY <1>6 DEF S!Least
  <2> QED
    BY <2>2, <2>3
<1>9. S!Least(ends) - 1 = z /\ ends # {}
  BY <1>1, <1>6, <1>8
<1> QED
  BY <1>2, <1>4, <1>5, <1>9

-----------------------------------------------------------------------------
LEMMA StringCardinality == \A T : S!Cardinality(T) = Cardinality(T)
  BY DEF S!Cardinality, Cardinality

LEMMA StringsAreRight ==
    ASSUME StringInv, VisibleInv
    PROVE  S!HoldsWhatItShould /\ S!BuffersAreSound
<1>1. S!HoldsWhatItShould
  BY CStringFacts DEF StringInv, TextInv, S!HoldsWhatItShould
<1>2. ASSUME NEW b \in Buffers
      PROVE  IF heap[b] = NULL THEN S!Sharers(b) = {}
             ELSE /\ Len(heap[b].bytes) = heap[b].mSize
                  /\ heap[b].refs = S!Cardinality(S!Sharers(b)) /\ S!Sharers(b) # {}
                  /\ \A s \in S!Sharers(b) : S!Size(s) < heap[b].mSize
  <2>1. BufferInv(b)
    BY DEF StringInv
  <2>2. CASE heap[b] = NULL
    BY <2>1, <2>2 DEF BufferInv
  <2>3. CASE heap[b] # NULL
    <3>1. /\ Len(heap[b].bytes) = heap[b].mSize /\ S!Sharers(b) # {}
          /\ heap[b].refs = S!Cardinality(S!Sharers(b))
      BY <2>1, <2>3, StringCardinality DEF BufferInv
    <3>2. ASSUME NEW s \in S!Sharers(b)
          PROVE  S!Size(s) < heap[b].mSize
      <4>1. s \in Strings /\ str[s].mData = b /\ str[s].mData # NULL
        BY NullIsNoBuffer DEF S!Sharers
      <4> QED
        BY <3>1, <4>1 DEF StringInv, RoomInv, S!Size
    <3> QED
      BY <2>3, <3>1, <3>2
  <2> QED
    BY <2>2, <2>3
<1>3. S!BuffersAreSound
  BY <1>2 DEF S!BuffersAreSound
<1> QED
  BY <1>1, <1>3

\* A string reads what its own operations made of it until one of them spoils
\* it, its terminator follows unless set or append left it out, and its buffer
\* counts those that have it.
THEOREM StringInvariance == MCSpec => [](scenario = "strings" => StringInv /\ VisibleInv)
<1>1. MCInit => (scenario = "strings" => StringInv /\ VisibleInv)
  BY StringInit, VisibleInit DEF MCInit
<1>2. (scenario = "strings" => StringInv /\ VisibleInv) /\ [MCNext]_mcVars
        => (scenario = "strings" => StringInv /\ VisibleInv)'
  <2> SUFFICES ASSUME scenario = "strings", StringInv, VisibleInv, [MCNext]_mcVars
               PROVE  StringInv' /\ VisibleInv'
    BY DEF MCNext, mcVars
  <2>1. CASE MCNext
    BY <2>1, StringStep, VisibleStep DEF MCNext
  <2>2. CASE UNCHANGED mcVars
    <3>1. UNCHANGED <<str, heap, value, flaw>>
      BY <2>2 DEF mcVars, stringVars
    <3> QED
      BY <3>1, StringsStay DEF VisibleInv
  <2> QED
    BY <2>1, <2>2
<1> QED
  BY <1>1, <1>2, PTL DEF MCSpec

\* Copies of a string keep their text when one of them is edited, but for a set
\* in place and an insert of a string into itself; c_str() ends where it should,
\* but for what set and append leave unterminated; and no edit of String.cpp
\* writes past the buffer it has asked for.
THEOREM StringsKeepText == MCSpec => []StringsKeepTheirText
<1>1. (scenario = "strings" => StringInv /\ VisibleInv) => StringsKeepTheirText
  BY StringsAreRight DEF StringsKeepTheirText
<1> QED
  BY <1>1, StringInvariance, PTL
=============================================================================
