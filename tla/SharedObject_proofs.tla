------------------------- MODULE SharedObject_proofs -------------------------
(***************************************************************************)
(* Theorems about SharedObject for all sets of threads, slots and objects. *)
(***************************************************************************)
EXTENDS SharedObject, FiniteSetTheorems, TLAPS

\* What an sp points to is alive; the sp of an object that is not is empty.
NoDangling ==
    /\ \A p \in Pointers : mShared[p] # NULL => mShared[p] \in live
    /\ \A o \in Objects \ live : mShared[o] = NULL

IsRelease(f) == f.op \in {"release", "dec"}
IsDelete(f) == f.op \in {"delete", "free"}

\* An sp is released by the thread that owns it, or that deletes the object it
\* is in, on the way to the assignment or to the end of the deletion.
ReleaseOK(t, i) ==
    LET f == stack[t][i] IN
    /\ i = 1 /\ mShared[f.at] # NULL
    /\ f.at \in Slots =>
        /\ owner[f.at] = t
        /\ \A j \in DOMAIN stack[t] : stack[t][j].op = "set" => stack[t][j].at = f.at
    /\ f.at \in Objects =>
        /\ 2 \in DOMAIN stack[t]
        /\ stack[t][2].op = "free" /\ stack[t][2].at = f.at

\* What will be set or freed is empty, or is being released just now.
ReleasedNext(t, i) ==
    mShared[stack[t][i].at] # NULL =>
        i = 2 /\ IsRelease(stack[t][1]) /\ stack[t][1].at = stack[t][2].at

\* An assignment is the outermost call.
SetOK(t, i) ==
    LET f == stack[t][i] IN
    /\ i = Len(stack[t])
    /\ owner[f.at] = t
    /\ ReleasedNext(t, i)
    /\ f.src.kind = "raw" => f.src.at \in Objects
    /\ f.src.kept /\ f.src.at \in Objects =>
        \E w \in Slots \ {f.at} : owner[w] = t /\ mShared[w] = f.src.at

DeleteOK(t, i) ==
    LET f == stack[t][i] IN
    /\ f.at \in live /\ mRefs[f.at] = 0
    /\ f.op = "delete" => i = 1
    /\ f.op = "free" => ReleasedNext(t, i)

FrameOK(t, i) ==
    /\ IsRelease(stack[t][i]) => ReleaseOK(t, i)
    /\ stack[t][i].op = "set" => SetOK(t, i)
    /\ IsDelete(stack[t][i]) => DeleteOK(t, i)

FramesInv == \A t \in Threads : \A i \in DOMAIN stack[t] : FrameOK(t, i)

\* The i-th call of t deletes o.
Deletes(t, i, o) == IsDelete(stack[t][i]) /\ stack[t][i].at = o

\* A live object with a count of zero is being deleted, and by one call.
DeletedInv ==
    /\ \A o \in live : mRefs[o] = 0 =>
        \E t \in Threads : \E i \in DOMAIN stack[t] : Deletes(t, i, o)
    /\ \A o \in Objects : \A t, u \in Threads : \A i \in DOMAIN stack[t], j \in DOMAIN stack[u] :
        Deletes(t, i, o) /\ Deletes(u, j, o) => t = u /\ i = j

SharedObjectInv ==
    /\ TypeOK
    /\ NoDangling
    /\ CountsMatch
    /\ FramesInv
    /\ DeletedInv

-----------------------------------------------------------------------------
(* What a frame is, and which frames there are. *)
LEMMA FrameFacts ==
    /\ \A f \in Frames :
        /\ f.op \in {"release", "dec", "delete", "free", "set"}
        /\ f.at \in Pointers
        /\ IsDelete(f) => f.at \in Objects
        /\ f.op = "set" => f.at \in Slots /\ f.src \in Sources
    /\ \A p \in Pointers :
        [op |-> "release", at |-> p] \in Frames /\ [op |-> "dec", at |-> p] \in Frames
    /\ \A o \in Objects :
        [op |-> "delete", at |-> o] \in Frames /\ [op |-> "free", at |-> o] \in Frames
    /\ \A v \in Slots, src \in Sources :
        [op |-> "set", at |-> v, src |-> src] \in Frames
  BY DEF Frames, Pointers, IsDelete

(* What is left of a stack whose first frame is replaced. *)
LEMMA Replaced ==
    ASSUME NEW S, NEW s \in Seq(S), s # <<>>, NEW fs \in Seq(S),
           NEW r, r = fs \o Tail(s)
    PROVE  /\ r \in Seq(S)
           /\ Len(r) = Len(fs) + Len(s) - 1
           /\ \A i \in DOMAIN fs : i \in DOMAIN r /\ r[i] = fs[i]
           /\ \A i \in DOMAIN r : i > Len(fs) =>
                /\ i - Len(fs) + 1 \in DOMAIN s /\ i - Len(fs) + 1 > 1
                /\ r[i] = s[i - Len(fs) + 1]
           /\ \A i \in DOMAIN s : i > 1 =>
                /\ i + Len(fs) - 1 \in DOMAIN r /\ i + Len(fs) - 1 > Len(fs)
                /\ r[i + Len(fs) - 1] = s[i]
<1>0. Len(s) \in Nat /\ DOMAIN s = 1 .. Len(s) /\ Len(fs) \in Nat /\ DOMAIN fs = 1 .. Len(fs)
  OBVIOUS
<1>1. /\ Tail(s) \in Seq(S) /\ Len(Tail(s)) = Len(s) - 1
      /\ \A i \in 1 .. Len(s) - 1 : Tail(s)[i] = s[i + 1]
  OBVIOUS
<1>2. /\ r \in Seq(S) /\ Len(r) = Len(fs) + Len(Tail(s))
      /\ \A i \in 1 .. Len(r) : r[i] = IF i <= Len(fs) THEN fs[i] ELSE Tail(s)[i - Len(fs)]
      /\ DOMAIN r = 1 .. Len(r)
  BY <1>0, <1>1
<1>3. Len(r) = Len(fs) + Len(s) - 1
  BY <1>0, <1>1, <1>2
<1>4. ASSUME NEW i \in DOMAIN fs
      PROVE  i \in DOMAIN r /\ r[i] = fs[i]
  BY <1>0, <1>1, <1>2
<1>5. ASSUME NEW i \in DOMAIN r, i > Len(fs)
      PROVE  /\ i - Len(fs) + 1 \in DOMAIN s /\ i - Len(fs) + 1 > 1
             /\ r[i] = s[i - Len(fs) + 1]
  <2>1. i - Len(fs) \in 1 .. Len(s) - 1
    BY <1>0, <1>2, <1>3, <1>5
  <2> QED
    BY <1>0, <1>1, <1>2, <1>5, <2>1
<1>6. ASSUME NEW i \in DOMAIN s, i > 1
      PROVE  /\ i + Len(fs) - 1 \in DOMAIN r /\ i + Len(fs) - 1 > Len(fs)
             /\ r[i + Len(fs) - 1] = s[i]
  <2>1. i - 1 \in 1 .. Len(s) - 1 /\ i + Len(fs) - 1 \in 1 .. Len(r)
    BY <1>0, <1>3, <1>6
  <2>2. (i + Len(fs) - 1) - Len(fs) = i - 1 /\ (i - 1) + 1 = i
    BY <1>0, <1>6
  <2> QED
    BY <1>0, <1>1, <1>2, <1>6, <2>1, <2>2, SMTT(30)
<1> QED
  BY <1>2, <1>3, <1>4, <1>5, <1>6

(* The number of sps that point to an object, when one sp changes. *)
LEMMA HoldersChange ==
    ASSUME TypeOK, NEW p \in Pointers, NEW x,
           mShared' = [mShared EXCEPT ![p] = x], NEW o \in Objects
    PROVE  /\ x = o /\ mShared[p] # o =>
                Cardinality(Holders(o)') = Cardinality(Holders(o)) + 1
           /\ x # o /\ mShared[p] = o =>
                Cardinality(Holders(o)') = Cardinality(Holders(o)) - 1
           /\ x # o /\ mShared[p] # o =>
                Cardinality(Holders(o)') = Cardinality(Holders(o))
<1>1. IsFiniteSet(Pointers)
  BY SharedObjectAssumption, FS_Union DEF Pointers
<1>2. Holders(o) \in SUBSET Pointers
  BY DEF Holders
<1>3. IsFiniteSet(Holders(o)) /\ (p \in Holders(o) <=> mShared[p] = o)
  BY <1>1, <1>2, FS_Subset DEF Holders
<1>4. CASE x = o
  <2>1. Holders(o)' = Holders(o) \cup {p}
    BY <1>4 DEF Holders, TypeOK
  <2> QED
    BY <1>3, <1>4, <2>1, FS_AddElement
<1>5. CASE x # o
  <2>1. Holders(o)' = Holders(o) \ {p}
    BY <1>5 DEF Holders, TypeOK
  <2>2. Cardinality(Holders(o) \ {p})
            = IF p \in Holders(o) THEN Cardinality(Holders(o)) - 1 ELSE Cardinality(Holders(o))
    BY <1>3, FS_RemoveElement
  <2> QED
    BY <1>3, <1>5, <2>1, <2>2
<1> QED
  BY <1>4, <1>5

(* An object that an sp points to is counted. *)
LEMMA HeldIsCounted ==
    ASSUME TypeOK, NoDangling, CountsMatch, NEW p \in Pointers, mShared[p] # NULL
    PROVE  mShared[p] \in live /\ mRefs[mShared[p]] \in Nat \ {0}
<1>1. mShared[p] \in live /\ mShared[p] \in Objects
  BY DEF NoDangling, TypeOK
<1>2. IsFiniteSet(Pointers) /\ Holders(mShared[p]) \in SUBSET Pointers
  BY SharedObjectAssumption, FS_Union DEF Pointers, Holders
<1>3. IsFiniteSet(Holders(mShared[p]))
  BY <1>2, FS_Subset
<1>4. p \in Holders(mShared[p])
  BY DEF Holders
<1>5. Cardinality(Holders(mShared[p])) # 0
  BY <1>3, <1>4, FS_EmptySet
<1> QED
  BY <1>1, <1>3, <1>5, FS_CardinalityType DEF CountsMatch, TypeOK

(* The stacks, and the innermost call of a thread that is in one. *)
LEMMA StackFacts ==
    ASSUME TypeOK, NEW t \in Threads
    PROVE  /\ stack[t] \in Seq(Frames)
           /\ DOMAIN stack[t] = 1 .. Len(stack[t]) /\ Len(stack[t]) \in Nat
           /\ \A i \in DOMAIN stack[t] : stack[t][i] \in Frames
           /\ ~Idle(t) => 1 \in DOMAIN stack[t] /\ Top(t) = stack[t][1]
           /\ Idle(t) => DOMAIN stack[t] = {}
<1>1. stack[t] \in Seq(Frames)
  BY DEF TypeOK
<1>2. /\ DOMAIN stack[t] = 1 .. Len(stack[t]) /\ Len(stack[t]) \in Nat
      /\ \A i \in DOMAIN stack[t] : stack[t][i] \in Frames
  BY <1>1
<1>3. ~Idle(t) => Len(stack[t]) # 0 /\ Top(t) = stack[t][1]
  BY <1>1 DEF Idle, Top
<1> QED
  BY <1>1, <1>2, <1>3 DEF Idle

(* What a thread's step leaves of the stacks. *)
LEMMA ReplaceFacts ==
    ASSUME TypeOK, NEW t \in Threads, ~Idle(t), NEW fs \in Seq(Frames), Replace(t, fs)
    PROVE  /\ stack' \in [Threads -> Seq(Frames)]
           /\ \A u \in Threads \ {t} : stack'[u] = stack[u]
           /\ Len(stack'[t]) = Len(fs) + Len(stack[t]) - 1
           /\ \A i \in DOMAIN fs : i \in DOMAIN stack'[t] /\ stack'[t][i] = fs[i]
           /\ \A i \in DOMAIN stack'[t] : i > Len(fs) =>
                /\ i - Len(fs) + 1 \in DOMAIN stack[t] /\ i - Len(fs) + 1 > 1
                /\ stack'[t][i] = stack[t][i - Len(fs) + 1]
           /\ \A i \in DOMAIN stack[t] : i > 1 =>
                /\ i + Len(fs) - 1 \in DOMAIN stack'[t] /\ i + Len(fs) - 1 > Len(fs)
                /\ stack'[t][i + Len(fs) - 1] = stack[t][i]
<1> DEFINE r == fs \o Tail(stack[t])
<1>1. stack' = [stack EXCEPT ![t] = r] /\ stack[t] \in Seq(Frames) /\ stack[t] # <<>>
  BY DEF Replace, TypeOK, Idle
<1>2. stack'[t] = r /\ \A u \in Threads \ {t} : stack'[u] = stack[u]
  BY <1>1 DEF TypeOK
<1> HIDE DEF r
<1>3. stack' \in [Threads -> Seq(Frames)]
  <2>1. r \in Seq(Frames)
    BY <1>1, Replaced DEF r
  <2> QED
    BY <1>1, <2>1 DEF TypeOK
<1>4. /\ Len(r) = Len(fs) + Len(stack[t]) - 1
      /\ \A i \in DOMAIN fs : i \in DOMAIN r /\ r[i] = fs[i]
      /\ \A i \in DOMAIN r : i > Len(fs) =>
            /\ i - Len(fs) + 1 \in DOMAIN stack[t] /\ i - Len(fs) + 1 > 1
            /\ r[i] = stack[t][i - Len(fs) + 1]
      /\ \A i \in DOMAIN stack[t] : i > 1 =>
            /\ i + Len(fs) - 1 \in DOMAIN r /\ i + Len(fs) - 1 > Len(fs)
            /\ r[i + Len(fs) - 1] = stack[t][i]
  BY <1>1, Replaced, SMTT(30) DEF r
<1> QED
  BY <1>2, <1>3, <1>4

(* Short sequences. *)
LEMMA ShortSequences ==
    ASSUME NEW S
    PROVE  /\ <<>> \in Seq(S) /\ Len(<<>>) = 0 /\ DOMAIN <<>> = {}
           /\ \A a \in S :
                <<a>> \in Seq(S) /\ Len(<<a>>) = 1 /\ DOMAIN <<a>> = {1} /\ <<a>>[1] = a
           /\ \A a, b \in S :
                /\ <<a, b>> \in Seq(S) /\ Len(<<a, b>>) = 2 /\ DOMAIN <<a, b>> = {1, 2}
                /\ <<a, b>>[1] = a /\ <<a, b>>[2] = b
  OBVIOUS

(* One call, and two, put on an empty stack. *)
LEMMA Appended ==
    ASSUME NEW S, NEW a \in S, NEW b \in S, NEW r
    PROVE  /\ r = Append(<<>>, a) =>
                r \in Seq(S) /\ Len(r) = 1 /\ DOMAIN r = {1} /\ r[1] = a
           /\ r = Append(<<a>>, b) =>
                r \in Seq(S) /\ Len(r) = 2 /\ DOMAIN r = {1, 2} /\ r[1] = a /\ r[2] = b
<1>1. <<>> \in Seq(S) /\ <<a>> \in Seq(S) /\ Len(<<a>>) = 1
  BY ShortSequences
<1>2. ASSUME r = Append(<<>>, a)
      PROVE  r \in Seq(S) /\ Len(r) = 1 /\ DOMAIN r = {1} /\ r[1] = a
  BY <1>1, <1>2
<1>3. ASSUME r = Append(<<a>>, b)
      PROVE  r \in Seq(S) /\ Len(r) = 2 /\ DOMAIN r = {1, 2} /\ r[1] = a /\ r[2] = b
  BY <1>1, <1>3
<1> QED
  BY <1>2, <1>3

(* Releasing a reference: the count goes down with the sp, to zero when the *)
(* deletion begins.                                                         *)
LEMMA ReleaseDecStep ==
    ASSUME SharedObjectInv, NEW t \in Threads, ReleaseDec(t)
    PROVE  SharedObjectInv'
<1> DEFINE p == Top(t).at
           o == mShared[p]
           fs == IF mRefs[o] = 1 THEN <<[op |-> "delete", at |-> o]>> ELSE <<>>
<1>1. /\ ~Idle(t) /\ stack[t][1].op = "dec" /\ p = stack[t][1].at /\ p \in Pointers
      /\ 1 \in DOMAIN stack[t]
  BY StackFacts, FrameFacts DEF ReleaseDec, Steps, SharedObjectInv
<1>2. FrameOK(t, 1) /\ IsRelease(stack[t][1]) /\ ReleaseOK(t, 1)
  BY <1>1 DEF SharedObjectInv, FramesInv, FrameOK, IsRelease
<1>3. o # NULL /\ o \in Objects /\ o \in live /\ mRefs[o] \in Nat \ {0}
  BY <1>1, <1>2, HeldIsCounted DEF SharedObjectInv, ReleaseOK, TypeOK
<1>4. /\ fs \in Seq(Frames) /\ Len(fs) = (IF mRefs[o] = 1 THEN 1 ELSE 0)
      /\ \A i \in DOMAIN fs : mRefs[o] = 1 /\ i = 1 /\ fs[i] = [op |-> "delete", at |-> o]
      /\ mRefs[o] = 1 => 1 \in DOMAIN fs
  <2>1. [op |-> "delete", at |-> o] \in Frames
    BY <1>3, FrameFacts
  <2> QED
    BY <2>1, ShortSequences
<1>5. /\ mRefs' = [mRefs EXCEPT ![o] = @ - 1]
      /\ mShared' = [mShared EXCEPT ![p] = NULL]
      /\ owner' = owner /\ live' = live /\ Replace(t, fs)
  BY DEF ReleaseDec
<1> HIDE DEF p, o, fs
<1>6. /\ stack' \in [Threads -> Seq(Frames)]
      /\ \A u \in Threads \ {t} : stack'[u] = stack[u]
      /\ Len(stack'[t]) = Len(fs) + Len(stack[t]) - 1
      /\ \A i \in DOMAIN fs : i \in DOMAIN stack'[t] /\ stack'[t][i] = fs[i]
      /\ \A i \in DOMAIN stack'[t] : i > Len(fs) =>
            /\ i - Len(fs) + 1 \in DOMAIN stack[t] /\ i - Len(fs) + 1 > 1
            /\ stack'[t][i] = stack[t][i - Len(fs) + 1]
      /\ \A i \in DOMAIN stack[t] : i > 1 =>
            /\ i + Len(fs) - 1 \in DOMAIN stack'[t] /\ i + Len(fs) - 1 > Len(fs)
            /\ stack'[t][i + Len(fs) - 1] = stack[t][i]
  BY <1>1, <1>4, <1>5, ReplaceFacts DEF SharedObjectInv
<1>7. TypeOK'
  BY <1>1, <1>3, <1>5, <1>6 DEF SharedObjectInv, TypeOK
<1>8. NoDangling'
  BY <1>1, <1>3, <1>5 DEF SharedObjectInv, NoDangling, TypeOK
<1>9. CountsMatch'
  <2> SUFFICES ASSUME NEW q \in live
               PROVE  mRefs'[q] = Cardinality(Holders(q)')
    BY <1>5 DEF CountsMatch
  <2>1. q \in Objects /\ mRefs[q] = Cardinality(Holders(q)) /\ NULL \notin Objects
    BY SharedObjectAssumption DEF SharedObjectInv, CountsMatch, TypeOK
  <2>2. mRefs'[q] = IF q = o THEN mRefs[q] - 1 ELSE mRefs[q]
    BY <1>5, <2>1 DEF SharedObjectInv, TypeOK
  <2>3. Cardinality(Holders(q)') = IF mShared[p] = q THEN Cardinality(Holders(q)) - 1
                                                     ELSE Cardinality(Holders(q))
    <3>1. /\ TypeOK /\ p \in Pointers /\ q \in Objects /\ NULL \in Objects \cup {NULL}
          /\ mShared' = [mShared EXCEPT ![p] = NULL]
      BY <1>1, <1>5, <2>1 DEF SharedObjectInv
    <3>2. NULL # q
      BY <2>1
    <3> QED
      BY <3>1, <3>2, HoldersChange
  <2> QED
    BY <2>1, <2>2, <2>3 DEF o
<1>10. FramesInv'
  <2> SUFFICES ASSUME NEW u \in Threads, NEW i \in DOMAIN stack'[u]
               PROVE  FrameOK(u, i)'
    BY DEF FramesInv
  <2>0. /\ \A q \in Pointers \ {p} : mShared'[q] = mShared[q]
        /\ mShared'[p] = NULL
    BY <1>1, <1>5 DEF SharedObjectInv, TypeOK
  <2>1. CASE u # t
    <3>1. stack'[u] = stack[u] /\ FrameOK(u, i)
      BY <1>6, <2>1 DEF SharedObjectInv, FramesInv
    <3>2. stack[u][i] \in Frames
      BY <1>6, <2>1, StackFacts DEF SharedObjectInv
    <3>3. ASSUME IsRelease(stack[u][i])
          PROVE  ReleaseOK(u, i)'
      <4>1. ReleaseOK(u, i)
        BY <3>1, <3>3 DEF FrameOK
      <4>2. stack[u][i].at # p
        <5>1. CASE p \in Slots
          BY <1>1, <1>2, <2>1, <4>1, <5>1 DEF ReleaseOK
        <5>2. CASE p \in Objects
          <6>1. ASSUME stack[u][i].at = p
                PROVE  FALSE
            <7>1. 2 \in DOMAIN stack[t] /\ Deletes(t, 2, p)
              BY <1>1, <1>2, <5>2 DEF ReleaseOK, Deletes, IsDelete
            <7>2. 2 \in DOMAIN stack[u] /\ Deletes(u, 2, p)
              BY <4>1, <5>2, <6>1 DEF ReleaseOK, Deletes, IsDelete
            <7> QED
              BY <2>1, <5>2, <7>1, <7>2 DEF SharedObjectInv, DeletedInv
          <6> QED
            BY <6>1
        <5> QED
          BY <1>1, <5>1, <5>2 DEF Pointers
      <4> QED
        BY <1>5, <2>0, <3>1, <3>2, <4>1, <4>2, FrameFacts DEF ReleaseOK
    <3>4. ASSUME stack[u][i].op = "set"
          PROVE  SetOK(u, i)'
      <4>1. SetOK(u, i) /\ stack[u][i].at \in Pointers
        BY <3>1, <3>2, <3>4, FrameFacts DEF FrameOK
      <4>2. ReleasedNext(u, i)'
        BY <2>0, <3>1, <4>1 DEF SetOK, ReleasedNext, IsRelease
      <4>3. \A w \in Slots : owner[w] = u => w \in Pointers /\ w # p
        BY <1>1, <1>2, <2>1 DEF ReleaseOK, Pointers
      <4> QED
        BY <1>5, <2>0, <3>1, <4>1, <4>2, <4>3 DEF SetOK
    <3>5. ASSUME IsDelete(stack[u][i])
          PROVE  DeleteOK(u, i)'
      <4>1. DeleteOK(u, i) /\ stack[u][i].at \in Objects /\ stack[u][i].at \in Pointers
        BY <3>1, <3>2, <3>5, FrameFacts DEF FrameOK
      <4>2. mRefs'[stack[u][i].at] = 0
        BY <1>3, <1>5, <4>1 DEF DeleteOK, SharedObjectInv, TypeOK
      <4> QED
        BY <1>5, <2>0, <3>1, <4>1, <4>2 DEF DeleteOK, ReleasedNext, IsRelease
    <3> QED
      BY <3>1, <3>3, <3>4, <3>5 DEF FrameOK, IsRelease, IsDelete
  <2>2. CASE u = t /\ i \in DOMAIN fs
    <3>1. stack'[u][i] = fs[i] /\ fs[i] = [op |-> "delete", at |-> o] /\ i = 1 /\ mRefs[o] = 1
      BY <1>4, <1>6, <2>2, Zenon
    <3>2. mRefs'[o] = 0
      BY <1>3, <1>5, <3>1 DEF SharedObjectInv, TypeOK
    <3> QED
      BY <1>3, <1>5, <3>1, <3>2 DEF FrameOK, DeleteOK, IsRelease, IsDelete
  <2>3. CASE u = t /\ i > Len(fs)
    <3> DEFINE j == i - Len(fs) + 1
    <3>1. /\ j \in DOMAIN stack[t] /\ j > 1 /\ stack'[t][i] = stack[t][j]
          /\ stack[t][j] \in Frames
      BY <1>6, <2>3, StackFacts DEF SharedObjectInv
    <3>2. /\ Len(fs) \in Nat /\ i \in Nat /\ Len(stack[t]) \in Nat
          /\ j = Len(stack[t]) => i = Len(stack'[t])
      <4>1. stack'[t] \in Seq(Frames) /\ DOMAIN stack'[t] = 1 .. Len(stack'[t])
        BY <1>6
      <4>2. Len(fs) \in Nat /\ Len(stack[t]) \in Nat /\ i \in Nat
        BY <1>4, <2>3, <4>1, StackFacts DEF SharedObjectInv
      <4> QED
        BY <1>6, <4>2
    <3> HIDE DEF j
    <3>3. FrameOK(t, j)
      BY <3>1 DEF SharedObjectInv, FramesInv
    <3>4. ~IsRelease(stack[t][j])
      BY <3>1, <3>3 DEF FrameOK, ReleaseOK
    <3>5. ReleasedNext(t, j) => ReleasedNext(t, i)'
      BY <1>1, <2>0, <3>1, FrameFacts DEF ReleasedNext
    <3>6. ASSUME stack[t][j].op = "set"
          PROVE  SetOK(t, i)'
      <4>1. SetOK(t, j)
        BY <3>3, <3>6 DEF FrameOK
      <4>2. p \in Slots => stack[t][j].at = p
        BY <1>1, <1>2, <3>1, <3>6 DEF ReleaseOK
      <4> QED
        BY <1>5, <2>0, <3>1, <3>2, <3>5, <4>1, <4>2 DEF SetOK, Pointers
    <3>7. ASSUME IsDelete(stack[t][j])
          PROVE  DeleteOK(t, i)'
      <4>1. DeleteOK(t, j) /\ stack[t][j].at \in Objects
        BY <3>1, <3>3, <3>7, FrameFacts DEF FrameOK
      <4>2. mRefs'[stack[t][j].at] = 0
        BY <1>3, <1>5, <4>1 DEF DeleteOK, SharedObjectInv, TypeOK
      <4> QED
        BY <1>5, <3>1, <3>5, <4>1, <4>2 DEF DeleteOK
    <3> QED
      BY <2>3, <3>1, <3>4, <3>6, <3>7 DEF FrameOK, IsRelease, IsDelete
  <2> QED
    BY <1>4, <1>6, <2>1, <2>2, <2>3, ShortSequences
<1>11. DeletedInv'
  <2>0. /\ mRefs'[o] = mRefs[o] - 1
        /\ \A q \in Objects \ {o} : mRefs'[q] = mRefs[q]
        /\ ~\E u \in Threads : \E i \in DOMAIN stack[u] : Deletes(u, i, o)
    <3>1. ASSUME NEW u \in Threads, NEW i \in DOMAIN stack[u], Deletes(u, i, o)
          PROVE  FALSE
      BY <1>3, <3>1 DEF SharedObjectInv, FramesInv, FrameOK, DeleteOK, Deletes
    <3> QED
      BY <1>3, <1>5, <3>1 DEF SharedObjectInv, TypeOK
  <2>1. ASSUME NEW q \in live, mRefs'[q] = 0
        PROVE  \E u \in Threads : \E i \in DOMAIN stack'[u] : Deletes(u, i, q)'
    <3>1. CASE q = o
      <4>1. mRefs[o] = 1
        BY <1>3, <2>0, <2>1, <3>1
      <4>2. 1 \in DOMAIN stack'[t] /\ stack'[t][1] = [op |-> "delete", at |-> o]
        BY <1>4, <1>6, <4>1
      <4> QED
        BY <3>1, <4>2 DEF Deletes, IsDelete
    <3>2. CASE q # o
      <4>0. PICK u \in Threads : \E i \in DOMAIN stack[u] : Deletes(u, i, q)
        BY <2>0, <2>1, <3>2 DEF SharedObjectInv, DeletedInv, TypeOK
      <4>1. PICK i \in DOMAIN stack[u] : Deletes(u, i, q)
        BY <4>0
      <4>2. CASE u # t
        BY <1>6, <4>1, <4>2 DEF Deletes
      <4>3. CASE u = t
        <5>1. i > 1
          BY <1>1, <4>1, <4>3, StackFacts DEF SharedObjectInv, Deletes, IsDelete
        <5> QED
          BY <1>6, <4>1, <4>3, <5>1 DEF Deletes
      <4> QED
        BY <4>2, <4>3
    <3> QED
      BY <3>1, <3>2
  <2>2. ASSUME NEW q \in Objects, NEW u \in Threads, NEW i \in DOMAIN stack'[u],
               Deletes(u, i, q)'
        PROVE  \/ q = o /\ u = t /\ i = 1
               \/ /\ q # o /\ i \in Int
                  /\ \E j \in DOMAIN stack[u] :
                        Deletes(u, j, q) /\ j = IF u = t THEN i - Len(fs) + 1 ELSE i
    <3>0. i \in Int /\ Len(fs) \in Nat /\ DOMAIN fs = 1 .. Len(fs)
      <4>1. Len(fs) \in Nat /\ DOMAIN fs = 1 .. Len(fs)
        BY <1>4
      <4>2. stack'[u] \in Seq(Frames)
        BY <1>7 DEF TypeOK
      <4>3. i \in Int
        BY <4>2
      <4> QED
        BY <4>1, <4>3
    <3>1. CASE u # t
      BY <1>6, <2>0, <2>2, <3>0, <3>1 DEF Deletes
    <3>2. CASE u = t /\ i \in DOMAIN fs
      <4>1. stack'[t][i] = [op |-> "delete", at |-> o] /\ i = 1
        BY <1>4, <1>6, <3>2, Zenon
      <4> QED
        BY <2>2, <3>2, <4>1 DEF Deletes
    <3>3. CASE u = t /\ i > Len(fs)
      BY <1>6, <2>0, <2>2, <3>0, <3>3 DEF Deletes
    <3> QED
      BY <1>6, <3>0, <3>1, <3>2, <3>3
  <2>3. ASSUME NEW q \in Objects, NEW u \in Threads, NEW w \in Threads,
               NEW i \in DOMAIN stack'[u], NEW j \in DOMAIN stack'[w],
               Deletes(u, i, q)', Deletes(w, j, q)'
        PROVE  u = w /\ i = j
    <3>1. CASE q = o
      BY <2>2, <2>3, <3>1
    <3>2. CASE q # o
      <4>1. PICK i0 \in DOMAIN stack[u] :
                Deletes(u, i0, q) /\ i0 = IF u = t THEN i - Len(fs) + 1 ELSE i
        BY <2>2, <2>3, <3>2
      <4>2. PICK j0 \in DOMAIN stack[w] :
                Deletes(w, j0, q) /\ j0 = IF w = t THEN j - Len(fs) + 1 ELSE j
        BY <2>2, <2>3, <3>2
      <4>3. u = w /\ i0 = j0
        BY <4>1, <4>2 DEF SharedObjectInv, DeletedInv
      <4>4. i \in Int /\ j \in Int /\ Len(fs) \in Int
        BY <1>4, <2>2, <2>3, <3>2
      <4> QED
        BY <4>1, <4>2, <4>3, <4>4
    <3> QED
      BY <3>1, <3>2
  <2> QED
    BY <1>5, <2>1, <2>3 DEF DeletedInv, Deletes
<1> QED
  BY <1>7, <1>8, <1>9, <1>10, <1>11 DEF SharedObjectInv

-----------------------------------------------------------------------------
(* An empty sp that comes to point to a live object adds one to the number of *)
(* sps that do, and one to the count.                                         *)
LEMMA RetainCounts ==
    ASSUME SharedObjectInv, NEW p \in Pointers, NEW o \in live, mShared[p] = NULL,
           p \in live \cup Slots, live' = live,
           mShared' = [mShared EXCEPT ![p] = o], mRefs' = RetainObject(o)
    PROVE  NoDangling' /\ CountsMatch'
<1>1. /\ TypeOK /\ NoDangling /\ CountsMatch /\ o \in Objects /\ NULL \notin Objects
      /\ o # NULL /\ Slots \cap Objects = {}
  BY SharedObjectAssumption DEF SharedObjectInv, TypeOK
<1>2. NoDangling'
  BY <1>1 DEF NoDangling, TypeOK
<1>3. ASSUME NEW q \in live
      PROVE  mRefs'[q] = Cardinality(Holders(q)')
  <2>1. /\ q \in Objects /\ q # NULL /\ mRefs[q] = Cardinality(Holders(q))
        /\ o \in Objects \cup {NULL}
    BY <1>1 DEF CountsMatch, TypeOK
  <2>2. Cardinality(Holders(q)') = IF o = q THEN Cardinality(Holders(q)) + 1
                                             ELSE Cardinality(Holders(q))
    <3>1. /\ TypeOK /\ mShared' = [mShared EXCEPT ![p] = o]
          /\ mShared[p] = NULL /\ mShared[p] # q
      BY <1>1, <2>1
    <3> QED
      BY <2>1, <3>1, HoldersChange, ZenonT(30)
  <2>3. mRefs'[q] = IF o = q THEN mRefs[q] + 1 ELSE mRefs[q]
    BY <1>1, <2>1 DEF RetainObject, TypeOK
  <2> QED
    BY <2>1, <2>2, <2>3
<1> QED
  BY <1>2, <1>3 DEF CountsMatch

(* Nothing that another thread is in the middle of changes when a thread makes *)
(* one of its empty sps, or the empty sp of an object it holds, point to an    *)
(* object, and is then in no call.                                             *)
LEMMA IdleSetFrames ==
    ASSUME SharedObjectInv, NEW t \in Threads,
           NEW p \in Pointers, mShared[p] = NULL,
           p \in Slots => owner[p] = t, p \in Objects => mRefs[p] # 0,
           NEW o \in Objects, mShared' = [mShared EXCEPT ![p] = o],
           o \in live => mRefs[o] # 0,
           \A q \in Objects \ {o} : mRefs'[q] = mRefs[q],
           \A q \in live : q \in live', UNCHANGED owner,
           DOMAIN stack'[t] = {}, \A u \in Threads : u # t => stack'[u] = stack[u]
    PROVE  FramesInv'
<1> SUFFICES ASSUME NEW u \in Threads, u # t, NEW i \in DOMAIN stack[u], stack'[u] = stack[u]
             PROVE  FrameOK(u, i)'
  BY DEF FramesInv
<1>1. FrameOK(u, i) /\ stack[u][i] \in Frames
  BY StackFacts DEF SharedObjectInv, FramesInv
<1>2. /\ \A q \in Pointers \ {p} : mShared'[q] = mShared[q]
      /\ NULL \notin Objects /\ Pointers = Slots \cup Objects
  BY SharedObjectAssumption DEF SharedObjectInv, TypeOK, Pointers
<1>3. ASSUME IsRelease(stack[u][i])
      PROVE  ReleaseOK(u, i)'
  BY <1>1, <1>2, <1>3, FrameFacts DEF FrameOK, ReleaseOK
<1>4. ASSUME stack[u][i].op = "set"
      PROVE  SetOK(u, i)'
  <2>1. SetOK(u, i) /\ stack[u][i].at \in Slots \ {p}
    BY <1>1, <1>4, FrameFacts DEF FrameOK, SetOK
  <2>2. ReleasedNext(u, i)'
    BY <1>2, <2>1 DEF SetOK, ReleasedNext, IsRelease
  <2>3. \A w \in Slots : owner[w] = u => w \in Pointers \ {p}
    BY <1>1, <1>2
  <2> QED
    BY <1>2, <2>1, <2>2, <2>3 DEF SetOK
<1>5. ASSUME IsDelete(stack[u][i])
      PROVE  DeleteOK(u, i)'
  <2>1. DeleteOK(u, i) /\ stack[u][i].at \in Objects \ {o, p}
    BY <1>1, <1>5, FrameFacts DEF FrameOK, DeleteOK
  <2> QED
    BY <1>2, <2>1 DEF DeleteOK, ReleasedNext, IsRelease
<1> QED
  BY <1>1, <1>3, <1>4, <1>5 DEF FrameOK, IsRelease, IsDelete

(* sp<T> v(w), and the sp of an object that is being set up. *)
LEMMA CopyAttachStep ==
    ASSUME SharedObjectInv, NEW t \in Threads, NEW v \in Slots, NEW w \in Slots,
           CopyConstruct(t, v, w) \/ Attach(t, v, w)
    PROVE  SharedObjectInv'
<1> DEFINE o == mShared[w]
           p == IF CopyConstruct(t, v, w) THEN v ELSE mShared[v]
<1>1. Idle(t) /\ owner[v] = t /\ UNCHANGED <<owner, live, stack>>
  BY DEF CopyConstruct, Attach
<1>2. v \in Pointers /\ w \in Pointers /\ Slots \cap Objects = {}
  BY SharedObjectAssumption DEF Pointers
<1>3. o # NULL /\ o \in live /\ mRefs[o] \in Nat \ {0} /\ o \in Objects
  BY <1>2, HeldIsCounted DEF CopyConstruct, Attach, SharedObjectInv, TypeOK
<1>4. /\ p \in Pointers /\ mShared[p] = NULL /\ p \in live \cup Slots
      /\ p \in Slots => owner[p] = t
      /\ p \in Objects => mRefs[p] # 0
      /\ mShared' = [mShared EXCEPT ![p] = o] /\ mRefs' = RetainObject(o)
  <2>1. CASE CopyConstruct(t, v, w)
    BY <1>2, <2>1 DEF CopyConstruct
  <2>2. CASE ~CopyConstruct(t, v, w)
    <3>1. /\ p = mShared[v] /\ p # NULL /\ mRefs[p] = 1 /\ mShared[p] = NULL
          /\ mShared' = [mShared EXCEPT ![p] = o] /\ mRefs' = RetainObject(o)
      BY <2>2 DEF Attach
    <3>2. p \in live /\ p \in Objects
      BY <1>2, <3>1, HeldIsCounted DEF SharedObjectInv, TypeOK
    <3> QED
      BY <1>2, <3>1, <3>2 DEF Pointers
  <2> QED
    BY <2>1, <2>2
<1> HIDE DEF o, p
<1>5. /\ mRefs'[o] = mRefs[o] + 1
      /\ \A q \in Objects \ {o} : mRefs'[q] = mRefs[q]
      /\ mRefs' \in [Objects -> Nat]
  <2>1. o # NULL /\ mRefs \in [Objects -> Nat]
    BY <1>3 DEF SharedObjectInv, TypeOK
  <2> QED
    BY <1>3, <1>4, <2>1 DEF RetainObject
<1>6. TypeOK'
  BY <1>1, <1>3, <1>4, <1>5 DEF SharedObjectInv, TypeOK
<1>7. NoDangling' /\ CountsMatch'
  BY <1>1, <1>3, <1>4, RetainCounts
<1>8. FramesInv'
  BY <1>1, <1>3, <1>4, <1>5, IdleSetFrames, StackFacts DEF SharedObjectInv
<1>9. DeletedInv'
  <2>1. \A q \in live : mRefs'[q] = 0 => mRefs[q] = 0
    BY <1>3, <1>5 DEF SharedObjectInv, TypeOK
  <2> QED
    BY <1>1, <2>1 DEF SharedObjectInv, DeletedInv, Deletes
<1> QED
  BY <1>6, <1>7, <1>8, <1>9 DEF SharedObjectInv

(* sp<T> v = new T *)
LEMMA NewObjectStep ==
    ASSUME SharedObjectInv, NEW t \in Threads, NEW v \in Slots, NewObject(t, v)
    PROVE  SharedObjectInv'
<1>1. /\ Idle(t) /\ owner[v] = t /\ mShared[v] = NULL /\ UNCHANGED <<owner, stack>>
      /\ v \in Pointers /\ Slots \cap Objects = {} /\ NULL \notin Objects
  BY SharedObjectAssumption DEF NewObject, Pointers
<1>2. PICK o \in Objects \ live :
        /\ live' = live \cup {o}
        /\ mShared' = [mShared EXCEPT ![v] = o, ![o] = NULL]
        /\ mRefs' = [mRefs EXCEPT ![o] = 1]
  BY DEF NewObject
<1>3. /\ live' = live \cup {o} /\ mShared' = [mShared EXCEPT ![v] = o]
      /\ mShared[o] = NULL /\ o \in Pointers
      /\ \A p \in Pointers : mShared[p] # o
  <2>1. mShared[o] = NULL /\ o \in Pointers /\ o # v /\ o # NULL
    BY <1>1 DEF SharedObjectInv, NoDangling, Pointers
  <2>2. \A p \in Pointers : mShared[p] # o
    BY <2>1 DEF SharedObjectInv, NoDangling
  <2> QED
    BY <1>1, <1>2, <2>1, <2>2 DEF SharedObjectInv, TypeOK
<1>4. /\ mRefs' \in [Objects -> Nat]
      /\ mRefs'[o] = 1 /\ \A q \in Objects \ {o} : mRefs'[q] = mRefs[q]
  BY <1>2 DEF SharedObjectInv, TypeOK
<1>5. TypeOK'
  BY <1>1, <1>3, <1>4 DEF SharedObjectInv, TypeOK
<1>6. NoDangling'
  <2>1. mShared'[v] = o /\ \A p \in Pointers : p # v => mShared'[p] = mShared[p]
    BY <1>1, <1>3 DEF SharedObjectInv, TypeOK
  <2>2. \A q \in Objects \ live' : q \in Objects \ live /\ q \in Pointers \ {v}
    BY <1>1, <1>2 DEF Pointers
  <2>3. \A q \in Objects \ live' : mShared'[q] = NULL
    BY <2>1, <2>2 DEF SharedObjectInv, NoDangling
  <2>4. ASSUME NEW q \in Pointers, mShared'[q] # NULL
        PROVE  mShared'[q] \in live'
    <3>1. CASE q = v
      BY <1>2, <2>1, <3>1
    <3>2. CASE q # v
      BY <1>3, <2>1, <2>4, <3>2 DEF SharedObjectInv, NoDangling
    <3> QED
      BY <3>1, <3>2
  <2> QED
    BY <2>3, <2>4 DEF NoDangling
<1>7. CountsMatch'
  <2> SUFFICES ASSUME NEW q \in live'
               PROVE  mRefs'[q] = Cardinality(Holders(q)')
    BY DEF CountsMatch
  <2>1. q \in Objects /\ q # NULL
    BY <1>1, <1>2 DEF SharedObjectInv, TypeOK
  <2>2. Cardinality(Holders(q)') = IF o = q THEN Cardinality(Holders(q)) + 1
                                             ELSE Cardinality(Holders(q))
    BY <1>1, <1>3, <2>1, HoldersChange, ZenonT(30) DEF SharedObjectInv
  <2>3. CASE q = o
    <3>1. Holders(o) = {}
      BY <1>3 DEF Holders
    <3> QED
      BY <1>4, <2>2, <2>3, <3>1, FS_EmptySet
  <2>4. CASE q # o
    BY <1>2, <1>4, <2>1, <2>2, <2>4 DEF SharedObjectInv, CountsMatch
  <2> QED
    BY <2>3, <2>4
<1>8. FramesInv'
  <2>1. /\ v \notin Objects /\ o \in Objects /\ o \notin live
        /\ DOMAIN stack'[t] = {} /\ \A u \in Threads : u # t => stack'[u] = stack[u]
    BY <1>1, StackFacts DEF SharedObjectInv
  <2> QED
    BY <1>1, <1>3, <1>4, <2>1, IdleSetFrames
<1>9. DeletedInv'
  <2>1. \A q \in live' : mRefs'[q] = 0 => q \in live /\ mRefs[q] = 0
    BY <1>2, <1>4 DEF SharedObjectInv, TypeOK
  <2> QED
    BY <1>1, <2>1 DEF SharedObjectInv, DeletedInv, Deletes
<1> QED
  BY <1>5, <1>6, <1>7, <1>8, <1>9 DEF SharedObjectInv

(* A task is queued by one thread and popped by another. *)
LEMMA HandOverStep ==
    ASSUME SharedObjectInv, NEW t \in Threads, NEW v \in Slots, NEW u \in Threads,
           HandOver(t, v, u)
    PROVE  SharedObjectInv'
<1>1. /\ Idle(t) /\ owner[v] = t /\ owner' = [owner EXCEPT ![v] = u]
      /\ UNCHANGED <<mShared, mRefs, live, stack>>
  BY DEF HandOver
<1>2. TypeOK' /\ NoDangling' /\ CountsMatch' /\ DeletedInv'
  BY <1>1 DEF SharedObjectInv, TypeOK, NoDangling, CountsMatch, Holders, DeletedInv, Deletes
<1>3. FramesInv'
  <2> SUFFICES ASSUME NEW s \in Threads, NEW i \in DOMAIN stack[s]
               PROVE  FrameOK(s, i)'
    BY <1>1 DEF FramesInv
  <2>1. s # t /\ FrameOK(s, i) /\ stack[s][i] \in Frames
    BY <1>1, StackFacts DEF SharedObjectInv, FramesInv
  <2>2. \A w \in Slots : owner[w] = s => owner'[w] = s
    BY <1>1, <2>1 DEF SharedObjectInv, TypeOK
  <2> QED
    BY <1>1, <2>1, <2>2, FrameFacts
       DEF FrameOK, ReleaseOK, SetOK, DeleteOK, ReleasedNext, IsRelease, IsDelete
<1> QED
  BY <1>2, <1>3 DEF SharedObjectInv

-----------------------------------------------------------------------------
(* A step that only changes one thread's stack has only that stack to answer *)
(* for.                                                                      *)
LEMMA StackChange ==
    ASSUME SharedObjectInv, NEW t \in Threads, UNCHANGED <<owner, mShared, mRefs, live>>,
           stack' \in [Threads -> Seq(Frames)],
           \A u \in Threads : u # t => stack'[u] = stack[u],
           \A i \in DOMAIN stack'[t] : FrameOK(t, i)',
           \A o \in Objects :
               (\E i \in DOMAIN stack[t] : Deletes(t, i, o))
                   => \E i \in DOMAIN stack'[t] : Deletes(t, i, o)',
           \A o \in Objects : \A i \in DOMAIN stack'[t] : Deletes(t, i, o)' =>
               /\ \E j \in DOMAIN stack[t] : Deletes(t, j, o)
               /\ \A k \in DOMAIN stack'[t] : Deletes(t, k, o)' => i = k
    PROVE  SharedObjectInv'
<1>1. TypeOK' /\ NoDangling' /\ CountsMatch'
  BY DEF SharedObjectInv, TypeOK, NoDangling, CountsMatch, Holders
<1>2. ASSUME NEW u \in Threads, u # t
      PROVE  /\ stack'[u] = stack[u]
             /\ \A i \in DOMAIN stack[u] : FrameOK(u, i)'
             /\ \A i \in DOMAIN stack[u], o \in Objects : Deletes(u, i, o)' <=> Deletes(u, i, o)
  <2>1. stack'[u] = stack[u]
    BY <1>2
  <2>2. ASSUME NEW i \in DOMAIN stack[u]
        PROVE  FrameOK(u, i)'
    <3>1. FrameOK(u, i)
      BY DEF SharedObjectInv, FramesInv
    <3> QED
      BY <2>1, <3>1
         DEF FrameOK, ReleaseOK, SetOK, DeleteOK, ReleasedNext, IsRelease, IsDelete
  <2> QED
    BY <2>1, <2>2 DEF Deletes
<1>3. FramesInv'
  BY <1>2 DEF FramesInv
<1>4. DeletedInv'
  <2>1. ASSUME NEW o \in live, mRefs[o] = 0
        PROVE  \E u \in Threads : \E i \in DOMAIN stack'[u] : Deletes(u, i, o)'
    <3>1. o \in Objects /\ \E u \in Threads : \E i \in DOMAIN stack[u] : Deletes(u, i, o)
      BY <2>1 DEF SharedObjectInv, DeletedInv, TypeOK
    <3>2. PICK u \in Threads : \E i \in DOMAIN stack[u] : Deletes(u, i, o)
      BY <3>1
    <3> QED
      BY <1>2, <3>1, <3>2
  <2>2. ASSUME NEW o \in Objects, NEW u \in Threads, NEW w \in Threads,
               NEW i \in DOMAIN stack'[u], NEW j \in DOMAIN stack'[w],
               Deletes(u, i, o)', Deletes(w, j, o)'
        PROVE  u = w /\ i = j
    <3>1. \E k \in DOMAIN stack[u] : Deletes(u, k, o) /\ (u # t => k = i)
      BY <1>2, <2>2
    <3>2. \E k \in DOMAIN stack[w] : Deletes(w, k, o) /\ (w # t => k = j)
      BY <1>2, <2>2, SMTT(30)
    <3>3. u = w /\ (u # t => i = j)
      BY <3>1, <3>2 DEF SharedObjectInv, DeletedInv
    <3> QED
      BY <2>2, <3>3
  <2> QED
    BY <2>1, <2>2 DEF DeletedInv, Deletes
<1> QED
  BY <1>1, <1>3, <1>4 DEF SharedObjectInv

(* v = ..., ~sp() and clear() begin. *)
LEMMA CallStep ==
    ASSUME SharedObjectInv, NEW t \in Threads, NEW v \in Slots,
           AssignAny(t, v) \/ Drop(t, v)
    PROVE  SharedObjectInv'
<1>1. /\ Idle(t) /\ owner[v] = t /\ UNCHANGED <<owner, mShared, mRefs, live>>
      /\ v \in Pointers /\ Slots \cap Objects = {} /\ DOMAIN stack[t] = {}
  BY SharedObjectAssumption, StackFacts DEF AssignAny, Assign, Drop, Pointers, SharedObjectInv
<1>2. [op |-> "release", at |-> v] \in Frames
  BY <1>1, FrameFacts
<1>3. CASE Drop(t, v)
  <2>1. /\ stack' = [stack EXCEPT ![t] = <<[op |-> "release", at |-> v]>>] /\ mShared[v] # NULL
    BY <1>3 DEF Drop, ClearCalls
  <2>2. /\ stack' \in [Threads -> Seq(Frames)]
        /\ \A u \in Threads : u # t => stack'[u] = stack[u]
        /\ DOMAIN stack'[t] = {1} /\ stack'[t][1] = [op |-> "release", at |-> v]
    BY <1>2, <2>1, ShortSequences DEF SharedObjectInv, TypeOK
  <2>3. \A i \in DOMAIN stack'[t] : FrameOK(t, i)'
    BY <1>1, <2>1, <2>2 DEF FrameOK, ReleaseOK, IsRelease, IsDelete
  <2>4. \A o \in Objects : \A i \in DOMAIN stack'[t] : ~Deletes(t, i, o)'
    BY <2>2 DEF Deletes, IsDelete
  <2> QED
    BY <1>1, <2>2, <2>3, <2>4, StackChange
<1>4. CASE AssignAny(t, v)
  <2>1. PICK kind \in {"sp", "raw"}, at \in Pointers :
            Assign(t, v, kind, at) /\ (kind = "raw" => at \in Objects)
    <3>1. PICK w \in Slots :
            /\ owner[w] = t
            /\ \/ Assign(t, v, "sp", w)
               \/ mShared[w] # NULL /\ Assign(t, v, "sp", mShared[w])
               \/ mShared[w] # NULL /\ Assign(t, v, "raw", mShared[w])
      BY <1>4 DEF AssignAny
    <3>2. w \in Pointers /\ (mShared[w] # NULL => mShared[w] \in Objects /\ mShared[w] \in Pointers)
      BY DEF SharedObjectInv, TypeOK, Pointers
    <3> QED
      BY <3>1, <3>2
  <2> DEFINE kept == at \in Slots \/ \E w \in Slots \ {v} : owner[w] = t /\ mShared[w] = at
             src == [kind |-> kind, at |-> at, kept |-> kept]
             f == [op |-> "set", at |-> v, src |-> src]
             fs == Append(ClearCalls(v), f)
  <2>2. stack' = [stack EXCEPT ![t] = fs]
    BY <2>1 DEF Assign
  <2>3. f \in Frames /\ f.op = "set" /\ f.at = v /\ f.src = src
    <3>1. src \in Sources
      BY DEF Sources
    <3> QED
      BY <3>1, FrameFacts
  <2>4. src.kind = kind /\ src.at = at /\ src.kept = kept
    OBVIOUS
  <2> HIDE DEF kept, src, f
  <2> DEFINE r == [op |-> "release", at |-> v]
  <2>5. /\ mShared[v] = NULL => fs = Append(<<>>, f)
        /\ mShared[v] # NULL => fs = Append(<<r>>, f)
    BY DEF ClearCalls
  <2>6. r \in Frames /\ r.op = "release" /\ r.at = v
    BY <1>2
  <2> HIDE DEF fs, r
  <2>7. CASE mShared[v] = NULL
    <3>1. /\ stack' \in [Threads -> Seq(Frames)]
          /\ \A u \in Threads : u # t => stack'[u] = stack[u]
          /\ DOMAIN stack'[t] = {1} /\ Len(stack'[t]) = 1 /\ stack'[t][1] = f
      <4>1. fs \in Seq(Frames) /\ DOMAIN fs = {1} /\ Len(fs) = 1 /\ fs[1] = f
        BY <2>3, <2>5, <2>7, Appended
      <4> QED
        BY <2>2, <4>1 DEF SharedObjectInv, TypeOK
    <3>2. ReleasedNext(t, 1)'
      BY <1>1, <2>3, <2>7, <3>1 DEF ReleasedNext
    <3>3. SetOK(t, 1)'
      BY <1>1, <2>1, <2>3, <2>4, <3>1, <3>2, ZenonT(30) DEF SetOK, kept
    <3>4. \A i \in DOMAIN stack'[t] : FrameOK(t, i)'
      BY <2>3, <3>1, <3>3 DEF FrameOK, IsRelease, IsDelete
    <3>5. \A o \in Objects : \A i \in DOMAIN stack'[t] : ~Deletes(t, i, o)'
      BY <2>3, <3>1 DEF Deletes, IsDelete
    <3> QED
      BY <1>1, <3>1, <3>4, <3>5, StackChange
  <2>8. CASE mShared[v] # NULL
    <3>1. /\ stack' \in [Threads -> Seq(Frames)]
          /\ \A u \in Threads : u # t => stack'[u] = stack[u]
          /\ DOMAIN stack'[t] = {1, 2} /\ Len(stack'[t]) = 2
          /\ stack'[t][1] = r /\ stack'[t][2] = f
      <4>1. /\ fs \in Seq(Frames) /\ DOMAIN fs = {1, 2} /\ Len(fs) = 2
            /\ fs[1] = r /\ fs[2] = f
        BY <2>3, <2>5, <2>6, <2>8, Appended
      <4> QED
        BY <2>2, <4>1 DEF SharedObjectInv, TypeOK
    <3>2. ReleasedNext(t, 2)'
      BY <2>3, <2>6, <3>1 DEF ReleasedNext, IsRelease
    <3>3. SetOK(t, 2)'
      BY <1>1, <2>1, <2>3, <2>4, <3>1, <3>2, ZenonT(30) DEF SetOK, kept
    <3>4. ReleaseOK(t, 1)'
      BY <1>1, <2>3, <2>6, <2>8, <3>1 DEF ReleaseOK
    <3>5. FrameOK(t, 1)' /\ FrameOK(t, 2)'
      BY <2>3, <2>6, <3>1, <3>3, <3>4 DEF FrameOK, IsRelease, IsDelete
    <3>6. \A i \in DOMAIN stack'[t] : FrameOK(t, i)'
      BY <3>1, <3>5
    <3>7. \A o \in Objects : \A i \in DOMAIN stack'[t] : ~Deletes(t, i, o)'
      BY <2>3, <2>6, <3>1 DEF Deletes, IsDelete
    <3> QED
      BY <1>1, <3>1, <3>6, <3>7, StackChange
  <2> QED
    BY <2>7, <2>8
<1> QED
  BY <1>3, <1>4

-----------------------------------------------------------------------------
(* ReleaseObject looks at the count: an sp that points to an object is *)
(* counted, so the count is not zero.                                  *)
LEMMA ReleaseLoadStep ==
    ASSUME SharedObjectInv, NEW t \in Threads, ReleaseLoad(t)
    PROVE  SharedObjectInv'
<1> DEFINE p == Top(t).at
           d == [op |-> "dec", at |-> p]
<1>1. /\ ~Idle(t) /\ stack[t][1].op = "release" /\ p = stack[t][1].at /\ p \in Pointers
      /\ 1 \in DOMAIN stack[t] /\ stack[t] \in Seq(Frames)
  BY StackFacts, FrameFacts DEF ReleaseLoad, Steps, SharedObjectInv
<1>2. IsRelease(stack[t][1]) /\ ReleaseOK(t, 1)
  BY <1>1 DEF SharedObjectInv, FramesInv, FrameOK, IsRelease
<1>3. mRefs[mShared[p]] # 0
  BY <1>1, <1>2, HeldIsCounted DEF SharedObjectInv, ReleaseOK
<1>4. d \in Frames /\ <<d>> \in Seq(Frames) /\ d.op = "dec" /\ d.at = p
  BY <1>1, FrameFacts, ShortSequences
<1>5. Replace(t, <<d>>) /\ UNCHANGED <<owner, mShared, mRefs, live>>
  BY <1>3 DEF ReleaseLoad
<1> HIDE DEF p, d
<1>6. /\ stack' \in [Threads -> Seq(Frames)]
      /\ \A u \in Threads : u # t => stack'[u] = stack[u]
      /\ Len(stack'[t]) = Len(stack[t]) /\ DOMAIN stack'[t] = DOMAIN stack[t]
      /\ stack'[t][1] = d
      /\ \A i \in DOMAIN stack[t] : i # 1 => i > 1 /\ stack'[t][i] = stack[t][i]
  <2> DEFINE r == <<d>> \o Tail(stack[t])
  <2>1. stack' = [stack EXCEPT ![t] = r]
    BY <1>5 DEF Replace
  <2>2. /\ r \in Seq(Frames) /\ Len(r) = Len(stack[t]) /\ DOMAIN r = DOMAIN stack[t] /\ r[1] = d
        /\ \A i \in DOMAIN stack[t] : i # 1 => i > 1 /\ r[i] = stack[t][i]
    BY <1>1, <1>4
  <2> HIDE DEF r
  <2> QED
    BY <2>1, <2>2 DEF SharedObjectInv, TypeOK
<1>7. ASSUME NEW i \in DOMAIN stack'[t]
      PROVE  FrameOK(t, i)'
  <2>1. CASE i = 1
    <3>1. ReleaseOK(t, 1)'
      <4>1. mShared'[stack'[t][1].at] # NULL
        BY <1>1, <1>2, <1>4, <1>5, <1>6 DEF ReleaseOK
      <4>2. CASE p \in Slots
        <5>1. \A j \in DOMAIN stack'[t] : stack'[t][j].op = "set" => stack'[t][j].at = p
          BY <1>1, <1>2, <1>4, <1>6, <4>2 DEF ReleaseOK
        <5> QED
          BY <1>1, <1>2, <1>4, <1>5, <1>6, <4>1, <4>2, <5>1, SharedObjectAssumption DEF ReleaseOK
      <4>3. CASE p \notin Slots
        BY <1>1, <1>2, <1>4, <1>5, <1>6, <4>1, <4>3 DEF ReleaseOK, Pointers
      <4> QED
        BY <4>2, <4>3
    <3> QED
      BY <1>4, <1>6, <2>1, <3>1 DEF FrameOK, IsRelease, IsDelete
  <2>2. CASE i # 1
    <3>1. i \in DOMAIN stack[t] /\ stack'[t][i] = stack[t][i] /\ FrameOK(t, i) /\ i > 1
      BY <1>6, <2>2 DEF SharedObjectInv, FramesInv
    <3>2. ReleasedNext(t, i) => ReleasedNext(t, i)'
      BY <1>1, <1>4, <1>5, <1>6, <3>1 DEF ReleasedNext, IsRelease
    <3> QED
      BY <1>5, <1>6, <3>1, <3>2
         DEF FrameOK, ReleaseOK, SetOK, DeleteOK, IsRelease, IsDelete
  <2> QED
    BY <2>1, <2>2
<1>8. \A o \in Objects : \A i \in DOMAIN stack[t] : Deletes(t, i, o)' <=> Deletes(t, i, o)
  BY <1>1, <1>4, <1>6 DEF Deletes, IsDelete
<1> QED
  BY <1>5, <1>6, <1>7, <1>8, StackChange DEF SharedObjectInv, DeletedInv

(* The destructor: the object's own sp is released before the memory goes. *)
LEMMA DeleteStep ==
    ASSUME SharedObjectInv, NEW t \in Threads, Delete(t)
    PROVE  SharedObjectInv'
<1> DEFINE o == Top(t).at
           f == [op |-> "free", at |-> o]
           c == [op |-> "release", at |-> o]
           fs == Append(ClearCalls(o), f)
<1>0. PICK k \in {1, 2} : k = IF mShared[o] = NULL THEN 1 ELSE 2
  OBVIOUS
<1>1. /\ ~Idle(t) /\ stack[t][1].op = "delete" /\ o = stack[t][1].at /\ o \in Objects
      /\ 1 \in DOMAIN stack[t] /\ stack[t] \in Seq(Frames)
      /\ o \notin Slots /\ o \in Pointers
  BY SharedObjectAssumption, StackFacts, FrameFacts
     DEF Delete, Steps, SharedObjectInv, IsDelete, Pointers
<1>2. IsDelete(stack[t][1]) /\ DeleteOK(t, 1) /\ Deletes(t, 1, o)
  BY <1>1 DEF SharedObjectInv, FramesInv, FrameOK, IsDelete, Deletes
<1>3. /\ f \in Frames /\ f.op = "free" /\ f.at = o
      /\ c \in Frames /\ c.op = "release" /\ c.at = o
  BY <1>1, FrameFacts
<1>4. Replace(t, fs) /\ UNCHANGED <<owner, mShared, mRefs, live>>
  BY DEF Delete
<1> HIDE DEF f, c
<1>5. /\ fs \in Seq(Frames) /\ Len(fs) = k /\ DOMAIN fs = 1 .. k /\ fs[k] = f
      /\ k = 2 => fs[1] = c
      /\ k = 2 <=> mShared[o] # NULL
  <2>1. CASE mShared[o] = NULL
    <3>1. fs = Append(<<>>, f)
      BY <2>1 DEF ClearCalls
    <3> QED
      BY <1>0, <1>3, <2>1, <3>1, Appended
  <2>2. CASE mShared[o] # NULL
    <3>1. fs = Append(<<c>>, f)
      BY <2>2 DEF ClearCalls, c
    <3> QED
      BY <1>0, <1>3, <2>2, <3>1, Appended
  <2> QED
    BY <2>1, <2>2
<1>6. k \in {1, 2}
  OBVIOUS
<1> HIDE DEF o, fs
<1>7. /\ stack' \in [Threads -> Seq(Frames)]
      /\ \A u \in Threads : u # t => stack'[u] = stack[u]
      /\ Len(stack'[t]) = k + Len(stack[t]) - 1
      /\ k \in DOMAIN stack'[t] /\ stack'[t][k] = f
      /\ k = 2 => 1 \in DOMAIN stack'[t] /\ stack'[t][1] = c
      /\ \A i \in DOMAIN stack'[t] : i > k =>
            /\ i - k + 1 \in DOMAIN stack[t] /\ i - k + 1 > 1
            /\ stack'[t][i] = stack[t][i - k + 1]
      /\ \A i \in DOMAIN stack[t] : i > 1 =>
            /\ i + k - 1 \in DOMAIN stack'[t] /\ i + k - 1 > k
            /\ stack'[t][i + k - 1] = stack[t][i]
  BY <1>1, <1>4, <1>5, <1>6, ReplaceFacts DEF SharedObjectInv
<1>8. \A i \in DOMAIN stack'[t] : i \in Nat /\ (i > k \/ i = k \/ (i = 1 /\ k = 2))
  <2>1. stack'[t] \in Seq(Frames)
    BY <1>7
  <2> QED
    BY <1>6, <2>1
<1>9. ASSUME NEW i \in DOMAIN stack'[t]
      PROVE  FrameOK(t, i)'
  <2>1. CASE i = k
    <3>1. ReleasedNext(t, k)'
      BY <1>3, <1>4, <1>5, <1>7 DEF ReleasedNext, IsRelease
    <3>2. DeleteOK(t, k)'
      BY <1>1, <1>2, <1>3, <1>4, <1>7, <3>1 DEF DeleteOK
    <3> QED
      BY <1>3, <1>7, <2>1, <3>2 DEF FrameOK, IsRelease, IsDelete
  <2>2. CASE i = 1 /\ k = 2
    <3>1. ReleaseOK(t, 1)'
      BY <1>1, <1>3, <1>4, <1>5, <1>7, <2>2 DEF ReleaseOK
    <3> QED
      BY <1>3, <1>7, <2>2, <3>1 DEF FrameOK, IsRelease, IsDelete
  <2>3. CASE i > k
    <3> DEFINE j == i - k + 1
    <3>1. /\ j \in DOMAIN stack[t] /\ j > 1 /\ stack'[t][i] = stack[t][j]
          /\ j = Len(stack[t]) => i = Len(stack'[t])
      <4>1. Len(stack[t]) \in Nat /\ i \in Nat
        BY <1>1, <1>8
      <4> QED
        BY <1>6, <1>7, <2>3, <4>1
    <3> HIDE DEF j
    <3>2. FrameOK(t, j)
      BY <3>1 DEF SharedObjectInv, FramesInv
    <3>3. ReleasedNext(t, j) => ReleasedNext(t, i)'
      BY <1>1, <1>4, <3>1 DEF ReleasedNext, IsRelease
    <3>4. ~IsRelease(stack[t][j])
      BY <3>1, <3>2 DEF FrameOK, ReleaseOK
    <3>5. stack[t][j].op # "delete"
      BY <3>1, <3>2 DEF FrameOK, DeleteOK, IsDelete
    <3> QED
      BY <1>4, <3>1, <3>2, <3>3, <3>4, <3>5
         DEF FrameOK, SetOK, DeleteOK, IsRelease, IsDelete
  <2> QED
    BY <1>8, <2>1, <2>2, <2>3
<1>10. ASSUME NEW q \in Objects, NEW i \in DOMAIN stack[t], Deletes(t, i, q)
       PROVE  \E j \in DOMAIN stack'[t] : Deletes(t, j, q)'
  <2>1. CASE i = 1
    BY <1>1, <1>3, <1>7, <1>10, <2>1 DEF Deletes, IsDelete
  <2>2. CASE i # 1
    <3>1. i > 1
      BY <1>1, <2>2
    <3> QED
      BY <1>7, <1>10, <3>1 DEF Deletes
  <2> QED
    BY <2>1, <2>2
<1>11. ASSUME NEW q \in Objects, NEW i \in DOMAIN stack'[t], Deletes(t, i, q)'
       PROVE  \/ i = k /\ q = o
              \/ i > k /\ i - k + 1 \in DOMAIN stack[t] /\ Deletes(t, i - k + 1, q) /\ q # o
  <2>1. CASE i = k
    BY <1>3, <1>7, <1>11, <2>1 DEF Deletes
  <2>2. CASE i = 1 /\ k = 2
    BY <1>3, <1>7, <1>11, <2>2 DEF Deletes, IsDelete
  <2>3. CASE i > k
    <3>1. i - k + 1 \in DOMAIN stack[t] /\ i - k + 1 > 1 /\ Deletes(t, i - k + 1, q)
      BY <1>7, <1>11, <2>3 DEF Deletes
    <3>2. q # o
      <4> DEFINE j == i - k + 1
      <4>1. j \in DOMAIN stack[t] /\ j # 1 /\ Deletes(t, j, q)
        BY <3>1
      <4> HIDE DEF j
      <4> QED
        BY <1>1, <1>2, <4>1 DEF SharedObjectInv, DeletedInv
    <3> QED
      BY <2>3, <3>1, <3>2
  <2> QED
    BY <1>8, <2>1, <2>2, <2>3
<1>12. ASSUME NEW q \in Objects, NEW i \in DOMAIN stack'[t], Deletes(t, i, q)'
       PROVE  /\ \E j \in DOMAIN stack[t] : Deletes(t, j, q)
              /\ \A j \in DOMAIN stack'[t] : Deletes(t, j, q)' => i = j
  <2>1. \E j \in DOMAIN stack[t] : Deletes(t, j, q)
    BY <1>1, <1>2, <1>11, <1>12
  <2>2. ASSUME NEW j \in DOMAIN stack'[t], Deletes(t, j, q)'
        PROVE  i = j
    <3>1. CASE q = o
      BY <1>11, <1>12, <2>2, <3>1
    <3>2. CASE q # o
      <4> DEFINE i0 == i - k + 1
                 j0 == j - k + 1
      <4>1. i0 \in DOMAIN stack[t] /\ j0 \in DOMAIN stack[t] /\ Deletes(t, i0, q) /\ Deletes(t, j0, q)
        BY <1>11, <1>12, <2>2, <3>2
      <4>2. i0 = j0
        <5> HIDE DEF i0, j0
        <5> QED
          BY <4>1 DEF SharedObjectInv, DeletedInv
      <4> QED
        BY <1>6, <1>8, <4>2
    <3> QED
      BY <3>1, <3>2
  <2> QED
    BY <2>1, <2>2
<1> QED
  BY <1>4, <1>7, <1>9, <1>10, <1>12, StackChange

(* set(): what it points to from now on has another reference. *)
LEMMA SetStep ==
    ASSUME SharedObjectInv, NEW t \in Threads, Set(t)
    PROVE  SharedObjectInv'
<1> DEFINE f == Top(t)
           p == f.at
           x == IF f.src.kind = "raw" THEN f.src.at ELSE mShared[f.src.at]
<1>1. /\ ~Idle(t) /\ stack[t] \in Seq(Frames) /\ 1 \in DOMAIN stack[t]
      /\ f = stack[t][1] /\ f.op = "set" /\ p \in Slots /\ f.src \in Sources
      /\ Touched(t) \subseteq Usable("set")
  BY StackFacts, FrameFacts DEF Set, Steps, SharedObjectInv
<1>2. SetOK(t, 1)
  BY <1>1 DEF SharedObjectInv, FramesInv, FrameOK
<1>3. mShared[p] = NULL /\ owner[p] = t /\ Len(stack[t]) = 1 /\ p \in Pointers
  BY <1>1, <1>2 DEF SetOK, ReleasedNext, Pointers
<1>4. x # NULL => x \in Touched(t)
  <2>1. f.src.at \in Pointers /\ Slots \cap Objects = {}
    BY <1>1, SharedObjectAssumption DEF Sources
  <2> QED
    BY <1>1, <1>2, <2>1 DEF SetOK, Touched, Sources
<1>5. /\ mShared' = [mShared EXCEPT ![p] = x] /\ mRefs' = RetainObject(x)
      /\ UNCHANGED <<owner, live>>
  BY DEF Set
<1>6. /\ stack' \in [Threads -> Seq(Frames)] /\ DOMAIN stack'[t] = {}
      /\ \A u \in Threads : u # t => stack'[u] = stack[u]
  <2> DEFINE r == Tail(stack[t])
  <2>1. r \in Seq(Frames) /\ DOMAIN r = {}
    <3>1. stack[t] \in Seq(Frames) /\ Len(stack[t]) = 1 /\ stack[t] # <<>>
      BY <1>1, <1>3 DEF Idle
    <3>2. r \in Seq(Frames) /\ Len(r) = 0
      BY <3>1
    <3> HIDE DEF r
    <3> QED
      BY <3>2
  <2>2. stack' = [stack EXCEPT ![t] = r]
    BY <1>1, <2>1 DEF Set, Replace
  <2> HIDE DEF r
  <2> QED
    BY <2>1, <2>2 DEF SharedObjectInv, TypeOK
<1>7. DOMAIN stack[t] = {1}
  BY <1>1, <1>3
<1>8. \A o \in Objects : \A i \in DOMAIN stack[t] : ~Deletes(t, i, o)
  BY <1>1, <1>7 DEF Deletes, IsDelete
<1> HIDE DEF f, p, x
<1>9. CASE x = NULL
  <2>1. UNCHANGED <<owner, mShared, mRefs, live>>
    BY <1>3, <1>5, <1>9 DEF RetainObject, SharedObjectInv, TypeOK
  <2> QED
    BY <1>6, <1>8, <2>1, StackChange
<1>10. CASE x # NULL
  <2>1. x \in live /\ mRefs[x] # 0 /\ x \in Objects
    BY <1>1, <1>4, <1>10 DEF Usable, SharedObjectInv, TypeOK
  <2>2. /\ mRefs' \in [Objects -> Nat] /\ mRefs'[x] # 0
        /\ \A q \in Objects \ {x} : mRefs'[q] = mRefs[q]
    <3>1. mRefs' = [mRefs EXCEPT ![x] = @ + 1]
      BY <1>5, <1>10 DEF RetainObject
    <3> QED
      BY <2>1, <3>1 DEF SharedObjectInv, TypeOK
  <2>3. TypeOK'
    BY <1>3, <1>5, <1>6, <2>1, <2>2 DEF SharedObjectInv, TypeOK
  <2>4. NoDangling' /\ CountsMatch'
    BY <1>1, <1>3, <1>5, <2>1, RetainCounts
  <2>5. FramesInv'
    <3>1. p \notin Objects
      BY <1>1, SharedObjectAssumption
    <3> QED
      BY <1>3, <1>5, <1>6, <2>1, <2>2, <3>1, IdleSetFrames
  <2>6. DeletedInv'
    <3>1. ASSUME NEW o \in live, mRefs'[o] = 0
          PROVE  \E u \in Threads : \E i \in DOMAIN stack'[u] : Deletes(u, i, o)'
      <4>1. o \in Objects /\ mRefs[o] = 0
        BY <2>2, <3>1 DEF SharedObjectInv, TypeOK
      <4>2. PICK u \in Threads : \E i \in DOMAIN stack[u] : Deletes(u, i, o)
        BY <4>1 DEF SharedObjectInv, DeletedInv
      <4>3. u # t
        BY <1>8, <4>1, <4>2
      <4> QED
        BY <1>6, <4>2, <4>3 DEF Deletes
    <3>2. ASSUME NEW o \in Objects, NEW u \in Threads, NEW w \in Threads,
                 NEW i \in DOMAIN stack'[u], NEW j \in DOMAIN stack'[w],
                 Deletes(u, i, o)', Deletes(w, j, o)'
          PROVE  u = w /\ i = j
      <4>1. u # t /\ w # t
        BY <1>6
      <4>2. Deletes(u, i, o) /\ Deletes(w, j, o) /\ i \in DOMAIN stack[u] /\ j \in DOMAIN stack[w]
        BY <1>6, <3>2, <4>1 DEF Deletes
      <4> QED
        BY <4>2 DEF SharedObjectInv, DeletedInv
    <3> QED
      BY <1>5, <3>1, <3>2 DEF DeletedInv, Deletes
  <2> QED
    BY <2>3, <2>4, <2>5, <2>6 DEF SharedObjectInv
<1> QED
  BY <1>9, <1>10

(* The memory goes back: nothing points to it or deletes it any more. *)
LEMMA FreeStep ==
    ASSUME SharedObjectInv, NEW t \in Threads, Free(t)
    PROVE  SharedObjectInv'
<1> DEFINE o == Top(t).at
<1>1. /\ ~Idle(t) /\ stack[t][1].op = "free" /\ o = stack[t][1].at /\ o \in Objects
      /\ 1 \in DOMAIN stack[t] /\ stack[t] \in Seq(Frames) /\ o # NULL
  BY SharedObjectAssumption, StackFacts, FrameFacts DEF Free, Steps, SharedObjectInv, IsDelete
<1>2. IsDelete(stack[t][1]) /\ DeleteOK(t, 1) /\ Deletes(t, 1, o)
  BY <1>1 DEF SharedObjectInv, FramesInv, FrameOK, IsDelete, Deletes
<1>3. live' = live \ {o} /\ Replace(t, <<>>) /\ UNCHANGED <<owner, mShared, mRefs>>
  BY DEF Free
<1> HIDE DEF o
<1>4. o \in live /\ mRefs[o] = 0 /\ mShared[o] = NULL
  BY <1>1, <1>2 DEF DeleteOK, ReleasedNext
<1>5. \A p \in Pointers : mShared[p] # o
  BY <1>1, <1>4, HeldIsCounted DEF SharedObjectInv
<1>6. /\ stack' \in [Threads -> Seq(Frames)]
      /\ \A u \in Threads : u # t => stack'[u] = stack[u]
      /\ Len(stack'[t]) = Len(stack[t]) - 1
      /\ \A i \in DOMAIN stack'[t] :
            i + 1 \in DOMAIN stack[t] /\ i + 1 > 1 /\ stack'[t][i] = stack[t][i + 1]
      /\ \A i \in DOMAIN stack[t] : i > 1 =>
            i - 1 \in DOMAIN stack'[t] /\ stack'[t][i - 1] = stack[t][i]
  <2> DEFINE r == Tail(stack[t])
  <2>1. stack[t] # <<>> /\ Tail(stack[t]) \in Seq(Frames)
    BY <1>1 DEF Idle
  <2>2. stack' = [stack EXCEPT ![t] = r]
    BY <1>3, <2>1 DEF Replace
  <2>3. /\ r \in Seq(Frames) /\ Len(r) = Len(stack[t]) - 1
        /\ \A i \in DOMAIN r :
                i + 1 \in DOMAIN stack[t] /\ i + 1 > 1 /\ r[i] = stack[t][i + 1]
        /\ \A i \in DOMAIN stack[t] : i > 1 => i - 1 \in DOMAIN r /\ r[i - 1] = stack[t][i]
    BY <1>1, <2>1
  <2> HIDE DEF r
  <2> QED
    BY <2>2, <2>3 DEF SharedObjectInv, TypeOK
<1>7. TypeOK' /\ NoDangling' /\ CountsMatch'
  <2>1. TypeOK'
    BY <1>3, <1>6 DEF SharedObjectInv, TypeOK
  <2>2. NoDangling'
    BY <1>3, <1>4, <1>5 DEF SharedObjectInv, NoDangling
  <2>3. CountsMatch'
    BY <1>3 DEF SharedObjectInv, CountsMatch, Holders
  <2> QED
    BY <2>1, <2>2, <2>3
<1>8. \A u \in Threads : \A i \in DOMAIN stack[u] : Deletes(u, i, o) => u = t /\ i = 1
  BY <1>1, <1>2 DEF SharedObjectInv, DeletedInv
<1>9. ASSUME NEW u \in Threads, NEW i \in DOMAIN stack'[u]
      PROVE  FrameOK(u, i)'
  <2>1. CASE u # t
    <3>1. FrameOK(u, i) /\ stack'[u] = stack[u] /\ ~Deletes(u, i, o)
      BY <1>6, <1>8, <2>1 DEF SharedObjectInv, FramesInv
    <3> QED
      BY <1>3, <3>1
         DEF FrameOK, ReleaseOK, SetOK, DeleteOK, ReleasedNext, Deletes, IsRelease, IsDelete
  <2>2. CASE u = t
    <3> DEFINE j == i + 1
    <3>1. /\ j \in DOMAIN stack[t] /\ j > 1 /\ stack'[t][i] = stack[t][j]
          /\ j = Len(stack[t]) => i = Len(stack'[t])
      <4>1. Len(stack[t]) \in Nat /\ stack'[t] \in Seq(Frames)
        BY <1>1, <1>6
      <4>2. i \in Nat
        BY <2>2, <4>1
      <4> QED
        BY <1>6, <2>2, <4>1, <4>2
    <3> HIDE DEF j
    <3>2. FrameOK(t, j) /\ ~Deletes(t, j, o)
      BY <1>8, <3>1 DEF SharedObjectInv, FramesInv
    <3>3. ReleasedNext(t, j) => ReleasedNext(t, i)'
      BY <1>1, <1>3, <3>1 DEF ReleasedNext, IsRelease
    <3>4. ~IsRelease(stack[t][j])
      BY <3>1, <3>2 DEF FrameOK, ReleaseOK
    <3>5. stack[t][j].op # "delete"
      BY <3>1, <3>2 DEF FrameOK, DeleteOK, IsDelete
    <3> QED
      BY <1>3, <2>2, <3>1, <3>2, <3>3, <3>4, <3>5
         DEF FrameOK, SetOK, DeleteOK, Deletes, IsRelease, IsDelete
  <2> QED
    BY <2>1, <2>2
<1>10. DeletedInv'
  <2>1. ASSUME NEW q \in live', mRefs[q] = 0
        PROVE  \E u \in Threads : \E i \in DOMAIN stack'[u] : Deletes(u, i, q)'
    <3>1. q \in live /\ q # o /\ q \in Objects
      BY <1>3 DEF SharedObjectInv, TypeOK
    <3>2. PICK u \in Threads : \E i \in DOMAIN stack[u] : Deletes(u, i, q)
      BY <2>1, <3>1 DEF SharedObjectInv, DeletedInv
    <3>3. PICK i \in DOMAIN stack[u] : Deletes(u, i, q)
      BY <3>2
    <3>4. CASE u # t
      BY <1>6, <3>3, <3>4 DEF Deletes
    <3>5. CASE u = t
      <4>1. i > 1
        BY <1>1, <1>2, <3>1, <3>3, <3>5 DEF Deletes
      <4> QED
        BY <1>6, <3>3, <3>5, <4>1 DEF Deletes
    <3> QED
      BY <3>4, <3>5
  <2>2. ASSUME NEW q \in Objects, NEW u \in Threads, NEW i \in DOMAIN stack'[u],
               Deletes(u, i, q)'
        PROVE  \E j \in DOMAIN stack[u] :
                    Deletes(u, j, q) /\ i \in Int /\ j = IF u = t THEN i + 1 ELSE i
    <3>1. i \in Int
      <4>1. stack'[u] \in Seq(Frames)
        BY <1>6
      <4> QED
        BY <4>1
    <3> QED
      BY <1>6, <2>2, <3>1 DEF Deletes
  <2>3. ASSUME NEW q \in Objects, NEW u \in Threads, NEW w \in Threads,
               NEW i \in DOMAIN stack'[u], NEW j \in DOMAIN stack'[w],
               Deletes(u, i, q)', Deletes(w, j, q)'
        PROVE  u = w /\ i = j
    <3>1. PICK i0 \in DOMAIN stack[u] :
            Deletes(u, i0, q) /\ i \in Int /\ i0 = IF u = t THEN i + 1 ELSE i
      BY <2>2, <2>3
    <3>2. PICK j0 \in DOMAIN stack[w] :
            Deletes(w, j0, q) /\ j \in Int /\ j0 = IF w = t THEN j + 1 ELSE j
      BY <2>2, <2>3
    <3>3. u = w /\ i0 = j0
      BY <3>1, <3>2 DEF SharedObjectInv, DeletedInv
    <3> QED
      BY <3>1, <3>2, <3>3
  <2> QED
    BY <1>3, <2>1, <2>3 DEF DeletedInv, Deletes
<1> QED
  BY <1>7, <1>9, <1>10 DEF SharedObjectInv, FramesInv

-----------------------------------------------------------------------------
(* The invariant holds from the start and every step keeps it. *)
LEMMA SharedObjectInit ==
    ASSUME Init
    PROVE  SharedObjectInv
<1>1. TypeOK /\ \A t \in Threads : DOMAIN stack[t] = {}
  BY ShortSequences DEF Init, TypeOK
<1>2. NoDangling /\ CountsMatch
  BY DEF Init, NoDangling, CountsMatch, Pointers
<1> QED
  BY <1>1, <1>2 DEF Init, SharedObjectInv, FramesInv, DeletedInv

LEMMA SharedObjectNext ==
    ASSUME SharedObjectInv, [Next]_vars
    PROVE  SharedObjectInv'
<1>1. ASSUME NEW t \in Threads, Call(t)
      PROVE  SharedObjectInv'
  BY <1>1, NewObjectStep, CallStep, CopyAttachStep, HandOverStep DEF Call
<1>2. ASSUME NEW t \in Threads, Step(t)
      PROVE  SharedObjectInv'
  BY <1>2, ReleaseLoadStep, ReleaseDecStep, DeleteStep, FreeStep, SetStep DEF Step
<1>3. CASE UNCHANGED vars
  BY <1>3 DEF vars, SharedObjectInv, TypeOK, NoDangling, CountsMatch, Holders, FramesInv,
              FrameOK, ReleaseOK, SetOK, DeleteOK, ReleasedNext, IsRelease, IsDelete,
              DeletedInv, Deletes
<1> QED
  BY <1>1, <1>2, <1>3 DEF Next

(* What an sp points to is counted, and exactly the objects with a count of *)
(* zero are being deleted, by one thread each.                              *)
LEMMA InvImpliesCounted ==
    ASSUME SharedObjectInv
    PROVE  ObjectsAreCounted
<1>1. ASSUME NEW o \in Objects
      PROVE  Cardinality(Deleters(o)) = IF o \in live /\ mRefs[o] = 0 THEN 1 ELSE 0
  <2>1. Deleters(o) = {t \in Threads : \E i \in DOMAIN stack[t] : Deletes(t, i, o)}
    BY DEF Deleters, Deletes, IsDelete
  <2>2. CASE o \in live /\ mRefs[o] = 0
    <3>1. PICK t \in Threads : \E i \in DOMAIN stack[t] : Deletes(t, i, o)
      BY <2>2 DEF SharedObjectInv, DeletedInv
    <3>2. Deleters(o) = {t}
      BY <2>1, <3>1 DEF SharedObjectInv, DeletedInv
    <3> QED
      BY <2>2, <3>2, FS_Singleton
  <2>3. CASE ~(o \in live /\ mRefs[o] = 0)
    <3>1. ASSUME NEW t \in Threads, NEW i \in DOMAIN stack[t], Deletes(t, i, o)
          PROVE  FALSE
      BY <2>3, <3>1 DEF SharedObjectInv, FramesInv, FrameOK, DeleteOK, Deletes
    <3>2. Deleters(o) = {}
      BY <2>1, <3>1
    <3> QED
      BY <2>3, <3>2, FS_EmptySet
  <2> QED
    BY <2>2, <2>3
<1> QED
  BY <1>1 DEF SharedObjectInv, ObjectsAreCounted, DeletedOnce

(* What the next step of a call dereferences is alive, and is not being *)
(* deleted when it is to be retained.                                   *)
LEMMA InvImpliesNoUseAfterFree ==
    ASSUME SharedObjectInv
    PROVE  NoUseAfterFree
<1> SUFFICES ASSUME NEW t \in Threads, ~Idle(t), Top(t).op = "set" => Top(t).src.kept
             PROVE  Touched(t) \subseteq Usable(Top(t).op)
  BY DEF NoUseAfterFree
<1> DEFINE f == Top(t)
<1>1. f = stack[t][1] /\ f \in Frames /\ FrameOK(t, 1) /\ Slots \cap Objects = {}
  BY StackFacts, SharedObjectAssumption DEF SharedObjectInv, FramesInv
<1>2. \A p \in Pointers : mShared[p] # NULL => mShared[p] \in live /\ mRefs[mShared[p]] > 0
  BY HeldIsCounted DEF SharedObjectInv
<1> HIDE DEF f
<1>3. CASE IsRelease(f)
  <2>1. mShared[f.at] \in live
    BY <1>1, <1>2, <1>3, FrameFacts DEF FrameOK, ReleaseOK
  <2> QED
    BY <1>3, <2>1 DEF Touched, Usable, IsRelease, f
<1>4. CASE IsDelete(f)
  <2>1. f.at \in live
    BY <1>1, <1>4 DEF FrameOK, DeleteOK
  <2> QED
    BY <1>4, <2>1 DEF Touched, Usable, IsDelete, f
<1>5. CASE f.op = "set"
  <2>1. /\ SetOK(t, 1) /\ f.src.kept /\ f.src.at \in Pointers
        /\ live \subseteq Objects /\ NULL \notin Objects
    BY <1>1, <1>5, FrameFacts, SharedObjectAssumption
       DEF FrameOK, Sources, SharedObjectInv, TypeOK, f
  <2>2. f.src.at \in Objects => f.src.at \in live /\ mRefs[f.src.at] > 0
    <3>1. ASSUME f.src.at \in Objects
          PROVE  \E w \in Slots : mShared[w] = f.src.at
      BY <1>1, <2>1, <3>1 DEF SetOK
    <3> QED
      BY <1>2, <2>1, <3>1 DEF Pointers
  <2>3. \A x \in Touched(t) :
            \/ x = f.src.at /\ f.src.at \in Objects
            \/ x # NULL /\ x = mShared[f.src.at]
    <3>1. CASE f.src.at \in Slots
      <4>1. Touched(t) = {mShared[f.src.at]} \ {NULL}
        BY <1>5, <3>1 DEF Touched, f
      <4> QED
        BY <4>1
    <3>2. CASE f.src.at \notin Slots
      <4>1. Touched(t) \subseteq {f.src.at} \cup ({mShared[f.src.at]} \ {NULL})
        BY <1>5, <3>2 DEF Touched, f
      <4> QED
        BY <2>1, <3>2, <4>1 DEF Pointers
    <3> QED
      BY <3>1, <3>2
  <2>4. \A x \in Touched(t) : x \in live /\ mRefs[x] > 0
    BY <1>2, <2>1, <2>2, <2>3
  <2> QED
    BY <1>5, <2>4 DEF Usable, f
<1> QED
  BY <1>1, <1>3, <1>4, <1>5, FrameFacts DEF IsRelease, IsDelete

-----------------------------------------------------------------------------
(* Whatever the threads assign, copy, drop and hand over, the invariant holds. *)
THEOREM SharedObjectSafe == Spec => []SharedObjectInv
<1>1. Init => SharedObjectInv
  BY SharedObjectInit
<1>2. SharedObjectInv /\ [Next]_vars => SharedObjectInv'
  BY SharedObjectNext
<1> QED
  BY <1>1, <1>2, PTL DEF Spec

(* The count of a live object is the number of sps that point to it, and an *)
(* object whose count is zero is deleted by exactly one thread.             *)
THEOREM CountedSafe == Spec => []ObjectsAreCounted
<1>1. SharedObjectInv => ObjectsAreCounted
  BY InvImpliesCounted
<1> QED
  BY <1>1, SharedObjectSafe, PTL

(* No call touches an object that has been deleted, unless it assigns from *)
(* inside the object that its target alone kept alive.                     *)
THEOREM NoUseAfterFreeSafe == Spec => []NoUseAfterFree
<1>1. SharedObjectInv => NoUseAfterFree
  BY InvImpliesNoUseAfterFree
<1> QED
  BY <1>1, SharedObjectSafe, PTL
=============================================================================
