----------------------------- MODULE Stl_proofs -----------------------------
(***************************************************************************)
(* Theorems about the containers of stl/: SharedBuffer for all sets of     *)
(* threads, holders, buffers and values and every size; vectors and tables *)
(* for all sets of them and of what they hold.                             *)
(***************************************************************************)
EXTENDS MCStl, Integers, FiniteSetTheorems, SequenceTheorems, WellFoundedInduction, TLAPS

-----------------------------------------------------------------------------
(* SharedBuffer.                                                           *)

Contents == Seq(Values \cup {Junk})

\* What a thread returns to when a release is done.
Continuations == {NoCall} \cup {e \in Edits : e.op = "write"}
Calls ==
    {NoCall} \cup Edits \cup
    {Release(op, b, next) : op \in {"load", "dec", "deallocate"}, b \in Buffers,
        next \in Continuations}

TypeOK ==
    /\ owner \in [Handles -> Threads]
    /\ handle \in [Handles -> Buffers \cup {NULL}]
    /\ mRefs \in [Buffers -> Nat]
    /\ mData \in [Buffers -> Contents]
    /\ live \in SUBSET Buffers
    /\ call \in [Threads -> Calls]

\* The edit a thread is in, or goes on with when it has released the old buffer.
InRelease(c) == c.op \in {"load", "dec", "deallocate"}
EditOf(c) == IF InRelease(c) THEN c.next ELSE c

\* The holder is the thread's own and has a buffer with room for the write.
EditOK(t, e) ==
    LET b == handle[e.h] IN
    /\ owner[e.h] = t /\ b # NULL
    /\ e.op = "write" => mRefs[b] = 1 /\ e.at <= Len(mData[b])
    /\ e.op # "write" => e.at <= IF e.size = 0 THEN Len(mData[b]) ELSE e.size
    /\ e.op = "testAgain" => e.size # 0

EditInv == \A t \in Threads, e \in Edits : EditOf(call[t]) = e => EditOK(t, e)

CountOK(b) ==
    IF b \in live
    THEN /\ mRefs[b] = Cardinality(HoldersOf(b)) + Cardinality(Releasing(b))
         /\ Cardinality(Deallocating(b)) = IF mRefs[b] = 0 THEN 1 ELSE 0
    ELSE HoldersOf(b) \cup Releasing(b) \cup Deallocating(b) = {}

SharedBufferInv == TypeOK /\ CountsMatch /\ EditInv

-----------------------------------------------------------------------------
(* What calls are made of. *)
LEMMA EditFacts ==
    ASSUME NEW e \in Edits
    PROVE  /\ e.op \in {"test", "testAgain", "copy", "write"}
           /\ e.h \in Handles /\ e.size \in 0 .. MaxSize /\ e.at \in Sizes /\ e.x \in Values
           /\ e # NoCall /\ ~InRelease(e)
<1>1. PICK o \in {"test", "testAgain", "copy", "write"}, h \in Handles, n \in 0 .. MaxSize,
           i \in Sizes, x \in Values :
              e = [op |-> o, h |-> h, size |-> n, at |-> i, x |-> x]
  BY DEF Edits, Edit
<1> QED
  BY <1>1 DEF NoCall, InRelease

LEMMA CallFacts ==
    /\ \A c \in Calls : c = NoCall \/ c \in Edits \/ InRelease(c)
    /\ NoCall \in Calls /\ NoCall.op = "none" /\ ~InRelease(NoCall)
    /\ \A e \in Edits : e \in Calls
    /\ \A n \in Continuations :
        /\ n \in Calls /\ (n = NoCall \/ (n \in Edits /\ n.op = "write"))
        /\ ~InRelease(n) /\ n.op \in {"none", "write"}
    /\ \A c \in Calls : InRelease(c) =>
        /\ c.buf \in Buffers /\ c.next \in Continuations
        /\ \A op \in {"load", "dec", "deallocate"} :
            LET d == [c EXCEPT !.op = op] IN
            /\ d \in Calls /\ InRelease(d)
            /\ d.op = op /\ d.buf = c.buf /\ d.next = c.next
    /\ \A b \in Buffers, n \in Continuations :
        LET c == Release("load", b, n) IN
        c \in Calls /\ InRelease(c) /\ c.op = "load" /\ c.buf = b /\ c.next = n
<1>0. ~InRelease(NoCall) /\ \A e \in Edits : ~InRelease(e)
  BY EditFacts DEF NoCall, InRelease
<1>1. ASSUME NEW c \in Calls
      PROVE  /\ c = NoCall \/ c \in Edits \/ InRelease(c)
             /\ InRelease(c) =>
                /\ c.buf \in Buffers /\ c.next \in Continuations
                /\ \A op \in {"load", "dec", "deallocate"} :
                    LET d == [c EXCEPT !.op = op] IN
                    /\ d \in Calls /\ InRelease(d)
                    /\ d.op = op /\ d.buf = c.buf /\ d.next = c.next
  <2>1. CASE c = NoCall \/ c \in Edits
    BY <1>0, <2>1
  <2>2. CASE ~(c = NoCall \/ c \in Edits)
    <3>1. PICK o \in {"load", "dec", "deallocate"}, b \in Buffers, n \in Continuations :
            c = [op |-> o, buf |-> b, next |-> n]
      BY <2>2 DEF Calls, Release
    <3>2. ASSUME NEW op \in {"load", "dec", "deallocate"}
          PROVE  LET d == [c EXCEPT !.op = op] IN
                 /\ d \in Calls /\ InRelease(d)
                 /\ d.op = op /\ d.buf = c.buf /\ d.next = c.next
      <4>1. [c EXCEPT !.op = op] = [op |-> op, buf |-> b, next |-> n]
        BY <3>1
      <4> QED
        BY <3>1, <4>1 DEF Calls, Release, InRelease
    <3> QED
      BY <3>1, <3>2 DEF InRelease
  <2> QED
    BY <2>1, <2>2
<1>2. NoCall \in Calls /\ NoCall.op = "none" /\ ~InRelease(NoCall)
  BY DEF Calls, NoCall, InRelease
<1>3. ASSUME NEW n \in Continuations
      PROVE  /\ n \in Calls /\ (n = NoCall \/ (n \in Edits /\ n.op = "write"))
             /\ ~InRelease(n) /\ n.op \in {"none", "write"}
  <2>1. n = NoCall \/ (n \in Edits /\ n.op = "write")
    BY DEF Continuations
  <2>2. CASE n = NoCall
    BY <1>2, <2>2
  <2>3. CASE n \in Edits /\ n.op = "write"
    BY <1>0, <2>3 DEF Calls
  <2> QED
    BY <2>1, <2>2, <2>3
<1>4. ASSUME NEW b \in Buffers, NEW n \in Continuations
      PROVE  LET c == Release("load", b, n) IN
             c \in Calls /\ InRelease(c) /\ c.op = "load" /\ c.buf = b /\ c.next = n
  BY DEF Calls, Release, InRelease
<1>5. \A e \in Edits : e \in Calls
  BY DEF Calls
<1> QED
  BY <1>1, <1>2, <1>3, <1>4, <1>5

(* A set that gains or loses one element. *)
LEMMA OneChanged ==
    ASSUME NEW S, NEW T, NEW x, IsFiniteSet(S), T \ {x} = S \ {x}
    PROVE  /\ Cardinality(S) \in Nat /\ Cardinality(T) \in Nat
           /\ (x \in S <=> x \in T) => T = S
           /\ x \notin S /\ x \in T => Cardinality(T) = Cardinality(S) + 1
           /\ x \in S /\ x \notin T => Cardinality(T) = Cardinality(S) - 1
<1>1. x \in T => T = S \cup {x}
  OBVIOUS
<1>2. x \notin T => T = S \ {x}
  OBVIOUS
<1>3. IsFiniteSet(S \cup {x}) /\ IsFiniteSet(S \ {x})
  BY FS_AddElement, FS_RemoveElement
<1>4. Cardinality(S) \in Nat /\ Cardinality(T) \in Nat
  BY <1>1, <1>2, <1>3, FS_CardinalityType
<1>5. x \notin S => Cardinality(S \cup {x}) = Cardinality(S) + 1
  BY FS_AddElement
<1>6. x \in S => Cardinality(S \ {x}) = Cardinality(S) - 1
  BY FS_RemoveElement
<1> QED
  BY <1>1, <1>2, <1>4, <1>5, <1>6

-----------------------------------------------------------------------------
(* The sets that are counted, when one holder or one call changes. *)
LEMMA CountedSets ==
    ASSUME BufferAssumption, NEW b
    PROVE  /\ IsFiniteSet(HoldersOf(b)) /\ Cardinality(HoldersOf(b)) \in Nat
           /\ IsFiniteSet(Releasing(b)) /\ Cardinality(Releasing(b)) \in Nat
           /\ IsFiniteSet(Deallocating(b)) /\ Cardinality(Deallocating(b)) \in Nat
<1>1. HoldersOf(b) \in SUBSET Handles /\ Releasing(b) \in SUBSET Threads
      /\ Deallocating(b) \in SUBSET Threads
  BY DEF HoldersOf, Releasing, Deallocating
<1> QED
  BY <1>1, FS_Subset, FS_CardinalityType DEF BufferAssumption

LEMMA HandleChange ==
    ASSUME BufferAssumption, TypeOK, NEW h \in Handles, NEW c,
           handle' = [handle EXCEPT ![h] = c], NEW b
    PROVE  /\ Cardinality(HoldersOf(b)) \in Nat
           /\ (handle[h] = b <=> c = b) => HoldersOf(b)' = HoldersOf(b)
           /\ handle[h] # b /\ c = b =>
                Cardinality(HoldersOf(b)') = Cardinality(HoldersOf(b)) + 1
           /\ handle[h] = b /\ c # b =>
                Cardinality(HoldersOf(b)') = Cardinality(HoldersOf(b)) - 1
<1>1. /\ HoldersOf(b)' \ {h} = HoldersOf(b) \ {h}
      /\ h \in HoldersOf(b) <=> handle[h] = b
      /\ h \in HoldersOf(b)' <=> c = b
  BY DEF HoldersOf, TypeOK
<1>2. IsFiniteSet(HoldersOf(b))
  BY CountedSets
<1> DEFINE S == HoldersOf(b)
           T == HoldersOf(b)'
<1>3. IsFiniteSet(S) /\ T \ {h} = S \ {h} /\ (h \in S <=> handle[h] = b) /\ (h \in T <=> c = b)
  BY <1>1, <1>2
<1> HIDE DEF S, T
<1>4. /\ Cardinality(S) \in Nat
      /\ (h \in S <=> h \in T) => T = S
      /\ h \notin S /\ h \in T => Cardinality(T) = Cardinality(S) + 1
      /\ h \in S /\ h \notin T => Cardinality(T) = Cardinality(S) - 1
  BY <1>3, OneChanged
<1>5. /\ Cardinality(S) \in Nat
      /\ (handle[h] = b <=> c = b) => T = S
      /\ handle[h] # b /\ c = b => Cardinality(T) = Cardinality(S) + 1
      /\ handle[h] = b /\ c # b => Cardinality(T) = Cardinality(S) - 1
  BY <1>3, <1>4
<1> QED
  BY <1>5 DEF S, T

GivesUp(c, b) == c.op \in {"load", "dec"} /\ c.buf = b
Deallocates(c, b) == c.op = "deallocate" /\ c.buf = b

LEMMA CallChange ==
    ASSUME BufferAssumption, TypeOK, NEW t \in Threads, NEW c, Goto(t, c), NEW b
    PROVE  /\ Cardinality(Releasing(b)) \in Nat /\ Cardinality(Deallocating(b)) \in Nat
           /\ (GivesUp(call[t], b) <=> GivesUp(c, b)) => Releasing(b)' = Releasing(b)
           /\ ~GivesUp(call[t], b) /\ GivesUp(c, b) =>
                Cardinality(Releasing(b)') = Cardinality(Releasing(b)) + 1
           /\ GivesUp(call[t], b) /\ ~GivesUp(c, b) =>
                Cardinality(Releasing(b)') = Cardinality(Releasing(b)) - 1
           /\ (Deallocates(call[t], b) <=> Deallocates(c, b)) => Deallocating(b)' = Deallocating(b)
           /\ ~Deallocates(call[t], b) /\ Deallocates(c, b) =>
                Cardinality(Deallocating(b)') = Cardinality(Deallocating(b)) + 1
           /\ Deallocates(call[t], b) /\ ~Deallocates(c, b) =>
                Cardinality(Deallocating(b)') = Cardinality(Deallocating(b)) - 1
<1>1. call' = [call EXCEPT ![t] = c] /\ DOMAIN call = Threads
  BY DEF Goto, TypeOK
<1>2. /\ Releasing(b)' \ {t} = Releasing(b) \ {t}
      /\ t \in Releasing(b) <=> GivesUp(call[t], b)
      /\ t \in Releasing(b)' <=> GivesUp(c, b)
  BY <1>1 DEF Releasing, GivesUp
<1>3. /\ Deallocating(b)' \ {t} = Deallocating(b) \ {t}
      /\ t \in Deallocating(b) <=> Deallocates(call[t], b)
      /\ t \in Deallocating(b)' <=> Deallocates(c, b)
  BY <1>1 DEF Deallocating, Deallocates, At
<1>4. IsFiniteSet(Releasing(b)) /\ IsFiniteSet(Deallocating(b))
  BY CountedSets
<1>5. /\ Cardinality(Releasing(b)) \in Nat
      /\ (t \in Releasing(b) <=> t \in Releasing(b)') => Releasing(b)' = Releasing(b)
      /\ t \notin Releasing(b) /\ t \in Releasing(b)' =>
            Cardinality(Releasing(b)') = Cardinality(Releasing(b)) + 1
      /\ t \in Releasing(b) /\ t \notin Releasing(b)' =>
            Cardinality(Releasing(b)') = Cardinality(Releasing(b)) - 1
  BY <1>2, <1>4, OneChanged, Zenon
<1>6. /\ Cardinality(Deallocating(b)) \in Nat
      /\ (t \in Deallocating(b) <=> t \in Deallocating(b)') => Deallocating(b)' = Deallocating(b)
      /\ t \notin Deallocating(b) /\ t \in Deallocating(b)' =>
            Cardinality(Deallocating(b)') = Cardinality(Deallocating(b)) + 1
      /\ t \in Deallocating(b) /\ t \notin Deallocating(b)' =>
            Cardinality(Deallocating(b)') = Cardinality(Deallocating(b)) - 1
  BY <1>3, <1>4, OneChanged, Zenon
<1> QED
  BY <1>2, <1>3, <1>5, <1>6, Zenon

(* References are counted: a holder, a second holder, and a thread that has *)
(* not yet given its reference up.                                          *)
LEMMA References ==
    ASSUME BufferAssumption, TypeOK, CountsMatch, NEW b \in Buffers
    PROVE  /\ \A h \in Handles : handle[h] = b => b \in live /\ mRefs[b] >= 1
           /\ \A g, h \in Handles : g # h /\ handle[g] = b /\ handle[h] = b => mRefs[b] >= 2
           /\ \A t \in Threads : GivesUp(call[t], b) => b \in live /\ mRefs[b] >= 1
           /\ \A t \in Threads, h \in Handles :
                GivesUp(call[t], b) /\ handle[h] = b => mRefs[b] >= 2
           /\ \A t \in Threads : Deallocates(call[t], b) =>
                b \in live /\ mRefs[b] = 0 /\ HoldersOf(b) = {} /\ Releasing(b) = {}
<1>1. /\ IsFiniteSet(HoldersOf(b)) /\ Cardinality(HoldersOf(b)) \in Nat
      /\ IsFiniteSet(Releasing(b)) /\ Cardinality(Releasing(b)) \in Nat
      /\ IsFiniteSet(Deallocating(b)) /\ Cardinality(Deallocating(b)) \in Nat
  BY CountedSets
<1>2. CountOK(b)
  BY DEF CountsMatch, CountOK
<1>3. \A S : IsFiniteSet(S) /\ Cardinality(S) = 0 => S = {}
  BY FS_EmptySet
<1>4. \A h \in Handles : handle[h] = b => h \in HoldersOf(b) /\ Cardinality(HoldersOf(b)) >= 1
  <2>1. ASSUME NEW h \in Handles, handle[h] = b
        PROVE  h \in HoldersOf(b) /\ Cardinality(HoldersOf(b)) # 0
    BY <1>1, <1>3, <2>1 DEF HoldersOf
  <2> QED
    BY <1>1, <2>1
<1>5. ASSUME NEW g \in Handles, NEW h \in Handles, g # h, handle[g] = b, handle[h] = b
      PROVE  Cardinality(HoldersOf(b)) >= 2
  <2>1. g \in HoldersOf(b) \ {h}
    BY <1>5 DEF HoldersOf
  <2>2. /\ IsFiniteSet(HoldersOf(b) \ {h})
        /\ Cardinality(HoldersOf(b) \ {h}) = Cardinality(HoldersOf(b)) - 1
    BY <1>1, <1>4, <1>5, FS_RemoveElement
  <2>3. Cardinality(HoldersOf(b) \ {h}) # 0
    BY <1>3, <2>1, <2>2
  <2>4. Cardinality(HoldersOf(b)) >= 1
    BY <1>4, <1>5
  <2> QED
    BY <1>1, <2>2, <2>3, <2>4
<1>6. \A t \in Threads : GivesUp(call[t], b) => t \in Releasing(b) /\ Cardinality(Releasing(b)) >= 1
  <2>1. ASSUME NEW t \in Threads, GivesUp(call[t], b)
        PROVE  t \in Releasing(b) /\ Cardinality(Releasing(b)) # 0
    BY <1>1, <1>3, <2>1 DEF Releasing, GivesUp
  <2> QED
    BY <1>1, <2>1
<1>7. \A t \in Threads : Deallocates(call[t], b) =>
        t \in Deallocating(b) /\ Cardinality(Deallocating(b)) # 0
  BY <1>1, <1>3 DEF Deallocating, Deallocates, At
<1>8. mRefs[b] = 0 /\ b \in live => HoldersOf(b) = {} /\ Releasing(b) = {}
  <2>1. mRefs[b] = 0 /\ b \in live => Cardinality(HoldersOf(b)) = 0 /\ Cardinality(Releasing(b)) = 0
    BY <1>1, <1>2 DEF CountOK
  <2> QED
    BY <1>1, <1>3, <2>1
<1>9. b \notin live => HoldersOf(b) = {} /\ Releasing(b) = {} /\ Deallocating(b) = {}
  BY <1>2 DEF CountOK
<1>10. b \in live => /\ mRefs[b] = Cardinality(HoldersOf(b)) + Cardinality(Releasing(b))
                     /\ mRefs[b] # 0 => Cardinality(Deallocating(b)) = 0
  BY <1>2 DEF CountOK
<1> QED
  BY <1>1, <1>4, <1>5, <1>6, <1>7, <1>8, <1>9, <1>10

-----------------------------------------------------------------------------
(* What a step leaves alone stays as it should be. *)
LEMMA CountKept ==
    ASSUME NEW b, CountOK(b), HoldersOf(b)' = HoldersOf(b), Releasing(b)' = Releasing(b),
           Deallocating(b)' = Deallocating(b), mRefs'[b] = mRefs[b], b \in live' <=> b \in live
    PROVE  CountOK(b)'
  BY DEF CountOK

LEMMA EditKept ==
    ASSUME NEW u, NEW e, EditOK(u, e), owner'[e.h] = owner[e.h], handle'[e.h] = handle[e.h],
           e.op = "write" => mRefs'[handle[e.h]] = 1,
           Len(mData'[handle[e.h]]) = Len(mData[handle[e.h]])
    PROVE  EditOK(u, e)'
  BY DEF EditOK

(* The calls after a step, and the edit a thread is in. *)
LEMMA GotoFacts ==
    ASSUME TypeOK, NEW t \in Threads, NEW c \in Calls, Goto(t, c)
    PROVE  /\ call' \in [Threads -> Calls] /\ call'[t] = c
           /\ \A u \in Threads : u # t => call'[u] = call[u]
  BY DEF Goto, TypeOK

(* A new buffer is nobody's yet. *)
LEMMA FreeFacts ==
    ASSUME TypeOK, CountsMatch, live # Buffers
    PROVE  /\ Free \in Buffers /\ Free \notin live
           /\ HoldersOf(Free) = {} /\ Releasing(Free) = {} /\ Deallocating(Free) = {}
<1>1. \E b \in Buffers : b \notin live
  BY DEF TypeOK
<1>2. Free \in Buffers /\ Free \notin live
  BY <1>1 DEF Free
<1> HIDE DEF Free
<1> QED
  BY <1>2 DEF CountsMatch

(* The buffer of an edit is another one than that of another thread's edit or *)
(* has two references.                                                        *)
LEMMA OtherEdit ==
    ASSUME BufferAssumption, SharedBufferInv, NEW u \in Threads, NEW e \in Edits,
           EditOf(call[u]) = e
    PROVE  /\ EditOK(u, e) /\ e.h \in Handles /\ owner[e.h] = u
           /\ handle[e.h] \in Buffers /\ handle[e.h] \in live
           /\ \A h \in Handles : handle[h] = handle[e.h] /\ owner[h] # u => mRefs[handle[e.h]] >= 2
           /\ \A t \in Threads : GivesUp(call[t], handle[e.h]) => mRefs[handle[e.h]] >= 2
<1>1. EditOK(u, e) /\ e.h \in Handles
  BY EditFacts DEF SharedBufferInv, EditInv
<1>2. owner[e.h] = u /\ handle[e.h] \in Buffers
  BY <1>1 DEF EditOK, SharedBufferInv, TypeOK
<1> QED
  BY <1>1, <1>2, References DEF SharedBufferInv

-----------------------------------------------------------------------------
(* Clients *)

LEMMA CreateStep ==
    ASSUME BufferAssumption, SharedBufferInv, NEW t \in Threads, NEW h \in Handles,
           NEW n \in Sizes, Create(t, h, n)
    PROVE  SharedBufferInv'
<1>1. PICK f : f = Free
  OBVIOUS
<1>2. /\ f \in Buffers /\ f \notin live /\ HoldersOf(f) = {} /\ Releasing(f) = {} /\ Deallocating(f) = {}
  BY <1>1, FreeFacts DEF Create, SharedBufferInv
<1>3. /\ Idle(t, h) /\ handle[h] = NULL /\ live' = live \cup {f}
      /\ handle' = [handle EXCEPT ![h] = f] /\ mRefs' = [mRefs EXCEPT ![f] = 1]
      /\ mData' = [mData EXCEPT ![f] = Resized(<<>>, n)]
      /\ UNCHANGED <<owner, call>>
  BY <1>1 DEF Create
<1>4. Resized(<<>>, n) \in Contents
  BY DEF Resized, Contents, Sizes, BufferAssumption
<1>5. TypeOK'
  BY <1>2, <1>3, <1>4 DEF SharedBufferInv, TypeOK
<1>6. ASSUME NEW b \in Buffers
      PROVE  CountOK(b)'
  <2>1. Releasing(b)' = Releasing(b) /\ Deallocating(b)' = Deallocating(b)
    BY <1>3 DEF Releasing, Deallocating, At
  <2>2. CASE b = f
    <3>1. HoldersOf(f)' = {h}
      BY <1>2, <1>3 DEF HoldersOf, SharedBufferInv, TypeOK
    <3>2. mRefs'[f] = 1 /\ f \in live'
      BY <1>2, <1>3 DEF SharedBufferInv, TypeOK
    <3>3. Cardinality({h}) = 1 /\ Cardinality({}) = 0
      BY FS_EmptySet, FS_Singleton
    <3> QED
      BY <1>2, <2>1, <2>2, <3>1, <3>2, <3>3 DEF CountOK
  <2>3. CASE b # f
    <3>1. HoldersOf(b)' = HoldersOf(b)
      BY <1>2, <1>3, <2>3 DEF HoldersOf, SharedBufferInv, TypeOK, BufferAssumption
    <3>2. mRefs'[b] = mRefs[b] /\ (b \in live' <=> b \in live)
      BY <1>2, <1>3, <2>3 DEF SharedBufferInv, TypeOK
    <3> QED
      BY <2>1, <3>1, <3>2, CountKept DEF SharedBufferInv, CountsMatch, CountOK
  <2> QED
    BY <2>2, <2>3
<1>7. ASSUME NEW u \in Threads, NEW e \in Edits, EditOf(call[u]) = e
      PROVE  EditOK(u, e)'
  <2>1. EditOK(u, e) /\ e.h \in Handles /\ handle[e.h] \in Buffers /\ handle[e.h] \in live
    BY <1>7, OtherEdit
  <2>2. handle[e.h] # f /\ e.h # h
    BY <1>2, <1>3, <2>1 DEF BufferAssumption
  <2>3. /\ handle'[e.h] = handle[e.h] /\ mRefs'[handle[e.h]] = mRefs[handle[e.h]]
        /\ mData'[handle[e.h]] = mData[handle[e.h]]
    BY <1>3, <2>1, <2>2 DEF SharedBufferInv, TypeOK
  <2>4. e.op = "write" => mRefs'[handle[e.h]] = 1
    BY <2>1, <2>3 DEF EditOK
  <2> QED
    BY <1>3, <2>1, <2>3, <2>4, EditKept
<1>8. EditInv'
  BY <1>3, <1>7 DEF EditInv, EditOf, InRelease
<1> QED
  BY <1>5, <1>6, <1>8 DEF SharedBufferInv, CountsMatch, CountOK

LEMMA RetainStep ==
    ASSUME BufferAssumption, SharedBufferInv, NEW t \in Threads, NEW g \in Handles,
           NEW h \in Handles, RetainBuffer(t, g, h)
    PROVE  SharedBufferInv'
<1>1. PICK f : f = handle[h]
  OBVIOUS
<1>2. /\ owner[h] = t /\ owner[g] = t /\ call[t] = NoCall
      /\ handle[g] = NULL /\ handle[h] = f /\ f # NULL
      /\ handle' = [handle EXCEPT ![g] = f] /\ mRefs' = [mRefs EXCEPT ![f] = @ + 1]
      /\ UNCHANGED <<owner, mData, live, call>>
  BY <1>1 DEF RetainBuffer, Idle
<1>3. f \in Buffers /\ f \in live /\ mRefs[f] \in Nat /\ mRefs[f] >= 1
  BY <1>2, References DEF SharedBufferInv, TypeOK
<1>4. TypeOK'
  BY <1>2, <1>3 DEF SharedBufferInv, TypeOK
<1>5. ASSUME NEW b \in Buffers
      PROVE  CountOK(b)'
  <2>1. Releasing(b)' = Releasing(b) /\ Deallocating(b)' = Deallocating(b)
    BY <1>2 DEF Releasing, Deallocating, At
  <2>2. CountOK(b) /\ b # NULL
    BY DEF SharedBufferInv, CountsMatch, CountOK, BufferAssumption
  <2>3. CASE b = f
    <3>1. Cardinality(HoldersOf(f)') = Cardinality(HoldersOf(f)) + 1
      BY <1>2, HandleChange DEF SharedBufferInv
    <3>2. mRefs'[f] = mRefs[f] + 1
      BY <1>2, <1>3 DEF SharedBufferInv, TypeOK
    <3>3. Cardinality(HoldersOf(f)) \in Nat /\ Cardinality(Releasing(f)) \in Nat
      BY CountedSets
    <3> QED
      BY <1>2, <1>3, <2>1, <2>2, <2>3, <3>1, <3>2, <3>3 DEF CountOK
  <2>4. CASE b # f
    <3>1. HoldersOf(b)' = HoldersOf(b)
      BY <1>2, <2>2, <2>4, HandleChange DEF SharedBufferInv
    <3>2. mRefs'[b] = mRefs[b]
      BY <1>2, <2>4 DEF SharedBufferInv, TypeOK
    <3> QED
      BY <1>2, <2>1, <2>2, <3>1, <3>2, CountKept
  <2> QED
    BY <2>3, <2>4
<1>6. ASSUME NEW u \in Threads, NEW e \in Edits, EditOf(call[u]) = e
      PROVE  EditOK(u, e)'
  <2>1. /\ EditOK(u, e) /\ e.h \in Handles /\ owner[e.h] = u
        /\ handle[e.h] = f /\ u # t => mRefs[f] >= 2
    BY <1>2, <1>6, OtherEdit
  <2>2. u # t
    BY <1>2, <1>6, CallFacts, EditFacts DEF EditOf
  <2>3. e.h # g /\ (e.op = "write" => handle[e.h] # f /\ mRefs[handle[e.h]] = 1)
    BY <1>2, <2>1, <2>2 DEF EditOK
  <2>4. handle'[e.h] = handle[e.h] /\ (e.op = "write" => mRefs'[handle[e.h]] = 1)
    BY <1>2, <2>1, <2>3 DEF SharedBufferInv, TypeOK
  <2> QED
    BY <1>2, <2>1, <2>4, EditKept
<1>7. EditInv'
  BY <1>2, <1>6 DEF EditInv, EditOf, InRelease
<1> QED
  BY <1>4, <1>5, <1>7 DEF SharedBufferInv, CountsMatch, CountOK

LEMMA ReleaseBufferStep ==
    ASSUME BufferAssumption, SharedBufferInv, NEW t \in Threads, NEW h \in Handles,
           ReleaseBuffer(t, h)
    PROVE  SharedBufferInv'
<1>1. PICK f, c : f = handle[h] /\ c = Release("load", f, NoCall)
  OBVIOUS
<1>2. /\ owner[h] = t /\ call[t] = NoCall /\ handle[h] = f /\ f # NULL
      /\ handle' = [handle EXCEPT ![h] = NULL] /\ Goto(t, c)
      /\ UNCHANGED <<owner, mRefs, mData, live>>
  BY <1>1 DEF ReleaseBuffer, Idle
<1>3. f \in Buffers
  BY <1>2 DEF SharedBufferInv, TypeOK
<1>4. c \in Calls /\ InRelease(c) /\ c.op = "load" /\ c.buf = f /\ c.next = NoCall
  <2>1. NoCall \in Continuations
    BY DEF Continuations
  <2> QED
    BY <1>1, <1>3, <2>1, CallFacts
<1>5. /\ call' \in [Threads -> Calls] /\ call'[t] = c
      /\ \A u \in Threads : u # t => call'[u] = call[u]
  BY <1>2, <1>4, GotoFacts DEF SharedBufferInv
<1>6. TypeOK'
  BY <1>2, <1>5 DEF SharedBufferInv, TypeOK
<1>7. \A b : /\ ~GivesUp(call[t], b) /\ ~Deallocates(call[t], b) /\ ~Deallocates(c, b)
             /\ GivesUp(c, b) <=> b = f
  BY <1>2, <1>4, CallFacts DEF GivesUp, Deallocates
<1>8. ASSUME NEW b \in Buffers
      PROVE  CountOK(b)'
  <2>1. CountOK(b) /\ b # NULL
    BY DEF SharedBufferInv, CountsMatch, CountOK, BufferAssumption
  <2>2. Deallocating(b)' = Deallocating(b)
    BY <1>2, <1>7, CallChange DEF SharedBufferInv
  <2>3. CASE b = f
    <3>1. Cardinality(HoldersOf(f)') = Cardinality(HoldersOf(f)) - 1
      BY <1>2, HandleChange DEF SharedBufferInv
    <3>2. Cardinality(Releasing(f)') = Cardinality(Releasing(f)) + 1
      BY <1>2, <1>7, CallChange DEF SharedBufferInv
    <3>3. Cardinality(HoldersOf(f)) \in Nat /\ Cardinality(Releasing(f)) \in Nat
      BY CountedSets
    <3>4. f \in live
      BY <1>2, <1>3, References DEF SharedBufferInv
    <3> QED
      BY <1>2, <2>1, <2>2, <2>3, <3>1, <3>2, <3>3, <3>4 DEF CountOK
  <2>4. CASE b # f
    <3>1. HoldersOf(b)' = HoldersOf(b)
      BY <1>2, <2>1, <2>4, HandleChange DEF SharedBufferInv
    <3>2. Releasing(b)' = Releasing(b)
      BY <1>2, <1>7, <2>4, CallChange DEF SharedBufferInv
    <3> QED
      BY <1>2, <2>1, <2>2, <3>1, <3>2, CountKept
  <2> QED
    BY <2>3, <2>4
<1>9. ASSUME NEW u \in Threads, NEW e \in Edits, EditOf(call'[u]) = e
      PROVE  EditOK(u, e)'
  <2>1. u # t
    BY <1>4, <1>5, <1>9, EditFacts DEF EditOf
  <2>2. EditOf(call[u]) = e
    BY <1>5, <1>9, <2>1
  <2>3. EditOK(u, e) /\ e.h \in Handles /\ owner[e.h] = u
    BY <2>2, OtherEdit
  <2>4. handle'[e.h] = handle[e.h]
    BY <1>2, <2>1, <2>3 DEF SharedBufferInv, TypeOK
  <2>5. e.op = "write" => mRefs'[handle[e.h]] = 1
    BY <1>2, <2>3 DEF EditOK
  <2> QED
    BY <1>2, <2>3, <2>4, <2>5, EditKept
<1>10. EditInv'
  BY <1>9 DEF EditInv, EditOf, InRelease
<1> QED
  BY <1>6, <1>8, <1>10 DEF SharedBufferInv, CountsMatch, CountOK

LEMMA BeginEditStep ==
    ASSUME BufferAssumption, SharedBufferInv, NEW t \in Threads, NEW h \in Handles,
           NEW n \in 0 .. MaxSize, NEW i \in Sizes, NEW x \in Values, BeginEdit(t, h, n, i, x)
    PROVE  SharedBufferInv'
<1>1. PICK c : c = Edit("test", h, n, i, x)
  OBVIOUS
<1>2. /\ owner[h] = t /\ call[t] = NoCall /\ handle[h] # NULL /\ Goto(t, c)
      /\ i <= IF n = 0 THEN Len(mData[handle[h]]) ELSE n
      /\ UNCHANGED <<owner, handle, mRefs, mData, live>>
  BY <1>1 DEF BeginEdit, Idle
<1>3. /\ c \in Edits /\ c \in Calls /\ ~InRelease(c)
      /\ c.op = "test" /\ c.h = h /\ c.size = n /\ c.at = i
  <2>1. c \in Edits /\ c.op = "test" /\ c.h = h /\ c.size = n /\ c.at = i
    BY <1>1 DEF Edit, Edits
  <2> QED
    BY <2>1, EditFacts, CallFacts
<1>4. /\ call' \in [Threads -> Calls] /\ call'[t] = c
      /\ \A u \in Threads : u # t => call'[u] = call[u]
  BY <1>2, <1>3, GotoFacts DEF SharedBufferInv
<1>5. TypeOK'
  BY <1>2, <1>4 DEF SharedBufferInv, TypeOK
<1>6. \A b : /\ ~GivesUp(call[t], b) /\ ~Deallocates(call[t], b)
             /\ ~GivesUp(c, b) /\ ~Deallocates(c, b)
  BY <1>2, <1>3, CallFacts DEF GivesUp, Deallocates
<1>7. ASSUME NEW b \in Buffers
      PROVE  CountOK(b)'
  <2>1. CountOK(b) /\ HoldersOf(b)' = HoldersOf(b)
    BY <1>2 DEF SharedBufferInv, CountsMatch, CountOK, HoldersOf
  <2>2. Deallocating(b)' = Deallocating(b) /\ Releasing(b)' = Releasing(b)
    BY <1>2, <1>6, CallChange DEF SharedBufferInv
  <2> QED
    BY <1>2, <2>1, <2>2, CountKept
<1>8. ASSUME NEW u \in Threads, NEW e \in Edits, EditOf(call'[u]) = e
      PROVE  EditOK(u, e)'
  <2>1. CASE u = t
    <3>1. e = c
      BY <1>3, <1>4, <1>8, <2>1 DEF EditOf
    <3> QED
      BY <1>2, <1>3, <2>1, <3>1 DEF EditOK
  <2>2. CASE u # t
    <3>1. EditOK(u, e)
      BY <1>4, <1>8, <2>2, OtherEdit
    <3> QED
      BY <1>2, <3>1 DEF EditOK
  <2> QED
    BY <2>1, <2>2
<1>9. EditInv'
  BY <1>8 DEF EditInv, EditOf, InRelease
<1> QED
  BY <1>5, <1>7, <1>9 DEF SharedBufferInv, CountsMatch, CountOK

LEMMA HandOverStep ==
    ASSUME BufferAssumption, SharedBufferInv, NEW t \in Threads, NEW h \in Handles,
           NEW u \in Threads, HandOver(t, h, u)
    PROVE  SharedBufferInv'
<1>1. /\ owner[h] = t /\ call[t] = NoCall /\ owner' = [owner EXCEPT ![h] = u]
      /\ UNCHANGED <<handle, mRefs, mData, live, call>>
  BY DEF HandOver, Idle
<1>2. TypeOK' /\ CountsMatch'
  BY <1>1, ZenonT(30) DEF SharedBufferInv, TypeOK, CountsMatch, HoldersOf, Releasing, Deallocating, At
<1>3. ASSUME NEW s \in Threads, NEW e \in Edits, EditOf(call[s]) = e
      PROVE  EditOK(s, e)'
  <2>1. EditOK(s, e) /\ e.h \in Handles /\ owner[e.h] = s
    BY <1>3, OtherEdit
  <2>2. s # t
    BY <1>1, <1>3, CallFacts, EditFacts DEF EditOf
  <2>3. owner'[e.h] = s
    BY <1>1, <2>1, <2>2 DEF SharedBufferInv, TypeOK
  <2> QED
    BY <1>1, <2>1, <2>3 DEF EditOK
<1>4. EditInv'
  BY <1>1, <1>3 DEF EditInv, EditOf, InRelease
<1> QED
  BY <1>2, <1>4 DEF SharedBufferInv

-----------------------------------------------------------------------------
(* Releasing a buffer *)

(* The call of a thread, and the one it goes on with, are calls. *)
LEMMA CallTyped ==
    ASSUME SharedBufferInv, NEW t \in Threads
    PROVE  call[t] \in Calls
  BY DEF SharedBufferInv, TypeOK

LEMMA ReleaseLoadStep ==
    ASSUME BufferAssumption, SharedBufferInv, NEW t \in Threads, ReleaseLoad(t)
    PROVE  SharedBufferInv'
<1>1. PICK c : c = call[t]
  OBVIOUS
<1>2. c.op = "load" /\ c \in Calls /\ InRelease(c) /\ c.buf \in Buffers
  BY <1>1, CallTyped, CallFacts DEF ReleaseLoad, At, InRelease
<1>3. mRefs[c.buf] # 0
  <2>1. GivesUp(call[t], c.buf)
    BY <1>1, <1>2 DEF GivesUp
  <2> QED
    BY <1>2, <2>1, References DEF SharedBufferInv
<1>4. PICK d : d = [c EXCEPT !.op = "dec"]
  OBVIOUS
<1>5. Goto(t, d) /\ UNCHANGED <<owner, handle, mRefs, mData, live>>
  BY <1>1, <1>3, <1>4 DEF ReleaseLoad, Step
<1>6. d \in Calls /\ InRelease(d) /\ d.op = "dec" /\ d.buf = c.buf /\ d.next = c.next
  BY <1>2, <1>4, CallFacts
<1>7. /\ call' \in [Threads -> Calls] /\ call'[t] = d
      /\ \A u \in Threads : u # t => call'[u] = call[u]
  BY <1>5, <1>6, GotoFacts DEF SharedBufferInv
<1>8. TypeOK'
  BY <1>5, <1>7 DEF SharedBufferInv, TypeOK
<1>9. \A b : /\ GivesUp(call[t], b) <=> GivesUp(d, b)
             /\ Deallocates(call[t], b) <=> Deallocates(d, b)
  BY <1>1, <1>2, <1>6 DEF GivesUp, Deallocates
<1>10. ASSUME NEW b \in Buffers
       PROVE  CountOK(b)'
  <2>1. CountOK(b) /\ HoldersOf(b)' = HoldersOf(b)
    BY <1>5 DEF SharedBufferInv, CountsMatch, CountOK, HoldersOf
  <2>2. Deallocating(b)' = Deallocating(b) /\ Releasing(b)' = Releasing(b)
    BY <1>5, <1>9, CallChange DEF SharedBufferInv
  <2> QED
    BY <1>5, <2>1, <2>2, CountKept
<1>11. ASSUME NEW u \in Threads, NEW e \in Edits, EditOf(call'[u]) = e
       PROVE  EditOK(u, e)'
  <2>1. EditOf(call[u]) = e
    BY <1>1, <1>2, <1>6, <1>7, <1>11 DEF EditOf
  <2>2. EditOK(u, e)
    BY <2>1, OtherEdit
  <2> QED
    BY <1>5, <2>2 DEF EditOK
<1>12. EditInv'
  BY <1>11 DEF EditInv, EditOf, InRelease
<1> QED
  BY <1>8, <1>10, <1>12 DEF SharedBufferInv, CountsMatch, CountOK

LEMMA ReleaseDecStep ==
    ASSUME BufferAssumption, SharedBufferInv, NEW t \in Threads, ReleaseDec(t)
    PROVE  SharedBufferInv'
<1>1. PICK c, f : c = call[t] /\ f = c.buf
  OBVIOUS
<1>2. c.op = "dec" /\ c \in Calls /\ InRelease(c) /\ f \in Buffers /\ c.next \in Continuations
  BY <1>1, CallTyped, CallFacts DEF ReleaseDec, At, InRelease
<1>3. GivesUp(c, f) /\ f \in live /\ mRefs[f] \in Nat /\ mRefs[f] >= 1
  <2>1. GivesUp(c, f)
    BY <1>1, <1>2 DEF GivesUp
  <2> QED
    BY <1>1, <1>2, <2>1, References DEF SharedBufferInv, TypeOK
<1>4. PICK d : d = IF mRefs[f] = 1 THEN [c EXCEPT !.op = "deallocate"] ELSE c.next
  OBVIOUS
<1>5. /\ mRefs' = [mRefs EXCEPT ![f] = @ - 1] /\ Goto(t, d)
      /\ UNCHANGED <<owner, handle, mData, live>>
  BY <1>1, <1>4 DEF ReleaseDec, Step
<1>6. /\ d \in Calls /\ EditOf(d) = EditOf(c)
      /\ IF mRefs[f] = 1 THEN d.op = "deallocate" /\ d.buf = f
                         ELSE d.op \in {"none", "write"}
  <2>1. CASE mRefs[f] = 1
    <3>1. d = [c EXCEPT !.op = "deallocate"]
      BY <1>4, <2>1
    <3>2. d \in Calls /\ InRelease(d) /\ d.op = "deallocate" /\ d.buf = c.buf /\ d.next = c.next
      BY <1>2, <3>1, CallFacts
    <3> QED
      BY <1>1, <1>2, <2>1, <3>2 DEF EditOf
  <2>2. CASE mRefs[f] # 1
    BY <1>2, <1>4, <2>2, CallFacts DEF EditOf
  <2> QED
    BY <2>1, <2>2
<1>7. /\ call' \in [Threads -> Calls] /\ call'[t] = d
      /\ \A u \in Threads : u # t => call'[u] = call[u]
  BY <1>5, <1>6, GotoFacts DEF SharedBufferInv
<1>8. mRefs'[f] = mRefs[f] - 1 /\ \A b \in Buffers : b # f => mRefs'[b] = mRefs[b]
  BY <1>2, <1>5 DEF SharedBufferInv, TypeOK
<1>9. TypeOK'
  <2>1. mRefs' \in [Buffers -> Nat]
    BY <1>2, <1>3, <1>5 DEF SharedBufferInv, TypeOK
  <2> QED
    BY <1>5, <1>7, <2>1 DEF SharedBufferInv, TypeOK
<1>10. \A b : /\ GivesUp(call[t], b) <=> b = f
              /\ ~GivesUp(d, b) /\ ~Deallocates(call[t], b)
              /\ Deallocates(d, b) <=> b = f /\ mRefs[f] = 1
  BY <1>1, <1>2, <1>6 DEF GivesUp, Deallocates
<1>11. ASSUME NEW b \in Buffers
       PROVE  CountOK(b)'
  <2>1. CountOK(b) /\ HoldersOf(b)' = HoldersOf(b)
    BY <1>5 DEF SharedBufferInv, CountsMatch, CountOK, HoldersOf
  <2>2. CASE b # f
    <3>1. Deallocating(b)' = Deallocating(b) /\ Releasing(b)' = Releasing(b)
      BY <1>5, <1>10, <2>2, CallChange DEF SharedBufferInv
    <3> QED
      BY <1>5, <1>8, <2>1, <2>2, <3>1, CountKept
  <2>3. CASE b = f
    <3>1. Cardinality(Releasing(f)') = Cardinality(Releasing(f)) - 1
      BY <1>5, <1>10, CallChange DEF SharedBufferInv
    <3>2. Cardinality(Deallocating(f)) = 0
      BY <1>3, <2>1, <2>3 DEF CountOK
    <3>3. mRefs[f] = 1 => Cardinality(Deallocating(f)') = Cardinality(Deallocating(f)) + 1
      BY <1>5, <1>10, CallChange DEF SharedBufferInv
    <3>4. mRefs[f] # 1 => Deallocating(f)' = Deallocating(f)
      BY <1>5, <1>10, CallChange DEF SharedBufferInv
    <3>5. Cardinality(HoldersOf(f)) \in Nat /\ Cardinality(Releasing(f)) \in Nat
      BY CountedSets
    <3>6. mRefs[f] = Cardinality(HoldersOf(f)) + Cardinality(Releasing(f))
      BY <1>3, <2>1, <2>3 DEF CountOK
    <3>7. mRefs'[f] = Cardinality(HoldersOf(f)') + Cardinality(Releasing(f)')
      BY <1>3, <1>8, <2>1, <2>3, <3>1, <3>5, <3>6
    <3>8. Cardinality(Deallocating(f)') = IF mRefs'[f] = 0 THEN 1 ELSE 0
      BY <1>3, <1>8, <3>2, <3>3, <3>4
    <3> QED
      BY <1>3, <1>5, <2>3, <3>7, <3>8 DEF CountOK
  <2> QED
    BY <2>2, <2>3
<1>12. ASSUME NEW u \in Threads, NEW e \in Edits, EditOf(call'[u]) = e
       PROVE  EditOK(u, e)'
  <2>1. EditOf(call[u]) = e
    BY <1>1, <1>6, <1>7, <1>12
  <2>2. /\ EditOK(u, e) /\ handle[e.h] \in Buffers
        /\ handle[e.h] = f => mRefs[f] >= 2
    BY <1>1, <1>3, <2>1, OtherEdit
  <2>3. e.op = "write" => mRefs'[handle[e.h]] = 1
    <3>1. e.op = "write" => mRefs[handle[e.h]] = 1 /\ handle[e.h] # f
      BY <2>2 DEF EditOK
    <3> QED
      BY <1>8, <2>2, <3>1
  <2> QED
    BY <1>5, <2>2, <2>3, EditKept
<1>13. EditInv'
  BY <1>12 DEF EditInv, EditOf, InRelease
<1> QED
  BY <1>9, <1>11, <1>13 DEF SharedBufferInv, CountsMatch, CountOK

LEMMA DeallocateStep ==
    ASSUME BufferAssumption, SharedBufferInv, NEW t \in Threads, Deallocate(t)
    PROVE  SharedBufferInv'
<1>1. PICK c, f : c = call[t] /\ f = c.buf
  OBVIOUS
<1>2. c.op = "deallocate" /\ c \in Calls /\ InRelease(c) /\ f \in Buffers /\ c.next \in Continuations
  BY <1>1, CallTyped, CallFacts DEF Deallocate, At, InRelease
<1>3. Deallocates(c, f) /\ f \in live /\ mRefs[f] = 0 /\ HoldersOf(f) = {} /\ Releasing(f) = {}
  <2>1. Deallocates(c, f)
    BY <1>1, <1>2 DEF Deallocates
  <2> QED
    BY <1>1, <1>2, <2>1, References DEF SharedBufferInv
<1>4. PICK d : d = c.next
  OBVIOUS
<1>5. /\ live' = live \ {f} /\ mData' = [mData EXCEPT ![f] = <<>>] /\ Goto(t, d)
      /\ UNCHANGED <<owner, handle, mRefs>>
  BY <1>1, <1>4 DEF Deallocate
<1>6. d \in Calls /\ EditOf(d) = EditOf(c) /\ d.op \in {"none", "write"}
  BY <1>2, <1>4, CallFacts DEF EditOf
<1>7. /\ call' \in [Threads -> Calls] /\ call'[t] = d
      /\ \A u \in Threads : u # t => call'[u] = call[u]
  BY <1>5, <1>6, GotoFacts DEF SharedBufferInv
<1>8. TypeOK'
  <2>1. <<>> \in Contents
    BY DEF Contents
  <2> QED
    BY <1>5, <1>7, <2>1 DEF SharedBufferInv, TypeOK
<1>9. \A b : /\ ~GivesUp(call[t], b) /\ ~GivesUp(d, b) /\ ~Deallocates(d, b)
             /\ Deallocates(call[t], b) <=> b = f
  BY <1>1, <1>2, <1>6 DEF GivesUp, Deallocates
<1>10. ASSUME NEW b \in Buffers
       PROVE  CountOK(b)'
  <2>1. CountOK(b) /\ HoldersOf(b)' = HoldersOf(b)
    BY <1>5 DEF SharedBufferInv, CountsMatch, CountOK, HoldersOf
  <2>2. Releasing(b)' = Releasing(b)
    BY <1>5, <1>9, CallChange DEF SharedBufferInv
  <2>3. CASE b # f
    <3>1. Deallocating(b)' = Deallocating(b)
      BY <1>5, <1>9, <2>3, CallChange DEF SharedBufferInv
    <3> QED
      BY <1>5, <2>1, <2>2, <2>3, <3>1, CountKept
  <2>4. CASE b = f
    <3>1. Cardinality(Deallocating(f)') = Cardinality(Deallocating(f)) - 1
      BY <1>5, <1>9, CallChange DEF SharedBufferInv
    <3>2. Cardinality(Deallocating(f)) = 1
      BY <1>3, <2>1, <2>4 DEF CountOK
    <3>3. Deallocating(f)' \in SUBSET Threads
      BY <1>7 DEF Deallocating
    <3>4. IsFiniteSet(Deallocating(f)')
      BY <3>3, FS_Subset DEF BufferAssumption
    <3>5. Deallocating(f)' = {}
      BY <3>1, <3>2, <3>4, FS_EmptySet
    <3> QED
      BY <1>3, <1>5, <2>1, <2>2, <2>4, <3>5 DEF CountOK
  <2> QED
    BY <2>3, <2>4
<1>11. ASSUME NEW u \in Threads, NEW e \in Edits, EditOf(call'[u]) = e
       PROVE  EditOK(u, e)'
  <2>1. EditOf(call[u]) = e
    BY <1>1, <1>6, <1>7, <1>11
  <2>2. EditOK(u, e) /\ handle[e.h] \in Buffers /\ e.h \in Handles
    BY <2>1, OtherEdit
  <2>3. handle[e.h] # f
    BY <1>3, <2>2 DEF HoldersOf
  <2>4. mData'[handle[e.h]] = mData[handle[e.h]]
    BY <1>5, <2>2, <2>3 DEF SharedBufferInv, TypeOK
  <2>5. e.op = "write" => mRefs'[handle[e.h]] = 1
    BY <1>5, <2>2 DEF EditOK
  <2> QED
    BY <1>5, <2>2, <2>4, <2>5, EditKept
<1>12. EditInv'
  BY <1>11 DEF EditInv, EditOf, InRelease
<1> QED
  BY <1>8, <1>10, <1>12 DEF SharedBufferInv, CountsMatch, CountOK

-----------------------------------------------------------------------------
(* Edits *)

(* The edit a thread is in, with its holder and buffer. *)
LEMMA ThisEdit ==
    ASSUME BufferAssumption, SharedBufferInv, NEW t \in Threads,
           call[t].op \in {"test", "testAgain", "copy", "write"}
    PROVE  /\ call[t] \in Edits /\ EditOf(call[t]) = call[t] /\ EditOK(t, call[t])
           /\ call[t].h \in Handles /\ owner[call[t].h] = t
           /\ handle[call[t].h] \in Buffers /\ handle[call[t].h] \in live
           /\ mRefs[handle[call[t].h]] \in Nat /\ mRefs[handle[call[t].h]] >= 1
           /\ mData[handle[call[t].h]] \in Contents
<1>1. call[t] \in Edits /\ EditOf(call[t]) = call[t]
  <2>1. call[t] \in Edits
    BY CallTyped, CallFacts DEF InRelease
  <2> QED
    BY <2>1, EditFacts DEF EditOf
<1>2. /\ EditOK(t, call[t]) /\ call[t].h \in Handles /\ owner[call[t].h] = t
      /\ handle[call[t].h] \in Buffers /\ handle[call[t].h] \in live
  BY <1>1, OtherEdit
<1> QED
  BY <1>1, <1>2, References DEF SharedBufferInv, TypeOK

(* The same edit at another point. *)
LEMMA EditAt ==
    ASSUME NEW e \in Edits, NEW op \in {"test", "testAgain", "copy", "write"},
           NEW d, d = [e EXCEPT !.op = op]
    PROVE  /\ d \in Edits /\ d \in Calls /\ ~InRelease(d)
           /\ d.op = op /\ d.h = e.h /\ d.size = e.size /\ d.at = e.at
<1>1. PICK o \in {"test", "testAgain", "copy", "write"}, h \in Handles, n \in 0 .. MaxSize,
           i \in Sizes, x \in Values :
              e = [op |-> o, h |-> h, size |-> n, at |-> i, x |-> x]
  BY DEF Edits, Edit
<1>2. d = [op |-> op, h |-> h, size |-> n, at |-> i, x |-> x]
  BY <1>1
<1>3. d \in Edits
  BY <1>1, <1>2 DEF Edits, Edit
<1> QED
  BY <1>1, <1>2, <1>3, EditFacts, CallFacts

(* A thread goes on with its edit, or ends it: only the buffer it is alone  *)
(* with may have changed.                                                   *)
LEMMA OwnEditStep ==
    ASSUME BufferAssumption, SharedBufferInv, NEW t \in Threads, NEW d \in Calls, Goto(t, d),
           call[t] \in Edits, ~InRelease(d), UNCHANGED <<owner, handle, mRefs, live>>,
           mData' \in [Buffers -> Contents],
           NEW f, f = handle[call[t].h],
           \A b \in Buffers : b # f => mData'[b] = mData[b],
           mData' = mData \/ mRefs[f] = 1,
           d \in Edits => EditOK(t, d)'
    PROVE  SharedBufferInv'
<1>1. /\ call' \in [Threads -> Calls] /\ call'[t] = d
      /\ \A u \in Threads : u # t => call'[u] = call[u]
  BY GotoFacts DEF SharedBufferInv
<1>2. TypeOK'
  BY <1>1 DEF SharedBufferInv, TypeOK
<1>3. ~InRelease(call[t]) /\ call[t].h \in Handles /\ owner[call[t].h] = t
  BY EditFacts, ThisEdit
<1>4. \A b : /\ ~GivesUp(call[t], b) /\ ~Deallocates(call[t], b)
             /\ ~GivesUp(d, b) /\ ~Deallocates(d, b)
  BY <1>3 DEF GivesUp, Deallocates, InRelease
<1>5. ASSUME NEW b \in Buffers
      PROVE  CountOK(b)'
  <2>1. CountOK(b) /\ HoldersOf(b)' = HoldersOf(b)
    BY DEF SharedBufferInv, CountsMatch, CountOK, HoldersOf
  <2>2. Deallocating(b)' = Deallocating(b) /\ Releasing(b)' = Releasing(b)
    BY <1>4, CallChange DEF SharedBufferInv
  <2> QED
    BY <2>1, <2>2, CountKept
<1>6. ASSUME NEW u \in Threads, NEW e \in Edits, EditOf(call'[u]) = e
      PROVE  EditOK(u, e)'
  <2>1. CASE u = t
    BY <1>1, <1>6, <2>1 DEF EditOf
  <2>2. CASE u # t
    <3>1. EditOf(call[u]) = e
      BY <1>1, <1>6, <2>2
    <3>2. /\ EditOK(u, e) /\ handle[e.h] \in Buffers
          /\ handle[e.h] = f => mRefs[f] >= 2
      BY <1>3, <2>2, <3>1, OtherEdit
    <3>3. mData'[handle[e.h]] = mData[handle[e.h]]
      BY <3>2
    <3>4. e.op = "write" => mRefs'[handle[e.h]] = 1
      BY <3>2 DEF EditOK
    <3> QED
      BY <3>2, <3>3, <3>4, EditKept
  <2> QED
    BY <2>1, <2>2
<1>7. EditInv'
  BY <1>6 DEF EditInv, EditOf, InRelease
<1> QED
  BY <1>2, <1>5, <1>7 DEF SharedBufferInv, CountsMatch, CountOK

LEMMA EditTestStep ==
    ASSUME BufferAssumption, SharedBufferInv, NEW t \in Threads, EditTest(t)
    PROVE  SharedBufferInv'
<1>1. PICK c, f : c = call[t] /\ f = handle[c.h]
  OBVIOUS
<1>2. /\ c \in Edits /\ c.op = "test" /\ EditOK(t, c) /\ c.size \in 0 .. MaxSize /\ c.at \in Sizes
      /\ f \in Buffers /\ mRefs[f] \in Nat /\ mRefs[f] >= 1
      /\ Len(mData[f]) \in Nat
  <2>1. c.op = "test"
    BY <1>1 DEF EditTest, At
  <2>2. /\ c \in Edits /\ EditOK(t, c) /\ f \in Buffers
        /\ mRefs[f] \in Nat /\ mRefs[f] >= 1 /\ mData[f] \in Contents
    BY <1>1, <2>1, ThisEdit
  <2> QED
    BY <2>1, <2>2, EditFacts DEF Contents
<1>3. PICK o : /\ o = IF IsBufferNotShared(f) /\ c.size <= Len(mData[f]) THEN "write"
                      ELSE IF c.size = 0 THEN "copy" ELSE "testAgain"
               /\ o \in {"write", "copy", "testAgain"}
  OBVIOUS
<1>4. PICK d : d = [c EXCEPT !.op = o]
  OBVIOUS
<1>5. Goto(t, d) /\ UNCHANGED <<owner, handle, mRefs, mData, live>>
  BY <1>1, <1>3, <1>4 DEF EditTest, Step
<1>6. /\ d \in Edits /\ d \in Calls /\ ~InRelease(d)
      /\ d.op = o /\ d.h = c.h /\ d.size = c.size /\ d.at = c.at
  BY <1>2, <1>3, <1>4, EditAt
<1>7. EditOK(t, d)
  <2>1. owner[c.h] = t /\ f # NULL /\ c.at <= IF c.size = 0 THEN Len(mData[f]) ELSE c.size
    BY <1>1, <1>2 DEF EditOK
  <2>2. o = "write" => mRefs[f] = 1 /\ c.size <= Len(mData[f])
    BY <1>2, <1>3 DEF IsBufferNotShared
  <2>3. o = "write" => c.at <= Len(mData[f])
    BY <1>2, <2>1, <2>2 DEF Sizes, BufferAssumption
  <2>4. o = "testAgain" => c.size # 0
    BY <1>3
  <2> QED
    BY <1>1, <1>6, <2>1, <2>2, <2>3, <2>4 DEF EditOK
<1>8. EditOK(t, d)'
  BY <1>5, <1>7 DEF EditOK
<1> QED
  BY <1>1, <1>2, <1>5, <1>6, <1>8, OwnEditStep DEF SharedBufferInv, TypeOK

LEMMA ResizedFacts ==
    ASSUME NEW s \in Contents, NEW n \in Nat
    PROVE  Resized(s, n) \in Contents /\ Len(Resized(s, n)) = n
  BY DEF Resized, Contents

LEMMA EditTestAgainStep ==
    ASSUME BufferAssumption, SharedBufferInv, NEW t \in Threads, EditTestAgain(t)
    PROVE  SharedBufferInv'
<1>1. PICK c, f : c = call[t] /\ f = handle[c.h]
  OBVIOUS
<1>2. /\ c \in Edits /\ c.op = "testAgain" /\ EditOK(t, c) /\ c.size \in Nat /\ c.at \in Sizes
      /\ f \in Buffers /\ mRefs[f] \in Nat /\ mRefs[f] >= 1 /\ mData[f] \in Contents
  <2>1. c.op = "testAgain"
    BY <1>1 DEF EditTestAgain, At
  <2>2. /\ c \in Edits /\ EditOK(t, c) /\ f \in Buffers
        /\ mRefs[f] \in Nat /\ mRefs[f] >= 1 /\ mData[f] \in Contents
    BY <1>1, <2>1, ThisEdit
  <2> QED
    BY <2>1, <2>2, EditFacts DEF BufferAssumption
<1>3. PICK o : /\ o = IF IsBufferNotShared(f) THEN "write" ELSE "copy"
               /\ o \in {"write", "copy"}
  OBVIOUS
<1>4. PICK d : d = [c EXCEPT !.op = o]
  OBVIOUS
<1>5. /\ Goto(t, d) /\ UNCHANGED <<owner, handle, mRefs, live>>
      /\ IF o = "write" THEN mData' = [mData EXCEPT ![f] = Resized(mData[f], c.size)]
                        ELSE mData' = mData
  BY <1>1, <1>3, <1>4 DEF EditTestAgain, Step
<1>6. /\ d \in Edits /\ d \in Calls /\ ~InRelease(d)
      /\ d.op = o /\ d.h = c.h /\ d.size = c.size /\ d.at = c.at
  BY <1>2, <1>3, <1>4, EditAt
<1>7. Resized(mData[f], c.size) \in Contents /\ Len(Resized(mData[f], c.size)) = c.size
  BY <1>2, ResizedFacts
<1>8. o = "write" => mRefs[f] = 1
  BY <1>2, <1>3 DEF IsBufferNotShared
<1>9. EditOK(t, d)'
  <2>1. owner[c.h] = t /\ f # NULL /\ c.size # 0 /\ c.at <= c.size
    BY <1>1, <1>2 DEF EditOK
  <2>2. o = "write" => Len(mData'[f]) = c.size
    BY <1>2, <1>5, <1>7 DEF SharedBufferInv, TypeOK
  <2> QED
    BY <1>1, <1>3, <1>5, <1>6, <1>8, <2>1, <2>2 DEF EditOK
<1>10. /\ mData' \in [Buffers -> Contents]
       /\ \A b \in Buffers : b # f => mData'[b] = mData[b]
       /\ mData' = mData \/ mRefs[f] = 1
  BY <1>2, <1>5, <1>7, <1>8 DEF SharedBufferInv, TypeOK
<1> QED
  BY <1>1, <1>2, <1>5, <1>6, <1>9, <1>10, OwnEditStep

LEMMA WriteStep ==
    ASSUME BufferAssumption, SharedBufferInv, NEW t \in Threads, Write(t)
    PROVE  SharedBufferInv'
<1>1. PICK c, f : c = call[t] /\ f = handle[c.h]
  OBVIOUS
<1>2. /\ c \in Edits /\ c.op = "write" /\ EditOK(t, c) /\ c.at \in Sizes /\ c.x \in Values
      /\ f \in Buffers /\ mRefs[f] \in Nat /\ mRefs[f] >= 1 /\ mData[f] \in Contents
  <2>1. c.op = "write"
    BY <1>1 DEF Write, At
  <2> QED
    BY <1>1, <2>1, ThisEdit, EditFacts
<1>3. /\ Goto(t, NoCall) /\ UNCHANGED <<owner, handle, mRefs, live>>
      /\ mData' = [mData EXCEPT ![f] = [mData[f] EXCEPT ![c.at] = c.x]]
  BY <1>1 DEF Write
<1>4. [mData[f] EXCEPT ![c.at] = c.x] \in Contents
  <2>1. c.at \in 1 .. Len(mData[f]) /\ Len(mData[f]) \in Nat
    BY <1>1, <1>2 DEF EditOK, Sizes, BufferAssumption, Contents
  <2> QED
    BY <1>2, <2>1, ExceptSeq DEF Contents
<1>5. mRefs[f] = 1
  BY <1>1, <1>2 DEF EditOK
<1>6. NoCall \in Calls /\ ~InRelease(NoCall) /\ NoCall \notin Edits
  BY CallFacts, EditFacts
<1>7. /\ mData' \in [Buffers -> Contents]
      /\ \A b \in Buffers : b # f => mData'[b] = mData[b]
  BY <1>2, <1>3, <1>4 DEF SharedBufferInv, TypeOK
<1> QED
  BY <1>1, <1>2, <1>3, <1>5, <1>6, <1>7, OwnEditStep, SMTT(30)

LEMMA EditCopyStep ==
    ASSUME BufferAssumption, SharedBufferInv, NEW t \in Threads, EditCopy(t)
    PROVE  SharedBufferInv'
<1>1. PICK c, old, f : c = call[t] /\ old = handle[c.h] /\ f = Free
  OBVIOUS
<1>2. PICK n : n = IF c.size = 0 THEN Len(mData[old]) ELSE c.size
  OBVIOUS
<1>3. PICK w, r : w = [c EXCEPT !.op = "write"] /\ r = Release("load", old, w)
  OBVIOUS
<1>4. /\ c.op = "copy" /\ live # Buffers /\ live' = live \cup {f}
      /\ handle' = [handle EXCEPT ![c.h] = f] /\ mRefs' = [mRefs EXCEPT ![f] = 1]
      /\ mData' = [mData EXCEPT ![f] = Resized(mData[old], n)]
      /\ Goto(t, r) /\ owner' = owner
  BY <1>1, <1>2, <1>3 DEF EditCopy, At
<1>5. /\ c \in Edits /\ EditOf(c) = c /\ EditOK(t, c) /\ c.h \in Handles /\ owner[c.h] = t
      /\ old \in Buffers /\ old \in live /\ mData[old] \in Contents
  BY <1>1, <1>4, ThisEdit
<1>6. /\ f \in Buffers /\ f \notin live /\ f # old
      /\ HoldersOf(f) = {} /\ Releasing(f) = {} /\ Deallocating(f) = {}
  BY <1>1, <1>4, <1>5, FreeFacts DEF SharedBufferInv
<1>7. n \in Nat /\ c.at <= n
  <2>1. c.size \in 0 .. MaxSize /\ Len(mData[old]) \in Nat
    BY <1>5, EditFacts DEF Contents
  <2> QED
    BY <1>1, <1>2, <1>4, <1>5, <2>1 DEF EditOK, BufferAssumption
<1>8. Resized(mData[old], n) \in Contents /\ Len(Resized(mData[old], n)) = n
  BY <1>5, <1>7, ResizedFacts
<1>9. w \in Edits /\ w.op = "write" /\ w.h = c.h /\ w.size = c.size /\ w.at = c.at
  BY <1>3, <1>5, EditAt
<1>10. r \in Calls /\ InRelease(r) /\ r.op = "load" /\ r.buf = old /\ r.next = w
  <2>1. w \in Continuations
    BY <1>9 DEF Continuations
  <2> QED
    BY <1>3, <1>5, <2>1, CallFacts
<1>11. /\ call' \in [Threads -> Calls] /\ call'[t] = r
       /\ \A u \in Threads : u # t => call'[u] = call[u]
  BY <1>4, <1>10, GotoFacts DEF SharedBufferInv
<1>12. TypeOK'
  <2>1. mRefs' \in [Buffers -> Nat] /\ mData' \in [Buffers -> Contents]
    BY <1>4, <1>8 DEF SharedBufferInv, TypeOK
  <2>2. handle' \in [Handles -> Buffers \cup {NULL}] /\ live' \in SUBSET Buffers
    BY <1>4, <1>6 DEF SharedBufferInv, TypeOK
  <2> QED
    BY <1>4, <1>11, <2>1, <2>2 DEF SharedBufferInv, TypeOK
<1>13. \A b : /\ ~GivesUp(call[t], b) /\ ~Deallocates(call[t], b) /\ ~Deallocates(r, b)
              /\ GivesUp(r, b) <=> b = old
  BY <1>1, <1>4, <1>10 DEF GivesUp, Deallocates
<1>14. /\ handle'[c.h] = f /\ mRefs'[f] = 1 /\ mData'[f] = Resized(mData[old], n)
       /\ \A b \in Buffers : b # f => mRefs'[b] = mRefs[b] /\ mData'[b] = mData[b]
       /\ \A h \in Handles : h # c.h => handle'[h] = handle[h]
  BY <1>4, <1>5, <1>6 DEF SharedBufferInv, TypeOK
<1>15. ASSUME NEW b \in Buffers
       PROVE  CountOK(b)'
  <2>1. CountOK(b)
    BY DEF SharedBufferInv, CountsMatch, CountOK
  <2>2. Deallocating(b)' = Deallocating(b)
    BY <1>4, <1>13, CallChange DEF SharedBufferInv
  <2>3. CASE b = f
    <3>1. HoldersOf(f)' = {c.h}
      BY <1>5, <1>6, <1>14 DEF HoldersOf
    <3>2. Releasing(f)' = Releasing(f)
      BY <1>4, <1>6, <1>13, CallChange DEF SharedBufferInv
    <3>3. Cardinality({c.h}) = 1 /\ Cardinality({}) = 0
      BY FS_EmptySet, FS_Singleton
    <3> QED
      BY <1>4, <1>6, <1>14, <2>2, <2>3, <3>1, <3>2, <3>3 DEF CountOK
  <2>4. CASE b = old
    <3>1. Cardinality(HoldersOf(old)') = Cardinality(HoldersOf(old)) - 1
      <4>1. PICK h \in Handles : h = c.h
        BY <1>5
      <4>2. handle' = [handle EXCEPT ![h] = f] /\ handle[h] = old /\ f # old
        BY <1>1, <1>4, <1>6, <4>1
      <4> QED
        BY <4>2, HandleChange DEF SharedBufferInv
    <3>2. Cardinality(Releasing(old)') = Cardinality(Releasing(old)) + 1
      BY <1>4, <1>13, CallChange DEF SharedBufferInv
    <3>3. Cardinality(HoldersOf(old)) \in Nat /\ Cardinality(Releasing(old)) \in Nat
      BY CountedSets
    <3>4. mRefs[old] = Cardinality(HoldersOf(old)) + Cardinality(Releasing(old))
      BY <1>5, <2>1, <2>4 DEF CountOK
    <3>5. mRefs'[old] = Cardinality(HoldersOf(old)') + Cardinality(Releasing(old)')
      BY <1>5, <1>6, <1>14, <3>1, <3>2, <3>3, <3>4
    <3>6. Cardinality(Deallocating(old)') = IF mRefs'[old] = 0 THEN 1 ELSE 0
      BY <1>5, <1>6, <1>14, <2>1, <2>2, <2>4 DEF CountOK
    <3>7. old \in live'
      BY <1>4, <1>5
    <3> QED
      BY <2>4, <3>5, <3>6, <3>7 DEF CountOK
  <2>5. CASE b # f /\ b # old
    <3>1. HoldersOf(b)' = HoldersOf(b)
      BY <1>1, <1>4, <1>5, <2>5, HandleChange, ZenonT(30) DEF SharedBufferInv
    <3>2. Releasing(b)' = Releasing(b)
      BY <1>4, <1>13, <2>5, CallChange DEF SharedBufferInv
    <3>3. mRefs'[b] = mRefs[b] /\ (b \in live' <=> b \in live)
      BY <1>4, <1>14, <2>5
    <3> QED
      BY <2>1, <2>2, <3>1, <3>2, <3>3, CountKept
  <2> QED
    BY <2>3, <2>4, <2>5
<1>16. ASSUME NEW u \in Threads, NEW e \in Edits, EditOf(call'[u]) = e
       PROVE  EditOK(u, e)'
  <2>1. CASE u = t
    <3>1. e = w
      BY <1>10, <1>11, <1>16, <2>1 DEF EditOf
    <3>2. f # NULL
      BY <1>6 DEF BufferAssumption
    <3> QED
      BY <1>4, <1>5, <1>7, <1>8, <1>9, <1>14, <2>1, <3>1, <3>2 DEF EditOK
  <2>2. CASE u # t
    <3>1. EditOf(call[u]) = e
      BY <1>11, <1>16, <2>2
    <3>2. /\ EditOK(u, e) /\ e.h \in Handles /\ owner[e.h] = u
          /\ handle[e.h] \in Buffers /\ handle[e.h] \in live
      BY <3>1, OtherEdit
    <3>3. handle[e.h] # f /\ e.h # c.h
      BY <1>5, <1>6, <2>2, <3>2
    <3>4. e.op = "write" => mRefs'[handle[e.h]] = 1
      BY <1>14, <3>2, <3>3 DEF EditOK
    <3> QED
      BY <1>4, <1>14, <3>2, <3>3, <3>4, EditKept
  <2> QED
    BY <2>1, <2>2
<1>17. EditInv'
  BY <1>16 DEF EditInv, EditOf, InRelease
<1> QED
  BY <1>12, <1>15, <1>17 DEF SharedBufferInv, CountsMatch, CountOK

-----------------------------------------------------------------------------

LEMMA InitSafe ==
    ASSUME BufferAssumption, Init
    PROVE  SharedBufferInv
<1>1. TypeOK
  <2>1. <<>> \in Contents /\ NoCall \in Calls
    BY CallFacts DEF Contents
  <2> QED
    BY <2>1 DEF Init, TypeOK
<1>2. CountsMatch
  BY DEF CountsMatch, Init, HoldersOf, Releasing, Deallocating, At, NoCall, BufferAssumption
<1>3. EditInv
  <2>1. \A t \in Threads : EditOf(call[t]) = NoCall
    BY CallFacts DEF Init, EditOf
  <2>2. NoCall \notin Edits
    BY EditFacts
  <2> QED
    BY <2>1, <2>2 DEF EditInv
<1> QED
  BY <1>1, <1>2, <1>3 DEF SharedBufferInv

LEMMA NextSafe ==
    ASSUME BufferAssumption, SharedBufferInv, [Next]_vars
    PROVE  SharedBufferInv'
<1>1. CASE UNCHANGED vars
  <2>1. TypeOK'
    BY <1>1 DEF vars, SharedBufferInv, TypeOK
  <2>2. CountsMatch'
    BY <1>1 DEF vars, SharedBufferInv, CountsMatch, HoldersOf, Releasing, Deallocating, At
  <2>3. EditInv'
    BY <1>1 DEF vars, SharedBufferInv, EditInv, EditOK, EditOf, InRelease
  <2> QED
    BY <2>1, <2>2, <2>3 DEF SharedBufferInv
<1>2. CASE Next
  <2>1. PICK t \in Threads :
            \/ ReleaseLoad(t)
            \/ ReleaseDec(t)
            \/ Deallocate(t)
            \/ EditTest(t)
            \/ EditTestAgain(t)
            \/ EditCopy(t)
            \/ Write(t)
            \/ \E h \in Handles, n \in Sizes : Create(t, h, n)
            \/ \E h \in Handles, g \in Handles : RetainBuffer(t, g, h)
            \/ \E h \in Handles : ReleaseBuffer(t, h)
            \/ \E h \in Handles, n \in 0 .. MaxSize, i \in Sizes, x \in Values :
                    BeginEdit(t, h, n, i, x)
            \/ \E h \in Handles, u \in Threads : HandOver(t, h, u)
    BY <1>2 DEF Next
  <2> QED
    BY <2>1, ReleaseLoadStep, ReleaseDecStep, DeallocateStep, EditTestStep, EditTestAgainStep,
       EditCopyStep, WriteStep, CreateStep, RetainStep, ReleaseBufferStep, BeginEditStep,
       HandOverStep
<1> QED
  BY <1>1, <1>2

LEMMA InvSafe ==
    ASSUME BufferAssumption, SharedBufferInv
    PROVE  BuffersAreCounted
<1>1. ASSUME NEW t \in Threads, At(t, "write")
      PROVE  mRefs[handle[call[t].h]] = 1
  <2>1. EditOK(t, call[t])
    BY <1>1, ThisEdit DEF At
  <2> QED
    BY <1>1, <2>1 DEF EditOK, At
<1> QED
  BY <1>1 DEF BuffersAreCounted, WriterIsAlone, SharedBufferInv

(* No call ever breaks the inductive invariant: every reference to a buffer   *)
(* is counted, and every edit under way has a holder of its own with room for *)
(* the write, alone with the buffer once the tests are made.                  *)
THEOREM SharedBufferSafe ==
    BufferAssumption => (Spec => []SharedBufferInv)
<1> SUFFICES ASSUME BufferAssumption
             PROVE  Spec => []SharedBufferInv
  OBVIOUS
<1>1. Init => SharedBufferInv
  BY InitSafe
<1>2. SharedBufferInv /\ [Next]_vars => SharedBufferInv'
  BY NextSafe
<1> QED
  BY <1>1, <1>2, PTL DEF Spec

(* A buffer is freed when its last reference is given up and not before, and *)
(* a thread that writes is alone with its buffer, although it looked at the  *)
(* count steps ago.                                                          *)
THEOREM BuffersSafe ==
    BufferAssumption => (Spec => []BuffersAreCounted)
<1> SUFFICES ASSUME BufferAssumption
             PROVE  Spec => []BuffersAreCounted
  OBVIOUS
<1>1. SharedBufferInv => BuffersAreCounted
  BY InvSafe
<1>2. Spec => []SharedBufferInv
  BY SharedBufferSafe
<1> QED
  BY <1>1, <1>2, PTL

-----------------------------------------------------------------------------
(* The buffers implement sequences that are the holders' own. *)

Value == [h \in Handles |-> IF handle[h] = NULL THEN NULL ELSE mData[handle[h]]]

(* What resizing and writing do to a sequence. *)
LEMMA ResizeLonger ==
    ASSUME NEW s \in Contents, NEW k \in Nat, k > Len(s)
    PROVE  Resized(s, k) = SubSeq(s, 1, Len(s)) \o Resized(<<>>, k - Len(s))
                                \o SubSeq(s, Len(s) + 0 + 1, Len(s))
<1>1. Len(s) \in Nat /\ k - Len(s) \in Nat
  BY DEF Contents
<1>2. SubSeq(s, 1, Len(s)) = s /\ SubSeq(s, Len(s) + 0 + 1, Len(s)) = <<>>
  BY <1>1 DEF Contents
<1>3. /\ Resized(s, k) \in Contents /\ Len(Resized(s, k)) = k
      /\ \A i \in 1 .. k : Resized(s, k)[i] = IF i <= Len(s) THEN s[i] ELSE Junk
  BY ResizedFacts DEF Resized
<1> DEFINE p == Resized(<<>>, k - Len(s))
<1>4. /\ p \in Contents /\ Len(p) = k - Len(s)
      /\ \A i \in 1 .. k - Len(s) : p[i] = Junk
  <2>1. <<>> \in Contents /\ Len(<<>>) = 0
    BY DEF Contents
  <2> QED
    BY <1>1, <2>1, ResizedFacts DEF Resized
<1> HIDE DEF p
<1>5. /\ s \o p \in Contents /\ Len(s \o p) = k
      /\ \A i \in 1 .. k : (s \o p)[i] = IF i <= Len(s) THEN s[i] ELSE Junk
  <2>1. s \o p \in Contents /\ Len(s \o p) = k
    BY <1>1, <1>4 DEF Contents
  <2>2. ASSUME NEW i \in 1 .. k, i <= Len(s)
        PROVE  (s \o p)[i] = s[i]
    BY <1>1, <1>4, <2>2 DEF Contents
  <2>3. ASSUME NEW i \in 1 .. k, ~(i <= Len(s))
        PROVE  (s \o p)[i] = Junk
    <3>1. (s \o p)[i] = p[i - Len(s)] /\ i - Len(s) \in 1 .. k - Len(s)
      BY <1>1, <1>4, <2>3 DEF Contents
    <3> QED
      BY <1>4, <3>1
  <2> QED
    BY <2>1, <2>2, <2>3
<1>6. Resized(s, k) = s \o p
  BY <1>3, <1>5, SeqEqual DEF Contents
<1>7. (s \o p) \o <<>> = s \o p
  BY <1>5 DEF Contents
<1> QED
  BY <1>2, <1>6, <1>7 DEF p

LEMMA ResizeShorter ==
    ASSUME NEW s \in Contents, NEW k \in Nat, k <= Len(s)
    PROVE  Resized(s, k) = SubSeq(s, 1, k) \o <<>> \o SubSeq(s, k + (Len(s) - k) + 1, Len(s))
<1>1. Len(s) \in Nat /\ k + (Len(s) - k) + 1 = Len(s) + 1
  BY DEF Contents
<1>2. SubSeq(s, Len(s) + 1, Len(s)) = <<>>
  BY <1>1 DEF Contents
<1>3. /\ SubSeq(s, 1, k) \in Contents /\ Len(SubSeq(s, 1, k)) = k
      /\ \A i \in 1 .. k : SubSeq(s, 1, k)[i] = s[i]
  BY <1>1 DEF Contents
<1>4. SubSeq(s, 1, k) \o <<>> \o <<>> = SubSeq(s, 1, k)
  BY <1>3 DEF Contents
<1>5. Resized(s, k) \in Contents /\ Len(Resized(s, k)) = k
  BY ResizedFacts
<1>6. \A i \in 1 .. k : Resized(s, k)[i] = s[i]
  BY <1>1 DEF Resized
<1>7. Resized(s, k) = SubSeq(s, 1, k)
  BY <1>3, <1>5, <1>6, SeqEqual DEF Contents
<1> QED
  BY <1>1, <1>2, <1>4, <1>7

LEMMA ResizeSame ==
    ASSUME NEW s \in Contents
    PROVE  Resized(s, Len(s)) = s
<1>1. Len(s) \in Nat
  BY DEF Contents
<1>2. Resized(s, Len(s)) \in Contents /\ Len(Resized(s, Len(s))) = Len(s)
  BY <1>1, ResizedFacts
<1>3. \A i \in 1 .. Len(s) : Resized(s, Len(s))[i] = s[i]
  BY <1>1 DEF Resized
<1> QED
  BY <1>2, <1>3, SeqEqual DEF Contents

LEMMA WriteOne ==
    ASSUME NEW s \in Contents, NEW i \in 1 .. Len(s), NEW x \in Values
    PROVE  [s EXCEPT ![i] = x] =
                SubSeq(s, 1, i - 1) \o <<x>> \o SubSeq(s, (i - 1) + Len(<<x>>) + 1, Len(s))
<1>1. Len(s) \in Nat /\ (i - 1) + Len(<<x>>) + 1 = i + 1
  BY DEF Contents
<1> DEFINE a == SubSeq(s, 1, i - 1)
           b == SubSeq(s, i + 1, Len(s))
<1>2. a \in Contents /\ Len(a) = i - 1 /\ \A j \in 1 .. i - 1 : a[j] = s[j]
  BY <1>1 DEF Contents
<1>3. b \in Contents /\ Len(b) = Len(s) - i /\ \A j \in 1 .. Len(s) - i : b[j] = s[j + i]
  BY <1>1 DEF Contents
<1> HIDE DEF a, b
<1>4. /\ a \o <<x>> \in Contents /\ Len(a \o <<x>>) = i
      /\ \A j \in 1 .. i - 1 : (a \o <<x>>)[j] = s[j]
      /\ (a \o <<x>>)[i] = x
  BY <1>1, <1>2, SMTT(30) DEF Contents
<1> DEFINE c == a \o <<x>>
<1>5. /\ c \in Contents /\ Len(c) = i /\ \A j \in 1 .. i - 1 : c[j] = s[j]
      /\ c[i] = x
  BY <1>4
<1> HIDE DEF c
<1>6. /\ c \o b \in Contents /\ Len(c \o b) = Len(s)
      /\ \A j \in 1 .. Len(s) : (c \o b)[j] = IF j <= i THEN c[j] ELSE b[j - i]
  <2>1. i \in Nat /\ Len(c) + Len(b) = Len(s)
    BY <1>1, <1>3, <1>5
  <2>2. c \o b \in Contents /\ Len(c \o b) = Len(c) + Len(b)
    BY <1>3, <1>5, ConcatProperties DEF Contents
  <2>3. \A j \in 1 .. Len(c) + Len(b) : (c \o b)[j] = IF j <= Len(c) THEN c[j] ELSE b[j - Len(c)]
    BY <1>3, <1>5 DEF Contents
  <2> QED
    BY <1>5, <2>1, <2>2, <2>3
<1>7. /\ [s EXCEPT ![i] = x] \in Contents /\ Len([s EXCEPT ![i] = x]) = Len(s)
      /\ \A j \in 1 .. Len(s) : [s EXCEPT ![i] = x][j] = IF j = i THEN x ELSE s[j]
  BY ExceptSeq DEF Contents
<1>8. \A j \in 1 .. Len(s) : (c \o b)[j] = IF j = i THEN x ELSE s[j]
  <2>1. ASSUME NEW j \in 1 .. Len(s), j > i
        PROVE  b[j - i] = s[j]
    BY <1>1, <1>3, <2>1
  <2> QED
    BY <1>1, <1>5, <1>6, <2>1
<1>9. [s EXCEPT ![i] = x] = c \o b
  <2> DEFINE d == [s EXCEPT ![i] = x]
             e == c \o b
  <2>1. /\ d \in Contents /\ e \in Contents /\ Len(d) = Len(e)
        /\ \A j \in 1 .. Len(d) : d[j] = e[j]
    BY <1>6, <1>7, <1>8
  <2> HIDE DEF d, e
  <2>2. d = e
    BY <2>1, SeqEqual DEF Contents
  <2> QED
    BY <2>2 DEF d, e
<1> QED
  BY <1>1, <1>9 DEF a, b, c

(* A step in which one holder gets a content, or none does. *)
LEMMA OneValueChanges ==
    ASSUME TypeOK, NEW h \in Handles, NEW s, DOMAIN handle' = Handles,
           s = IF handle'[h] = NULL THEN NULL ELSE mData'[handle'[h]],
           \A g \in Handles : g # h =>
                /\ handle'[g] = handle[g]
                /\ handle[g] # NULL => mData'[handle[g]] = mData[handle[g]]
    PROVE  Abstract!Become(h, s)
<1>1. Value' = [Value EXCEPT ![h] = s]
  BY ZenonT(30) DEF Value
<1> QED
  BY <1>1 DEF Value, Abstract!Become

LEMMA NoValueChanges ==
    ASSUME handle' = handle, \A g \in Handles : handle[g] # NULL =>
                                    mData'[handle[g]] = mData[handle[g]]
    PROVE  Value' = Value
  BY DEF Value

LEMMA ValueFacts ==
    ASSUME BufferAssumption, TypeOK, NEW h \in Handles
    PROVE  /\ Abstract!Exists(h) <=> handle[h] # NULL
           /\ handle[h] # NULL => Value[h] = mData[handle[h]] /\ mData[handle[h]] \in Contents
<1>1. handle[h] # NULL => mData[handle[h]] \in Contents /\ mData[handle[h]] # NULL
  BY DEF TypeOK, BufferAssumption, Contents
<1> QED
  BY <1>1 DEF Value, Abstract!Exists

(* A part of a holder's content gives way to another. *)
LEMMA Splices ==
    ASSUME BufferAssumption, TypeOK, NEW h \in Handles, handle[h] # NULL, NEW s, s = Value[h],
           NEW i, NEW n, NEW p, i + n <= Len(s),
           NEW r, r = SubSeq(s, 1, i) \o p \o SubSeq(s, i + n + 1, Len(s)), Abstract!Become(h, r)
    PROVE  Abstract!Splice(h, i, n, p)
<1>1. Abstract!Exists(h)
  BY ValueFacts
<1>2. Value' = [Value EXCEPT ![h] = r]
  BY DEF Abstract!Become, Value
<1>3. Value' = [Value EXCEPT ![h] =
                    SubSeq(Value[h], 1, i) \o p \o SubSeq(Value[h], i + n + 1, Len(Value[h]))]
  BY <1>2
<1>4. i + n <= Len(Value[h])
  OBVIOUS
<1> QED
  BY <1>1, <1>3, <1>4 DEF Abstract!Splice, Abstract!Become, Value

(* A holder whose content is resized: pieces are inserted or erased at the end. *)
LEMMA ResizedValue ==
    ASSUME BufferAssumption, TypeOK, NEW h \in Handles, handle[h] # NULL, NEW k \in 0 .. MaxSize,
           NEW s, s = mData[handle[h]], NEW r, r = Resized(s, k), Abstract!Become(h, r)
    PROVE  Abstract!Next \/ Value' = Value
<1>1. s \in Contents /\ s = Value[h] /\ Len(s) \in Nat /\ k \in Nat /\ Abstract!Exists(h)
  BY ValueFacts DEF Contents, BufferAssumption
<1>2. CASE k > Len(s)
  <2>1. PICK p, i : p = Resized(<<>>, k - Len(s)) /\ i = Len(s)
    OBVIOUS
  <2>2. r = SubSeq(s, 1, i) \o p \o SubSeq(s, i + 0 + 1, Len(s))
    BY <1>1, <1>2, <2>1, ResizeLonger
  <2>3. i + 0 <= Len(s) /\ i \in 0 .. Len(s)
    BY <1>1, <2>1
  <2>4. Abstract!Splice(h, i, 0, p)
    BY <1>1, <2>2, <2>3, Splices
  <2>5. Abstract!Insert(h, i, p)
    BY <2>4 DEF Abstract!Insert
  <2>6. k - Len(s) \in Sizes
    BY <1>1, <1>2 DEF Sizes, BufferAssumption
  <2>7. p \in {<<x>> : x \in Values} \cup {Resized(<<>>, n) : n \in Sizes}
    BY <2>1, <2>6
  <2>8. i \in 0 .. Len(Value[h])
    BY <1>1, <2>3
  <2> QED
    BY <1>1, <2>5, <2>7, <2>8 DEF Abstract!Next, Value
<1>3. CASE k < Len(s)
  <2>1. PICK n : n = Len(s) - k
    OBVIOUS
  <2>2. n \in 1 .. Len(s) /\ k \in 0 .. Len(s) /\ k + n <= Len(s)
    BY <1>1, <1>3, <2>1
  <2>3. r = SubSeq(s, 1, k) \o <<>> \o SubSeq(s, k + n + 1, Len(s))
    BY <1>1, <1>3, <2>1, ResizeShorter
  <2>4. Abstract!Splice(h, k, n, <<>>)
    BY <1>1, <2>2, <2>3, Splices
  <2>5. Abstract!Erase(h, k, n)
    BY <2>4 DEF Abstract!Erase
  <2>6. n \in 1 .. Len(Value[h]) /\ k \in 0 .. Len(Value[h])
    BY <1>1, <2>2
  <2> QED
    BY <1>1, <2>5, <2>6 DEF Abstract!Next, Value
<1>4. CASE k = Len(s)
  <2>1. r = s
    BY <1>1, <1>4, ResizeSame
  <2>2. Value' = [Value EXCEPT ![h] = r]
    BY DEF Abstract!Become, Value
  <2> QED
    BY <1>1, <2>1, <2>2 DEF Value
<1> QED
  BY <1>1, <1>2, <1>3, <1>4

LEMMA CreateMakes ==
    ASSUME BufferAssumption, SharedBufferInv, NEW t \in Threads, NEW h \in Handles,
           NEW n \in Sizes, Create(t, h, n)
    PROVE  Abstract!Next
<1>1. PICK f, s : f = Free /\ s = Resized(<<>>, n)
  OBVIOUS
<1>2. f \in Buffers /\ HoldersOf(f) = {}
  BY <1>1, FreeFacts DEF Create, SharedBufferInv
<1>3. handle[h] = NULL /\ handle' = [handle EXCEPT ![h] = f] /\ mData' = [mData EXCEPT ![f] = s]
  BY <1>1 DEF Create
<1>4. s = IF handle'[h] = NULL THEN NULL ELSE mData'[handle'[h]]
  BY <1>2, <1>3 DEF SharedBufferInv, TypeOK, BufferAssumption
<1>5. ASSUME NEW g \in Handles, g # h
      PROVE  /\ handle'[g] = handle[g]
             /\ handle[g] # NULL => mData'[handle[g]] = mData[handle[g]]
  BY <1>2, <1>3, <1>5 DEF SharedBufferInv, TypeOK, HoldersOf
<1>6. Abstract!Become(h, s)
  BY <1>3, <1>4, <1>5, OneValueChanges DEF SharedBufferInv, TypeOK
<1>7. Abstract!Make(h, s)
  BY <1>3, <1>6, ValueFacts DEF Abstract!Make, SharedBufferInv
<1>8. s \in {Resized(<<>>, m) : m \in Sizes}
  BY <1>1
<1> QED
  BY <1>7, <1>8 DEF Abstract!Next

LEMMA RetainCopies ==
    ASSUME BufferAssumption, SharedBufferInv, NEW t \in Threads, NEW g \in Handles,
           NEW h \in Handles, RetainBuffer(t, g, h)
    PROVE  Abstract!Next
<1>1. PICK s : s = Value[h]
  OBVIOUS
<1>2. /\ handle[g] = NULL /\ handle[h] # NULL
      /\ handle' = [handle EXCEPT ![g] = handle[h]] /\ mData' = mData
  BY DEF RetainBuffer
<1>3. s = mData[handle[h]]
  BY <1>1, <1>2, ValueFacts DEF SharedBufferInv
<1>4. s = IF handle'[g] = NULL THEN NULL ELSE mData'[handle'[g]]
  BY <1>2, <1>3 DEF SharedBufferInv, TypeOK
<1>5. Abstract!Become(g, s)
  BY <1>2, <1>4, OneValueChanges DEF SharedBufferInv, TypeOK
<1>6. Abstract!Copy(g, h)
  <2>1. Abstract!Exists(h) /\ Value' = [Value EXCEPT ![g] = s]
    BY <1>2, <1>5, ValueFacts DEF SharedBufferInv, Abstract!Become, Value
  <2>2. Value' = [Value EXCEPT ![g] = Value[h]]
    BY <1>1, <2>1
  <2> QED
    BY <2>1, <2>2 DEF Abstract!Copy, Abstract!Become, Value
<1> QED
  BY <1>6 DEF Abstract!Next

LEMMA ReleaseDrops ==
    ASSUME BufferAssumption, SharedBufferInv, NEW t \in Threads, NEW h \in Handles,
           ReleaseBuffer(t, h)
    PROVE  Abstract!Next
<1>1. handle[h] # NULL /\ handle' = [handle EXCEPT ![h] = NULL] /\ mData' = mData
  BY DEF ReleaseBuffer
<1>2. NULL = IF handle'[h] = NULL THEN NULL ELSE mData'[handle'[h]]
  BY <1>1 DEF SharedBufferInv, TypeOK
<1>3. Abstract!Become(h, NULL)
  BY <1>1, <1>2, OneValueChanges DEF SharedBufferInv, TypeOK
<1>4. Abstract!Drop(h)
  BY <1>1, <1>3, ValueFacts DEF Abstract!Drop, SharedBufferInv
<1> QED
  BY <1>4 DEF Abstract!Next

LEMMA DeallocateStutters ==
    ASSUME BufferAssumption, SharedBufferInv, NEW t \in Threads, Deallocate(t)
    PROVE  Value' = Value
<1>1. PICK c, f : c = call[t] /\ f = c.buf
  OBVIOUS
<1>2. c.op = "deallocate" /\ f \in Buffers
  BY <1>1, CallTyped, CallFacts DEF Deallocate, At, InRelease
<1>3. HoldersOf(f) = {}
  BY <1>1, <1>2, References DEF SharedBufferInv, Deallocates
<1>4. handle' = handle /\ mData' = [mData EXCEPT ![f] = <<>>]
  BY <1>1 DEF Deallocate
<1>5. \A g \in Handles : handle[g] # NULL => mData'[handle[g]] = mData[handle[g]]
  BY <1>3, <1>4 DEF HoldersOf, SharedBufferInv, TypeOK
<1> QED
  BY <1>4, <1>5, NoValueChanges

LEMMA EditTestAgainResizes ==
    ASSUME BufferAssumption, SharedBufferInv, NEW t \in Threads, EditTestAgain(t)
    PROVE  Abstract!Next \/ Value' = Value
<1>1. PICK c, f, h, k : c = call[t] /\ h = c.h /\ f = handle[h] /\ k = c.size
  OBVIOUS
<1>2. /\ h \in Handles /\ f \in Buffers /\ f # NULL /\ mRefs[f] \in Nat /\ mRefs[f] >= 1
      /\ k \in 0 .. MaxSize
  <2>1. c \in Edits /\ h \in Handles /\ f \in Buffers /\ mRefs[f] \in Nat /\ mRefs[f] >= 1
    BY <1>1, ThisEdit DEF EditTestAgain, At
  <2> QED
    BY <1>1, <2>1, EditFacts DEF BufferAssumption
<1>3. CASE ~IsBufferNotShared(f)
  <2>1. handle' = handle /\ mData' = mData
    BY <1>1, <1>3 DEF EditTestAgain
  <2> QED
    BY <2>1, NoValueChanges
<1>4. CASE IsBufferNotShared(f)
  <2>1. handle' = handle /\ mData' = [mData EXCEPT ![f] = Resized(mData[f], k)]
    BY <1>1, <1>4 DEF EditTestAgain
  <2>2. \A g \in Handles : g # h => handle[g] # f
    <3>1. mRefs[f] = 1
      BY <1>2, <1>4 DEF IsBufferNotShared
    <3> QED
      BY <1>1, <1>2, <3>1, References DEF SharedBufferInv
  <2>3. \A g \in Handles : g # h => /\ handle'[g] = handle[g]
                                    /\ handle[g] # NULL => mData'[handle[g]] = mData[handle[g]]
    BY <2>1, <2>2 DEF SharedBufferInv, TypeOK
  <2>4. PICK o, s : o = mData[f] /\ s = Resized(o, k)
    OBVIOUS
  <2>5. s = IF handle'[h] = NULL THEN NULL ELSE mData'[handle'[h]]
    BY <1>1, <1>2, <2>1, <2>4 DEF SharedBufferInv, TypeOK
  <2>6. Abstract!Become(h, s)
    BY <1>2, <2>1, <2>3, <2>5, OneValueChanges DEF SharedBufferInv, TypeOK
  <2> QED
    BY <1>1, <1>2, <2>4, <2>6, ResizedValue DEF SharedBufferInv
<1> QED
  BY <1>3, <1>4

LEMMA EditCopyResizes ==
    ASSUME BufferAssumption, SharedBufferInv, NEW t \in Threads, EditCopy(t)
    PROVE  Abstract!Next \/ Value' = Value
<1>1. PICK c, h, old, f : c = call[t] /\ h = c.h /\ old = handle[h] /\ f = Free
  OBVIOUS
<1>2. PICK n : n = IF c.size = 0 THEN Len(mData[old]) ELSE c.size
  OBVIOUS
<1>3. /\ live # Buffers /\ handle' = [handle EXCEPT ![h] = f]
      /\ mData' = [mData EXCEPT ![f] = Resized(mData[old], n)]
  BY <1>1, <1>2 DEF EditCopy
<1>4. c \in Edits /\ h \in Handles /\ old \in Buffers /\ old # NULL /\ mData[old] \in Contents
  BY <1>1, ThisEdit DEF EditCopy, At, BufferAssumption
<1>5. f \in Buffers /\ f # NULL /\ HoldersOf(f) = {}
  BY <1>1, <1>3, FreeFacts DEF SharedBufferInv, BufferAssumption
<1>6. PICK o, s : o = mData[old] /\ s = Resized(o, n)
  OBVIOUS
<1>7. s = IF handle'[h] = NULL THEN NULL ELSE mData'[handle'[h]]
  BY <1>3, <1>4, <1>5, <1>6 DEF SharedBufferInv, TypeOK
<1>8. \A g \in Handles : g # h => /\ handle'[g] = handle[g]
                                  /\ handle[g] # NULL => mData'[handle[g]] = mData[handle[g]]
  BY <1>3, <1>5 DEF SharedBufferInv, TypeOK, HoldersOf
<1>9. Abstract!Become(h, s)
  BY <1>3, <1>4, <1>7, <1>8, OneValueChanges DEF SharedBufferInv, TypeOK
<1>10. CASE c.size = 0
  <2>1. s = mData[old]
    BY <1>2, <1>4, <1>6, <1>10, ResizeSame
  <2>2. Value' = [Value EXCEPT ![h] = Value[h]]
    BY <1>1, <1>4, <1>9, <2>1, ValueFacts DEF Abstract!Become, Value, SharedBufferInv
  <2> QED
    BY <2>2 DEF Value
<1>11. CASE c.size # 0
  <2>1. n \in 0 .. MaxSize
    BY <1>2, <1>4, <1>11, EditFacts
  <2> QED
    BY <1>1, <1>4, <1>6, <1>9, <2>1, ResizedValue DEF SharedBufferInv
<1> QED
  BY <1>10, <1>11

LEMMA WriteWrites ==
    ASSUME BufferAssumption, SharedBufferInv, NEW t \in Threads, Write(t)
    PROVE  Abstract!Next
<1>1. PICK c, h, f, i, x : c = call[t] /\ h = c.h /\ f = handle[h] /\ i = c.at /\ x = c.x
  OBVIOUS
<1>2. c.op = "write" /\ handle' = handle /\ mData' = [mData EXCEPT ![f] = [mData[f] EXCEPT ![i] = x]]
  BY <1>1 DEF Write, At
<1>3. /\ c \in Edits /\ EditOK(t, c) /\ h \in Handles /\ f \in Buffers /\ f # NULL
      /\ mData[f] \in Contents
  BY <1>1, <1>2, ThisEdit DEF BufferAssumption
<1>4. i \in Sizes /\ x \in Values /\ mRefs[f] = 1 /\ i <= Len(mData[f])
  BY <1>1, <1>2, <1>3, EditFacts DEF EditOK
<1>5. PICK s : s = mData[f]
  OBVIOUS
<1>6. i \in 1 .. Len(s) /\ Len(s) \in Nat /\ s \in Contents
  BY <1>3, <1>4, <1>5 DEF Sizes, BufferAssumption, Contents
<1>7. \A g \in Handles : g # h => handle[g] # f
  BY <1>1, <1>3, <1>4, References DEF SharedBufferInv
<1>8. \A g \in Handles : g # h => /\ handle'[g] = handle[g]
                                  /\ handle[g] # NULL => mData'[handle[g]] = mData[handle[g]]
  BY <1>2, <1>7 DEF SharedBufferInv, TypeOK
<1>9. PICK r : r = [s EXCEPT ![i] = x]
  OBVIOUS
<1>10. r = IF handle'[h] = NULL THEN NULL ELSE mData'[handle'[h]]
  BY <1>1, <1>2, <1>3, <1>5, <1>9 DEF SharedBufferInv, TypeOK
<1>11. Abstract!Become(h, r)
  BY <1>2, <1>3, <1>8, <1>10, OneValueChanges DEF SharedBufferInv, TypeOK
<1>12. PICK p, j : p = <<x>> /\ j = i - 1
  OBVIOUS
<1>13. r = SubSeq(s, 1, j) \o p \o SubSeq(s, j + Len(p) + 1, Len(s))
  BY <1>4, <1>6, <1>9, <1>12, WriteOne
<1>14. s = Value[h] /\ Abstract!Exists(h)
  BY <1>1, <1>3, <1>5, ValueFacts DEF SharedBufferInv
<1>15. j + Len(p) <= Len(s) /\ j \in 0 .. Len(s)
  BY <1>6, <1>12
<1>16. Abstract!Write(h, j, p)
  <2>1. PICK n : n = Len(p)
    OBVIOUS
  <2>2. Abstract!Splice(h, j, n, p)
    BY <1>1, <1>3, <1>11, <1>13, <1>14, <1>15, <2>1, Splices DEF SharedBufferInv
  <2> QED
    BY <2>1, <2>2 DEF Abstract!Write
<1>17. p \in {<<y>> : y \in Values} \cup {Resized(<<>>, n) : n \in Sizes}
  BY <1>4, <1>12
<1> QED
  BY <1>3, <1>14, <1>15, <1>16, <1>17 DEF Abstract!Next, Value

LEMMA StepImplements ==
    ASSUME BufferAssumption, SharedBufferInv, [Next]_vars
    PROVE  Abstract!Next \/ Value' = Value
<1>1. CASE handle' = handle /\ mData' = mData
  BY <1>1, NoValueChanges
<1>2. CASE Next /\ ~(handle' = handle /\ mData' = mData)
  <2>1. PICK t \in Threads :
            \/ Deallocate(t)
            \/ EditTestAgain(t)
            \/ EditCopy(t)
            \/ Write(t)
            \/ \E h \in Handles, n \in Sizes : Create(t, h, n)
            \/ \E h \in Handles, g \in Handles : RetainBuffer(t, g, h)
            \/ \E h \in Handles : ReleaseBuffer(t, h)
    BY <1>2 DEF Next, ReleaseLoad, ReleaseDec, EditTest, BeginEdit, HandOver
  <2> QED
    BY <2>1, DeallocateStutters, EditTestAgainResizes, EditCopyResizes, WriteWrites, CreateMakes,
       RetainCopies, ReleaseDrops
<1> QED
  BY <1>1, <1>2 DEF vars

(* Copy on write is invisible: whoever holds a buffer sees the content it     *)
(* copied and its own writes, and no step of another thread ever changes it.  *)
(* Every step is a Make, Copy, Drop, Insert, Erase or Write of one holder, or *)
(* changes nothing.                                                           *)
THEOREM BuffersImplementSequences ==
    BufferAssumption => (Spec => KeepsOwnContent)
<1> SUFFICES ASSUME BufferAssumption
             PROVE  Spec => KeepsOwnContent
  OBVIOUS
<1>1. Init => Abstract!Init
  BY DEF Init, Abstract!Init
<1>2. SharedBufferInv /\ [Next]_vars => [Abstract!Next]_Value
  BY StepImplements
<1>3. Spec => []SharedBufferInv
  BY SharedBufferSafe
<1> QED
  BY <1>1, <1>2, <1>3, PTL DEF Spec, KeepsOwnContent, Abstract!Spec, Value

-----------------------------------------------------------------------------
(* Induction, with the set of the numbers that a property holds of.        *)
LEMMA LeastOf ==
    ASSUME NEW P, P \subseteq Nat, P # {}
    PROVE  \E i \in P : \A j \in P : i <= j
<1> DEFINE Before == OpToRel(<, Nat)
<1>1. IsWellFoundedOn(Before, Nat)
  BY NatLessThanWellFounded
<1>2. \A i, j \in Nat : i < j => <<i, j>> \in Before
  BY DEF OpToRel
<1> HIDE DEF Before
<1>3. PICK i \in P : \A j \in P : ~(<<j, i>> \in Before)
  BY <1>1, WFMin
<1>4. \A j \in P : ~(j < i)
  BY <1>2, <1>3
<1> QED
  BY <1>4

\* What holds of 0 and of the next number holds of all up to N.
LEMMA InductionUpTo ==
    ASSUME NEW N \in Nat, NEW P, 0 \in P, \A n \in 0 .. N - 1 : n \in P => n + 1 \in P
    PROVE  \A n \in 0 .. N : n \in P
<1> SUFFICES ASSUME NEW m \in 0 .. N, m \notin P PROVE FALSE
  OBVIOUS
<1> DEFINE W == (0 .. N) \ P
<1>1. PICK i \in W : \A j \in W : i <= j
  <2>1. W \subseteq Nat /\ W # {}
    OBVIOUS
  <2> HIDE DEF W
  <2> QED
    BY <2>1, LeastOf
<1>2. i # 0 /\ i - 1 \in 0 .. N - 1 /\ i - 1 \notin W
  BY <1>1
<1> QED
  BY <1>1, <1>2

\* What holds of 0 and of the next number holds of all.
LEMMA Induction ==
    ASSUME NEW P, 0 \in P, \A n \in Nat : n \in P => n + 1 \in P
    PROVE  \A n \in Nat : n \in P
<1> TAKE n \in Nat
<1> QED
  BY InductionUpTo

(* A function that is defined by recursion on the numbers up to N exists.   *)
IsRecursive(f, N, A, x, G) ==
    f \in [0 .. N -> A] /\ f[0] = x /\ \A n \in 1 .. N : f[n] = G[n][f[n - 1]]

\* Each value follows from the one before, so there is one for every number.
LEMMA Recursion ==
    ASSUME NEW N \in Nat, NEW A, NEW x \in A, NEW G, G \in [1 .. N -> [A -> A]]
    PROVE  \E f : IsRecursive(f, N, A, x, G)
<1> DEFINE Upto(f, m) == /\ f \in [0 .. m -> A] /\ f[0] = x
                         /\ \A n \in 1 .. m : f[n] = G[n][f[n - 1]]
           P == {m \in 0 .. N : \E f : Upto(f, m)}
<1>1. 0 \in P
  <2> DEFINE f == [n \in 0 .. 0 |-> x]
  <2>1. f \in [0 .. 0 -> A] /\ f[0] = x /\ 1 .. 0 = {}
    OBVIOUS
  <2> HIDE DEF f
  <2>2. Upto(f, 0)
    BY <2>1
  <2> QED
    BY <2>2
<1>2. ASSUME NEW m \in 0 .. N - 1, m \in P
      PROVE  m + 1 \in P
  <2>1. PICK f : Upto(f, m)
    BY <1>2
  <2> DEFINE g == [n \in 0 .. m + 1 |-> IF n <= m THEN f[n] ELSE G[m + 1][f[m]]]
  <2>2. \A n \in 0 .. m : f[n] \in A /\ g[n] = f[n]
    BY <2>1
  <2>3. g[m + 1] = G[m + 1][f[m]] /\ G[m + 1][f[m]] \in A
    <3>1. m + 1 \in 1 .. N /\ m \in 0 .. m /\ ~(m + 1 <= m) /\ m + 1 \in 0 .. m + 1
      OBVIOUS
    <3>2. G[m + 1] \in [A -> A]
      BY <3>1
    <3> QED
      BY <3>1, <3>2, <2>2
  <2>4. g \in [0 .. m + 1 -> A] /\ g[0] = x
    BY <2>1, <2>2, <2>3
  <2>5. \A n \in 1 .. m + 1 : g[n] = G[n][g[n - 1]]
    <3> TAKE n \in 1 .. m + 1
    <3>1. CASE n = m + 1
      <4>1. n - 1 = m /\ m \in 0 .. m
        BY <3>1
      <4> QED
        BY <3>1, <4>1, <2>2, <2>3
    <3>2. CASE n # m + 1
      <4>1. n \in 1 .. m /\ n \in 0 .. m /\ n - 1 \in 0 .. m
        BY <3>2
      <4> QED
        BY <4>1, <2>1, <2>2
    <3> QED
      BY <3>1, <3>2
  <2> HIDE DEF g
  <2>6. Upto(g, m + 1)
    BY <2>4, <2>5
  <2>7. m + 1 \in 0 .. N
    OBVIOUS
  <2> HIDE DEF Upto
  <2> QED
    BY <2>6, <2>7
<1>3. N \in P
  <2> HIDE DEF P
  <2>1. \A n \in 0 .. N - 1 : n \in P => n + 1 \in P
    BY <1>2
  <2>2. \A n \in 0 .. N : n \in P
    BY <1>1, <2>1, InductionUpTo
  <2> QED
    BY <2>2
<1> QED
  BY <1>3 DEF IsRecursive

-----------------------------------------------------------------------------
(* Storage that holders share, of vectors or of tables: tb is what each of  *)
(* the holders in W has, hp is the heap with records from R.               *)
Unused == [refs |-> 0]

IsHeapSet(R) ==
    /\ \A r \in R : r.refs \in Nat
    /\ \A r \in R, n \in Nat : /\ [r EXCEPT !.refs = n] \in R
                               /\ [r EXCEPT !.refs = n].refs = n

SharersIn(W, tb, b) == {t \in W : tb[t] # NULL /\ tb[t].storage = b}

\* A count is the number of the sharers.
Counted(W, hp, tb) == \A b \in Storages : hp[b].refs = Cardinality(SharersIn(W, tb, b))

Released(hp, b) ==
    LET r == hp[b] IN
    [hp EXCEPT ![b] = IF r.refs = 1 THEN Unused ELSE [r EXCEPT !.refs = r.refs - 1]]

IsShare(W, R, T, hp, tb) ==
    /\ IsFiniteSet(W) /\ IsHeapSet(R)
    /\ NULL \notin T /\ \A r \in T : r.storage \in Storages
    /\ hp \in [Storages -> R \cup {Unused}]
    /\ tb \in [W -> T \cup {NULL}]
    /\ Counted(W, hp, tb)

\* The sharers of storage can be counted.
LEMMA SharersFinite ==
    ASSUME NEW W, IsFiniteSet(W), NEW tb, NEW b
    PROVE  /\ IsFiniteSet(SharersIn(W, tb, b)) /\ Cardinality(SharersIn(W, tb, b)) \in Nat
           /\ (SharersIn(W, tb, b) = {} <=> Cardinality(SharersIn(W, tb, b)) = 0)
<1>1. SharersIn(W, tb, b) \in SUBSET W
  BY DEF SharersIn
<1> QED
  BY <1>1, FS_Subset, FS_CardinalityType, FS_EmptySet

\* Storage that has sharers is allocated, and counts them.
LEMMA StorageIs ==
    ASSUME NEW W, NEW R, NEW T, NEW hp, NEW tb, IsShare(W, R, T, hp, tb), NEW b \in Storages
    PROVE  /\ hp[b].refs \in Nat /\ (hp[b].refs # 0 => hp[b] \in R)
           /\ hp[b].refs = Cardinality(SharersIn(W, tb, b))
           /\ IsFiniteSet(SharersIn(W, tb, b))
           /\ (SharersIn(W, tb, b) = {} <=> hp[b].refs = 0)
<1>1. hp[b] \in R \cup {Unused} /\ Unused.refs = 0
  BY DEF IsShare, Unused
<1>2. IsFiniteSet(W) /\ hp[b].refs = Cardinality(SharersIn(W, tb, b))
  BY DEF IsShare, Counted
<1> QED
  BY <1>1, <1>2, SharersFinite

\* A holder's storage is allocated, and an only holder is alone with it.
LEMMA HolderHas ==
    ASSUME NEW W, NEW R, NEW T, NEW hp, NEW tb, IsShare(W, R, T, hp, tb),
           NEW t \in W, tb[t] # NULL
    PROVE  /\ tb[t] \in T /\ tb[t].storage \in Storages
           /\ hp[tb[t].storage] \in R /\ t \in SharersIn(W, tb, tb[t].storage)
           /\ hp[tb[t].storage].refs \in Nat /\ hp[tb[t].storage].refs >= 1
           /\ (hp[tb[t].storage].refs = 1 => SharersIn(W, tb, tb[t].storage) = {t})
<1> DEFINE b == tb[t].storage
<1>1. tb[t] \in T /\ b \in Storages
  BY DEF IsShare
<1>2. t \in SharersIn(W, tb, b)
  BY DEF SharersIn
<1> HIDE DEF b
<1>3. /\ hp[b].refs \in Nat /\ (hp[b].refs # 0 => hp[b] \in R)
      /\ hp[b].refs = Cardinality(SharersIn(W, tb, b))
      /\ IsFiniteSet(SharersIn(W, tb, b))
      /\ hp[b].refs # 0
  BY <1>1, <1>2, StorageIs
<1>4. ASSUME hp[b].refs = 1
      PROVE  SharersIn(W, tb, b) = {t}
  <2>1. \E x : SharersIn(W, tb, b) = {x}
    BY <1>3, <1>4, FS_Singleton
  <2> QED
    BY <1>2, <2>1
<1> QED
  BY <1>1, <1>2, <1>3, <1>4 DEF b

\* A holder lets go of its storage.
LEMMA Leaving ==
    ASSUME NEW W, NEW R, NEW T, NEW hp, NEW tb, IsShare(W, R, T, hp, tb),
           NEW t \in W, tb[t] # NULL
    PROVE  IsShare(W, R, T, Released(hp, tb[t].storage), [tb EXCEPT ![t] = NULL])
<1> DEFINE b == tb[t].storage
           hq == Released(hp, b)
           tc == [tb EXCEPT ![t] = NULL]
<1>1. /\ b \in Storages /\ hp[b] \in R /\ t \in SharersIn(W, tb, b)
      /\ hp[b].refs \in Nat /\ hp[b].refs >= 1
  BY HolderHas
<1>2. tc \in [W -> T \cup {NULL}]
  BY DEF IsShare
<1>3. tc[t] = NULL /\ \A u \in W : u # t => tc[u] = tb[u]
  BY DEF IsShare
<1>4. \A c : SharersIn(W, tc, c) = SharersIn(W, tb, c) \ {t}
  BY <1>3 DEF SharersIn
<1>5. \A c \in Storages : c # b => hq[c] = hp[c] /\ SharersIn(W, tc, c) = SharersIn(W, tb, c)
  <2>1. \A c \in Storages : c # b => hq[c] = hp[c]
    BY DEF IsShare, Released
  <2>2. \A c : c # b => t \notin SharersIn(W, tb, c)
    BY DEF SharersIn
  <2>3. \A c : t \notin SharersIn(W, tb, c) => SharersIn(W, tc, c) = SharersIn(W, tb, c)
    <3> HIDE DEF tc
    <3> QED
      BY <1>4
  <2> HIDE DEF tc, hq, b
  <2> QED
    BY <2>1, <2>2, <2>3
<1>6. hq[b] = IF hp[b].refs = 1 THEN Unused ELSE [hp[b] EXCEPT !.refs = hp[b].refs - 1]
  <2>1. hp \in [Storages -> R \cup {Unused}]
    BY DEF IsShare
  <2> DEFINE y == IF hp[b].refs = 1 THEN Unused ELSE [hp[b] EXCEPT !.refs = hp[b].refs - 1]
  <2>2. hq = [hp EXCEPT ![b] = y]
    BY DEF Released
  <2> HIDE DEF y, hq, b
  <2>3. hq[b] = y
    BY <1>1, <2>1, <2>2
  <2> QED
    BY <2>3 DEF y
<1>7. Cardinality(SharersIn(W, tc, b)) = hp[b].refs - 1
  <2> HIDE DEF tc, b
  <2>1. IsFiniteSet(SharersIn(W, tb, b)) /\ hp[b].refs = Cardinality(SharersIn(W, tb, b))
    BY <1>1, StorageIs
  <2>2. Cardinality(SharersIn(W, tb, b) \ {t}) = hp[b].refs - 1
    BY <1>1, <2>1, FS_RemoveElement
  <2> QED
    BY <1>4, <2>2
<1>8. hq[b] \in R \cup {Unused} /\ hq[b].refs = hp[b].refs - 1
  <2>1. CASE hp[b].refs = 1
    <3> HIDE DEF b, hq
    <3> QED
      BY <1>6, <2>1 DEF Unused
  <2>2. CASE hp[b].refs # 1
    <3>1. hq[b] = [hp[b] EXCEPT !.refs = hp[b].refs - 1] /\ hp[b].refs - 1 \in Nat
      BY <1>1, <1>6, <2>2
    <3> HIDE DEF b, hq
    <3> QED
      BY <1>1, <3>1 DEF IsShare, IsHeapSet
  <2> QED
    BY <2>1, <2>2
<1>9. hq \in [Storages -> R \cup {Unused}]
  <2>1. hq = [c \in Storages |-> hq[c]]
    BY DEF IsShare, Released
  <2>2. \A c \in Storages : hq[c] \in R \cup {Unused}
    <3> HIDE DEF hq, b
    <3> QED
      BY <1>5, <1>8 DEF IsShare
  <2> HIDE DEF hq
  <2> QED
    BY <2>1, <2>2
<1>10. Counted(W, hq, tc)
  <2> HIDE DEF hq, tc, b
  <2> QED
    BY <1>5, <1>7, <1>8 DEF IsShare, Counted
<1> QED
  BY <1>2, <1>9, <1>10 DEF IsShare

\* A holder without storage gets some that others have.
LEMMA Joining ==
    ASSUME NEW W, NEW R, NEW T, NEW hp, NEW tb, IsShare(W, R, T, hp, tb),
           NEW t \in W, tb[t] = NULL, NEW r \in T, hp[r.storage].refs # 0
    PROVE  IsShare(W, R, T, [hp EXCEPT ![r.storage].refs = @ + 1], [tb EXCEPT ![t] = r])
<1> DEFINE b == r.storage
           hq == [hp EXCEPT ![b].refs = @ + 1]
           tc == [tb EXCEPT ![t] = r]
<1>1. b \in Storages /\ hp[b] \in R /\ hp[b].refs \in Nat
  <2>1. b \in Storages
    BY DEF IsShare
  <2> QED
    BY <2>1, StorageIs
<1>2. tc \in [W -> T \cup {NULL}]
  BY DEF IsShare
<1>3. tc[t] = r /\ r # NULL /\ \A u \in W : u # t => tc[u] = tb[u]
  BY DEF IsShare
<1>4. /\ SharersIn(W, tc, b) = SharersIn(W, tb, b) \cup {t}
      /\ t \notin SharersIn(W, tb, b)
      /\ \A c : c # b => SharersIn(W, tc, c) = SharersIn(W, tb, c)
  BY <1>3 DEF SharersIn
<1>5. \A c \in Storages : c # b => hq[c] = hp[c]
  BY DEF IsShare
<1>6. hq[b] = [hp[b] EXCEPT !.refs = hp[b].refs + 1]
  BY <1>1 DEF IsShare
<1>7. hq[b] \in R /\ hq[b].refs = hp[b].refs + 1
  <2>1. hp[b].refs + 1 \in Nat
    BY <1>1
  <2> HIDE DEF b, hq
  <2> QED
    BY <1>1, <1>6, <2>1 DEF IsShare, IsHeapSet
<1>8. Cardinality(SharersIn(W, tc, b)) = hp[b].refs + 1
  <2> HIDE DEF tc, b
  <2>1. IsFiniteSet(SharersIn(W, tb, b)) /\ hp[b].refs = Cardinality(SharersIn(W, tb, b))
    BY <1>1, StorageIs
  <2> QED
    BY <1>1, <1>4, <2>1, FS_AddElement
<1>9. hq \in [Storages -> R \cup {Unused}]
  <2>1. hq = [c \in Storages |-> hq[c]]
    BY DEF IsShare
  <2>2. \A c \in Storages : hq[c] \in R \cup {Unused}
    <3> HIDE DEF hq, b
    <3> QED
      BY <1>5, <1>7 DEF IsShare
  <2> HIDE DEF hq
  <2> QED
    BY <2>1, <2>2
<1>10. Counted(W, hq, tc)
  <2> HIDE DEF hq, tc, b
  <2> QED
    BY <1>4, <1>5, <1>7, <1>8 DEF IsShare, Counted
<1> QED
  BY <1>2, <1>9, <1>10 DEF IsShare

\* A holder without storage gets new storage.
LEMMA Making ==
    ASSUME NEW W, NEW R, NEW T, NEW hp, NEW tb, IsShare(W, R, T, hp, tb),
           NEW t \in W, tb[t] = NULL, NEW r \in T, hp[r.storage].refs = 0,
           NEW x \in R, x.refs = 1
    PROVE  IsShare(W, R, T, [hp EXCEPT ![r.storage] = x], [tb EXCEPT ![t] = r])
<1> DEFINE b == r.storage
           hq == [hp EXCEPT ![b] = x]
           tc == [tb EXCEPT ![t] = r]
<1>1. b \in Storages /\ SharersIn(W, tb, b) = {}
  <2>1. b \in Storages
    BY DEF IsShare
  <2> QED
    BY <2>1, StorageIs
<1>2. tc \in [W -> T \cup {NULL}]
  BY DEF IsShare
<1>3. tc[t] = r /\ r # NULL /\ \A u \in W : u # t => tc[u] = tb[u]
  BY DEF IsShare
<1>4. /\ SharersIn(W, tc, b) = {t}
      /\ \A c : c # b => SharersIn(W, tc, c) = SharersIn(W, tb, c)
  BY <1>1, <1>3 DEF SharersIn
<1>5. hq[b] = x /\ \A c \in Storages : c # b => hq[c] = hp[c]
  BY <1>1 DEF IsShare
<1>6. Cardinality({t}) = 1
  BY FS_Singleton
<1>7. hq \in [Storages -> R \cup {Unused}]
  BY DEF IsShare
<1>8. Counted(W, hq, tc)
  <2> HIDE DEF hq, tc, b
  <2> QED
    BY <1>1, <1>4, <1>5, <1>6 DEF IsShare, Counted
<1> QED
  BY <1>2, <1>7, <1>8 DEF IsShare

\* Storage changes, and what the holders have, but not who shares it.
SameShares(W, R, T, hp, tb, hq, tc) ==
    /\ hq \in [Storages -> R \cup {Unused}]
    /\ \A b \in Storages : hq[b].refs = hp[b].refs
    /\ tc \in [W -> T \cup {NULL}]
    /\ \A b \in Storages : SharersIn(W, tc, b) = SharersIn(W, tb, b)

\* A change of what storage holds leaves its count right.
LEMMA Staying ==
    ASSUME NEW W, NEW R, NEW T, NEW hp, NEW tb, IsShare(W, R, T, hp, tb),
           NEW hq, NEW tc, SameShares(W, R, T, hp, tb, hq, tc)
    PROVE  IsShare(W, R, T, hq, tc)
<1>1. Counted(W, hq, tc)
  BY DEF Counted, IsShare, SameShares
<1> QED
  BY <1>1 DEF IsShare, SameShares

\* As long as there is more storage than holders in P, who have all that is
\* in use, some is free.
LEMMA StorageIsFree ==
    ASSUME NEW W, NEW R, NEW T, NEW hp, NEW tb, IsShare(W, R, T, hp, tb),
           NEW P \in SUBSET W, Cardinality(P) < Cardinality(Storages), IsFiniteSet(Storages),
           \A t \in W : tb[t] # NULL =>
               \E u \in P : tb[u] # NULL /\ tb[u].storage = tb[t].storage
    PROVE  \E b \in Storages : hp[b].refs = 0
<1> SUFFICES ASSUME \A b \in Storages : hp[b].refs # 0
             PROVE  FALSE
  OBVIOUS
<1>1. \A b \in Storages : \E u \in P : tb[u] # NULL /\ tb[u].storage = b
  <2> TAKE b \in Storages
  <2>1. PICK t \in W : tb[t] # NULL /\ tb[t].storage = b
    <3>1. SharersIn(W, tb, b) # {}
      BY StorageIs
    <3> QED
      BY <3>1 DEF SharersIn
  <2> QED
    BY <2>1
<1> DEFINE g == [b \in Storages |-> CHOOSE u \in P : tb[u] # NULL /\ tb[u].storage = b]
<1>2. \A b \in Storages : g[b] \in P /\ tb[g[b]].storage = b
  BY <1>1
<1>3. g \in [Storages -> P]
  BY <1>2
<1> HIDE DEF g
<1>4. IsFiniteSet(P)
  BY FS_Subset DEF IsShare
<1>5. \E b, c \in Storages : b # c /\ g[b] = g[c]
  BY <1>3, <1>4, FS_PigeonHole
<1> QED
  BY <1>2, <1>5

-----------------------------------------------------------------------------
(* What chains of elements hold. *)
Elems == [key : Keys, val : TableValues]

\* Every element is in the bucket of its key, and no key is there twice.
WellPlaced(bk, len) ==
    /\ len \in Nat \ {0} /\ bk \in [0 .. len - 1 -> Seq(Elems)]
    /\ \A i \in 0 .. len - 1 : \A p \in 1 .. Len(bk[i]) :
        /\ Hash(bk[i][p].key) % len = i
        /\ \A q \in 1 .. Len(bk[i]) : bk[i][p].key = bk[i][q].key => p = q

Within(e, bk, len) == \E i \in 0 .. len - 1 : \E p \in 1 .. Len(bk[i]) : bk[i][p] = e

Where(chain, k) ==
    LET at == {i \in DOMAIN chain : Hash(chain[i].key) = Hash(k) /\ chain[i].key = k} IN
    IF at = {} THEN 0 ELSE H!Least(at)

Lookup(bk, len, k) ==
    LET chain == bk[Hash(k) % len]  p == Where(chain, k) IN
    IF p = 0 THEN NULL ELSE chain[p].val

Content(bk, len) == [k \in Keys |-> Lookup(bk, len, k)]
KeysOf(c) == {k \in Keys : c[k] # NULL}

\* A set of numbers has a least one.
LEMMA LeastIs ==
    ASSUME NEW P, P \subseteq Nat, P # {}
    PROVE  H!Least(P) \in P /\ \A j \in P : H!Least(P) <= j
<1>1. \E i \in P : \A j \in P : i <= j
  BY LeastOf
<1> QED
  BY <1>1 DEF H!Least

\* A remainder is the number of a bucket.
LEMMA BucketOf ==
    ASSUME NEW h \in Nat, NEW len \in Nat \ {0}
    PROVE  h % len \in 0 .. len - 1
OBVIOUS

\* Where the chain of a key's bucket has it, and nowhere else.
LEMMA WhereIs ==
    ASSUME TablesAssumption, NEW bk, NEW len, WellPlaced(bk, len), NEW k \in Keys
    PROVE  LET i == Hash(k) % len  p == Where(bk[i], k) IN
           /\ i \in 0 .. len - 1
           /\ p \in 0 .. Len(bk[i]) /\ Len(bk[i]) \in Nat
           /\ p # 0 => bk[i][p].key = k /\ bk[i][p] \in Elems
           /\ \A q \in 1 .. Len(bk[i]) : bk[i][q].key = k => p = q
<1> DEFINE i == Hash(k) % len
           chain == bk[i]
           at == {j \in DOMAIN chain : Hash(chain[j].key) = Hash(k) /\ chain[j].key = k}
<1>1. i \in 0 .. len - 1
  BY BucketOf DEF WellPlaced, TablesAssumption
<1>2. /\ chain \in Seq(Elems) /\ Len(chain) \in Nat
      /\ DOMAIN chain = 1 .. Len(chain)
      /\ \A j \in 1 .. Len(chain) : chain[j] \in Elems
  BY <1>1, LenProperties, ElementOfSeq DEF WellPlaced
<1>3. \A j \in at, q \in 1 .. Len(chain) : chain[q].key = k => j = q
  BY <1>1, <1>2 DEF WellPlaced
<1>4. CASE at = {}
  <2>1. Where(chain, k) = 0
    BY <1>4 DEF Where
  <2>2. \A q \in 1 .. Len(chain) : chain[q].key # k
    BY <1>2, <1>4
  <2>3. 0 \in 0 .. Len(chain)
    BY <1>2
  <2> QED
    BY <1>1, <1>2, <2>1, <2>2, <2>3, Zenon
<1>5. CASE at # {}
  <2>1. at \subseteq Nat
    BY <1>2
  <2>2. Where(chain, k) = H!Least(at)
    BY <1>5 DEF Where
  <2> HIDE DEF at
  <2>3. Where(chain, k) \in at
    BY <1>5, <2>1, <2>2, LeastIs
  <2>4. Where(chain, k) \in 1 .. Len(chain) /\ chain[Where(chain, k)].key = k
    BY <1>2, <2>3 DEF at
  <2> DEFINE p == Where(chain, k)
  <2>5. p \in at /\ p \in 1 .. Len(chain) /\ chain[p].key = k
    BY <2>3, <2>4
  <2> HIDE DEF p, chain, i, at
  <2>6. /\ p \in 0 .. Len(chain) /\ chain[p] \in Elems
        /\ \A q \in 1 .. Len(chain) : chain[q].key = k => p = q
    BY <1>2, <1>3, <2>5
  <2> QED
    BY <1>1, <1>2, <2>5, <2>6 DEF p, chain, i
<1> QED
  BY <1>4, <1>5

\* What is found of a key is the one element with it.
LEMMA LookupIs ==
    ASSUME TablesAssumption, NEW bk, NEW len, WellPlaced(bk, len), NEW k \in Keys
    PROVE  /\ Lookup(bk, len, k) \in TableValues \cup {NULL}
           /\ \A x \in TableValues :
                Lookup(bk, len, k) = x <=> Within([key |-> k, val |-> x], bk, len)
           /\ Lookup(bk, len, k) = NULL <=> Where(bk[Hash(k) % len], k) = 0
<1> DEFINE i == Hash(k) % len
           p == Where(bk[i], k)
<1>1. /\ i \in 0 .. len - 1
      /\ p \in 0 .. Len(bk[i]) /\ Len(bk[i]) \in Nat
      /\ p # 0 => bk[i][p].key = k /\ bk[i][p] \in Elems
      /\ \A q \in 1 .. Len(bk[i]) : bk[i][q].key = k => p = q
  BY WhereIs
<1>2. Lookup(bk, len, k) = IF p = 0 THEN NULL ELSE bk[i][p].val
  BY DEF Lookup
<1>3. \A j \in 0 .. len - 1 : \A q \in 1 .. Len(bk[j]) : bk[j][q].key = k => j = i /\ q = p
  BY <1>1 DEF WellPlaced
<1> HIDE DEF i, p
<1>4. p # 0 => /\ bk[i][p].val \in TableValues
               /\ bk[i][p] = [key |-> k, val |-> bk[i][p].val] /\ p \in 1 .. Len(bk[i])
  BY <1>1 DEF Elems
<1>5. ASSUME NEW x \in TableValues
      PROVE  Lookup(bk, len, k) = x <=> Within([key |-> k, val |-> x], bk, len)
  <2>1. ASSUME Lookup(bk, len, k) = x PROVE Within([key |-> k, val |-> x], bk, len)
    <3>1. p # 0 /\ bk[i][p].val = x
      BY <1>2, <2>1 DEF TablesAssumption
    <3>2. bk[i][p] = [key |-> k, val |-> x] /\ p \in 1 .. Len(bk[i])
      BY <1>4, <3>1
    <3> QED
      BY <1>1, <3>2 DEF Within
  <2>2. ASSUME Within([key |-> k, val |-> x], bk, len) PROVE Lookup(bk, len, k) = x
    <3>0. PICK j \in 0 .. len - 1 : \E q \in 1 .. Len(bk[j]) : bk[j][q] = [key |-> k, val |-> x]
      BY <2>2 DEF Within
    <3>1. PICK q \in 1 .. Len(bk[j]) : bk[j][q] = [key |-> k, val |-> x]
      BY <3>0
    <3>2. bk[j][q].key = k /\ bk[j][q].val = x
      BY <3>1
    <3>3. j = i /\ q = p /\ q # 0
      BY <1>1, <1>3, <3>2
    <3> QED
      BY <1>2, <3>2, <3>3
  <2> QED
    BY <2>1, <2>2
<1>6. Lookup(bk, len, k) = NULL <=> p = 0
  BY <1>2, <1>4 DEF TablesAssumption
<1> QED
  BY <1>2, <1>4, <1>5, <1>6 DEF i, p

\* A change of the elements with key k is a change of what k has.
LEMMA ContentPut ==
    ASSUME TablesAssumption, NEW bk, NEW len, WellPlaced(bk, len),
           NEW bj, NEW lem, WellPlaced(bj, lem),
           NEW k \in Keys, NEW x \in TableValues \cup {NULL},
           \A e \in Elems : Within(e, bj, lem) <=>
               IF e.key = k THEN e.val = x ELSE Within(e, bk, len)
    PROVE  Content(bj, lem) = [Content(bk, len) EXCEPT ![k] = x]
<1>1. ASSUME NEW j \in Keys
      PROVE  Lookup(bj, lem, j) = IF j = k THEN x ELSE Lookup(bk, len, j)
  <2> DEFINE y == IF j = k THEN x ELSE Lookup(bk, len, j)
  <2>1. Lookup(bj, lem, j) \in TableValues \cup {NULL} /\ y \in TableValues \cup {NULL}
    BY LookupIs
  <2>2. \A z \in TableValues : Lookup(bj, lem, j) = z <=> y = z
    <3> TAKE z \in TableValues
    <3> DEFINE e == [key |-> j, val |-> z]
    <3>1. e \in Elems /\ e.key = j /\ e.val = z
      BY DEF Elems
    <3>2. Lookup(bj, lem, j) = z <=> Within(e, bj, lem)
      BY LookupIs
    <3>3. Lookup(bk, len, j) = z <=> Within(e, bk, len)
      BY LookupIs
    <3> HIDE DEF e
    <3> QED
      BY <3>1, <3>2, <3>3
  <2> HIDE DEF y
  <2>3. Lookup(bj, lem, j) = y
    BY <2>1, <2>2
  <2> QED
    BY <2>3 DEF y
<1> QED
  BY <1>1 DEF Content

\* The same elements are the same content, wherever they are.
LEMMA ContentSame ==
    ASSUME TablesAssumption, NEW bk, NEW len, WellPlaced(bk, len),
           NEW bj, NEW lem, WellPlaced(bj, lem),
           \A e \in Elems : Within(e, bj, lem) <=> Within(e, bk, len)
    PROVE  Content(bj, lem) = Content(bk, len)
<1>1. ASSUME NEW j \in Keys
      PROVE  Lookup(bj, lem, j) = Lookup(bk, len, j)
  <2>1. /\ Lookup(bj, lem, j) \in TableValues \cup {NULL}
        /\ Lookup(bk, len, j) \in TableValues \cup {NULL}
    BY LookupIs
  <2>2. \A z \in TableValues : Lookup(bj, lem, j) = z <=> Lookup(bk, len, j) = z
    <3> TAKE z \in TableValues
    <3> DEFINE e == [key |-> j, val |-> z]
    <3>1. e \in Elems
      BY DEF Elems
    <3>2. Lookup(bj, lem, j) = z <=> Within(e, bj, lem)
      BY LookupIs
    <3>3. Lookup(bk, len, j) = z <=> Within(e, bk, len)
      BY LookupIs
    <3> HIDE DEF e
    <3> QED
      BY <3>1, <3>2, <3>3
  <2> QED
    BY <2>1, <2>2
<1> QED
  BY <1>1 DEF Content

\* A table counts its keys.
LEMMA KeysCounted ==
    ASSUME TablesAssumption, NEW c, NEW k \in Keys, NEW x,
           c = [j \in Keys |-> c[j]]
    PROVE  LET d == [c EXCEPT ![k] = x] IN
           /\ IsFiniteSet(KeysOf(c)) /\ Cardinality(KeysOf(c)) \in Nat
           /\ x # NULL /\ c[k] = NULL =>
                Cardinality(KeysOf(d)) = Cardinality(KeysOf(c)) + 1
           /\ x # NULL /\ c[k] # NULL => KeysOf(d) = KeysOf(c)
           /\ x = NULL /\ c[k] # NULL =>
                Cardinality(KeysOf(d)) = Cardinality(KeysOf(c)) - 1
<1> DEFINE d == [c EXCEPT ![k] = x]
<1>1. IsFiniteSet(KeysOf(c)) /\ Cardinality(KeysOf(c)) \in Nat
  BY FS_Subset, FS_CardinalityType DEF KeysOf, TablesAssumption
<1>2. \A j \in Keys : d[j] = IF j = k THEN x ELSE c[j]
  BY Zenon
<1> HIDE DEF d
<1>3. x # NULL => KeysOf(d) = KeysOf(c) \cup {k}
  BY <1>2 DEF KeysOf
<1>4. x = NULL => KeysOf(d) = KeysOf(c) \ {k}
  BY <1>2 DEF KeysOf
<1>5. k \in KeysOf(c) <=> c[k] # NULL
  BY DEF KeysOf
<1>6. /\ Cardinality(KeysOf(c) \cup {k}) =
           IF k \in KeysOf(c) THEN Cardinality(KeysOf(c)) ELSE Cardinality(KeysOf(c)) + 1
      /\ Cardinality(KeysOf(c) \ {k}) =
           IF k \in KeysOf(c) THEN Cardinality(KeysOf(c)) - 1 ELSE Cardinality(KeysOf(c))
  BY <1>1, FS_AddElement, FS_RemoveElement
<1>7. x # NULL /\ c[k] # NULL => KeysOf(d) = KeysOf(c)
  BY <1>3, <1>5
<1> QED
  BY <1>1, <1>3, <1>4, <1>5, <1>6, <1>7 DEF d

\* A new table is empty.
LEMMA NoneIsPlaced ==
    ASSUME TablesAssumption, NEW len \in Nat \ {0}
    PROVE  /\ WellPlaced(H!NoElements(len), len)
           /\ Content(H!NoElements(len), len) = H!Own!Empty
           /\ KeysOf(Content(H!NoElements(len), len)) = {}
<1> DEFINE bk == H!NoElements(len)
<1>1. /\ bk \in [0 .. len - 1 -> Seq(Elems)]
      /\ \A i \in 0 .. len - 1 : bk[i] = <<>> /\ Len(bk[i]) = 0 /\ 1 .. Len(bk[i]) = {}
  BY EmptySeq DEF H!NoElements
<1> HIDE DEF bk
<1>2. WellPlaced(bk, len)
  BY <1>1 DEF WellPlaced
<1>3. \A k \in Keys : Lookup(bk, len, k) = NULL
  <2> TAKE k \in Keys
  <2>1. /\ Hash(k) % len \in 0 .. len - 1
        /\ Where(bk[Hash(k) % len], k) \in 0 .. Len(bk[Hash(k) % len])
    BY <1>2, WhereIs
  <2>2. Where(bk[Hash(k) % len], k) = 0
    BY <1>1, <2>1
  <2> QED
    BY <1>2, <2>2, LookupIs
<1>4. Content(bk, len) = H!Own!Empty
  BY <1>3 DEF Content, H!Own!Empty
<1>5. KeysOf(Content(bk, len)) = {}
  BY <1>3 DEF Content, KeysOf
<1> QED
  BY <1>2, <1>4, <1>5 DEF bk

\* insert puts a key that is not there at the end of its chain.
\* bj holds what bk does, but x of the key k.
Puts(bk, bj, len, k, x) ==
    WellPlaced(bj, len) /\ Content(bj, len) = [Content(bk, len) EXCEPT ![k] = x]

\* insert: an element at the end of its chain.
LEMMA AppendIsPut ==
    ASSUME TablesAssumption, NEW bk, NEW len, WellPlaced(bk, len),
           NEW k \in Keys, NEW x \in TableValues, Where(bk[Hash(k) % len], k) = 0
    PROVE  Puts(bk, [bk EXCEPT ![Hash(k) % len] = Append(@, [key |-> k, val |-> x])], len, k, x)
<1> DEFINE i == Hash(k) % len
           e == [key |-> k, val |-> x]
           bj == [bk EXCEPT ![i] = Append(@, e)]
           n == Len(bk[i])
<1>1. /\ i \in 0 .. len - 1 /\ n \in Nat
      /\ \A q \in 1 .. n : bk[i][q].key # k
  BY WhereIs
<1>2. e \in Elems /\ e.key = k /\ e.val = x
  BY DEF Elems
<1>3. bk[i] \in Seq(Elems) /\ bk \in [0 .. len - 1 -> Seq(Elems)]
  BY <1>1 DEF WellPlaced
<1>4. bj[i] = Append(bk[i], e) /\ \A j \in 0 .. len - 1 : j # i => bj[j] = bk[j]
  BY <1>1, <1>3
<1>5. /\ bj[i] \in Seq(Elems) /\ Len(bj[i]) = n + 1 /\ bj[i][n + 1] = e
      /\ \A q \in 1 .. n : bj[i][q] = bk[i][q]
  BY <1>2, <1>3, <1>4, AppendProperties
<1>6. bj \in [0 .. len - 1 -> Seq(Elems)]
  BY <1>1, <1>3, <1>4, <1>5
<1> HIDE DEF bj
<1>7. WellPlaced(bj, len)
  <2> SUFFICES ASSUME NEW j \in 0 .. len - 1, NEW p \in 1 .. Len(bj[j]),
                      NEW q \in 1 .. Len(bj[j])
               PROVE  /\ Hash(bj[j][p].key) % len = j
                      /\ bj[j][p].key = bj[j][q].key => p = q
    BY <1>6 DEF WellPlaced
  <2>1. CASE j # i
    BY <1>4, <2>1 DEF WellPlaced
  <2>2. CASE j = i
    <3>1. \A r \in 1 .. n + 1 : r \in 1 .. n \/ r = n + 1
      BY <1>1
    <3>2. \A r \in 1 .. n : Hash(bj[i][r].key) % len = i /\ bj[i][r].key # k
      <4>1. \A r \in 1 .. n : Hash(bk[i][r].key) % len = i
        BY <1>1 DEF WellPlaced
      <4> HIDE DEF i, n
      <4> QED
        BY <1>1, <1>5, <4>1
    <3>3. bj[i][n + 1].key = k /\ Hash(k) % len = i
      BY <1>2, <1>5
    <3>4. \A r, u \in 1 .. n : bj[i][r].key = bj[i][u].key => r = u
      <4>1. \A r, u \in 1 .. n : bk[i][r].key = bk[i][u].key => r = u
        BY <1>1 DEF WellPlaced
      <4> QED
        BY <1>5, <4>1
    <3> HIDE DEF i, n
    <3>5. p \in 1 .. n + 1 /\ q \in 1 .. n + 1
      BY <1>5, <2>2
    <3> QED
      BY <2>2, <3>1, <3>2, <3>3, <3>4, <3>5
  <2> QED
    BY <2>1, <2>2
<1>8. ASSUME NEW f \in Elems
      PROVE  Within(f, bj, len) <=> IF f.key = k THEN f.val = x ELSE Within(f, bk, len)
  <2>1. f = e <=> f.key = k /\ f.val = x
    BY <1>2 DEF Elems
  <2>2. Within(f, bj, len) <=> Within(f, bk, len) \/ f = e
    <3>1. ASSUME Within(f, bk, len) PROVE Within(f, bj, len)
      <4>1. PICK j \in 0 .. len - 1 : \E p \in 1 .. Len(bk[j]) : bk[j][p] = f
        BY <3>1 DEF Within
      <4>2. CASE j = i
        <5>1. PICK p \in 1 .. n : bk[i][p] = f
          BY <4>1, <4>2
        <5>2. p \in 1 .. Len(bj[i]) /\ bj[i][p] = f
          BY <1>1, <1>5, <5>1
        <5> QED
          BY <1>1, <5>2 DEF Within
      <4>3. CASE j # i
        BY <1>4, <4>1, <4>3 DEF Within
      <4> QED
        BY <4>2, <4>3
    <3>2. ASSUME f = e PROVE Within(f, bj, len)
      <4>1. n + 1 \in 1 .. Len(bj[i])
        BY <1>1, <1>5
      <4> HIDE DEF e, i
      <4> QED
        BY <1>1, <1>5, <3>2, <4>1 DEF Within
    <3>3. ASSUME Within(f, bj, len) PROVE Within(f, bk, len) \/ f = e
      <4>1. PICK j \in 0 .. len - 1 : \E p \in 1 .. Len(bj[j]) : bj[j][p] = f
        BY <3>3 DEF Within
      <4>2. CASE j = i
        <5>1. PICK p \in 1 .. n + 1 : bj[i][p] = f
          BY <1>5, <4>1, <4>2
        <5>2. CASE p \in 1 .. n
          <6>1. bk[i][p] = f
            BY <1>5, <5>1, <5>2
          <6> QED
            BY <1>1, <5>2, <6>1 DEF Within
        <5>3. CASE p = n + 1
          BY <1>5, <5>1, <5>3
        <5> QED
          BY <1>1, <5>1, <5>2, <5>3
      <4>3. CASE j # i
        BY <1>4, <4>1, <4>3 DEF Within
      <4> QED
        BY <4>2, <4>3
    <3> QED
      BY <3>1, <3>2, <3>3
  <2>3. Within(f, bk, len) => f.key # k
    <3>1. \A j \in 0 .. len - 1 : \A p \in 1 .. Len(bk[j]) : bk[j][p].key = k => j = i
      BY DEF WellPlaced
    <3> QED
      BY <1>1, <3>1 DEF Within
  <2> QED
    BY <2>1, <2>2, <2>3
<1>9. Content(bj, len) = [Content(bk, len) EXCEPT ![k] = x]
  BY <1>7, <1>8, ContentPut
<1> QED
  BY <1>7, <1>9 DEF Puts, bj, e, i

\* erase takes the element out of its chain.
LEMMA RemoveIsTake ==
    ASSUME TablesAssumption, NEW bk, NEW len, WellPlaced(bk, len),
           NEW k \in Keys, NEW p, p = Where(bk[Hash(k) % len], k), p # 0
    PROVE  Puts(bk, [bk EXCEPT ![Hash(k) % len] =
                            SubSeq(@, 1, p - 1) \o SubSeq(@, p + 1, Len(@))], len, k, NULL)
<1> DEFINE i == Hash(k) % len
           chain == bk[i]
           cut == SubSeq(chain, 1, p - 1) \o SubSeq(chain, p + 1, Len(chain))
           bj == [bk EXCEPT ![i] = cut]
           n == Len(chain)
<1>1. /\ i \in 0 .. len - 1 /\ n \in Nat /\ p \in 1 .. n /\ chain[p].key = k
      /\ \A q \in 1 .. n : chain[q].key = k => p = q
  BY WhereIs
<1>2. chain \in Seq(Elems) /\ bk \in [0 .. len - 1 -> Seq(Elems)]
  BY <1>1 DEF WellPlaced
<1>3. \A q \in 1 .. n : chain[q] \in Elems
  BY <1>2, ElementOfSeq
<1>4. /\ cut \in Seq(Elems) /\ Len(cut) = n - 1
      /\ \A q \in 1 .. n - 1 : cut[q] = IF q < p THEN chain[q] ELSE chain[q + 1]
  <2> DEFINE a == SubSeq(chain, 1, p - 1)
             b == SubSeq(chain, p + 1, n)
  <2>1. /\ a \in Seq(Elems) /\ Len(a) = p - 1
        /\ \A q \in 1 .. p - 1 : a[q] = chain[q]
    <3>1. 1 \in Int /\ p - 1 \in Int /\ \A q \in 1 .. p - 1 : chain[q] \in Elems
      BY <1>1, <1>3
    <3> HIDE DEF chain
    <3>2. /\ a \in Seq(Elems) /\ Len(a) = IF 1 <= p - 1 THEN p - 1 - 1 + 1 ELSE 0
          /\ \A q \in 1 .. p - 1 - 1 + 1 : a[q] = chain[1 + q - 1]
      BY <3>1, SubSeqProperties
    <3> HIDE DEF a
    <3> QED
      BY <1>1, <3>2
  <2>2. /\ b \in Seq(Elems) /\ Len(b) = n - p
        /\ \A q \in 1 .. n - p : b[q] = chain[p + q]
    <3>1. p + 1 \in Int /\ n \in Int /\ \A q \in p + 1 .. n : chain[q] \in Elems
      BY <1>1, <1>3
    <3> HIDE DEF chain, n
    <3>2. /\ b \in Seq(Elems) /\ Len(b) = IF p + 1 <= n THEN n - (p + 1) + 1 ELSE 0
          /\ \A q \in 1 .. n - (p + 1) + 1 : b[q] = chain[p + 1 + q - 1]
      BY <3>1, SubSeqProperties
    <3> HIDE DEF b
    <3> QED
      BY <1>1, <3>2
  <2>3. cut = a \o b
    OBVIOUS
  <2> HIDE DEF a, b, cut, chain, n
  <2>4. /\ cut \in Seq(Elems) /\ Len(cut) = Len(a) + Len(b)
        /\ \A q \in 1 .. Len(a) + Len(b) : cut[q] = IF q <= Len(a) THEN a[q] ELSE b[q - Len(a)]
    BY <2>1, <2>2, <2>3, ConcatProperties
  <2>5. Len(cut) = n - 1
    BY <1>1, <2>1, <2>2, <2>4
  <2>6. ASSUME NEW q \in 1 .. n - 1
        PROVE  cut[q] = IF q < p THEN chain[q] ELSE chain[q + 1]
    <3>0. q \in 1 .. Len(a) + Len(b)
      BY <1>1, <2>1, <2>2
    <3>1. cut[q] = IF q <= p - 1 THEN a[q] ELSE b[q - (p - 1)]
      BY <2>1, <2>4, <3>0
    <3>2. CASE q < p
      BY <1>1, <2>1, <3>1, <3>2
    <3>3. CASE ~(q < p)
      <4>1. q - (p - 1) \in 1 .. n - p /\ p + (q - (p - 1)) = q + 1 /\ ~(q <= p - 1)
        BY <1>1, <3>3
      <4> QED
        BY <2>2, <3>1, <3>3, <4>1
    <3> QED
      BY <3>2, <3>3
  <2> QED
    BY <2>4, <2>5, <2>6
<1> HIDE DEF cut
<1>5. bj[i] = cut /\ \A j \in 0 .. len - 1 : j # i => bj[j] = bk[j]
  BY <1>1, <1>2
<1>6. bj \in [0 .. len - 1 -> Seq(Elems)]
  BY <1>1, <1>2, <1>4
<1> HIDE DEF bj
\* From places in the new chain to those in the old one.
<1> DEFINE From(q) == IF q < p THEN q ELSE q + 1
<1>7. \A q \in 1 .. n - 1 : From(q) \in 1 .. n /\ From(q) # p /\ bj[i][q] = chain[From(q)]
  BY <1>1, <1>4, <1>5
<1>8. \A q, r \in 1 .. n - 1 : From(q) = From(r) => q = r
  BY <1>1
<1>9. \A q \in 1 .. n : q # p => \E r \in 1 .. n - 1 : From(r) = q
  <2> TAKE q \in 1 .. n
  <2>1. CASE q < p
    BY <1>1, <2>1
  <2>2. CASE q > p
    <3>1. q - 1 \in 1 .. n - 1 /\ From(q - 1) = q
      BY <1>1, <2>2
    <3> QED
      BY <3>1
  <2> QED
    BY <1>1, <2>1, <2>2
<1> HIDE DEF From
<1>10. WellPlaced(bj, len)
  <2> SUFFICES ASSUME NEW j \in 0 .. len - 1, NEW q \in 1 .. Len(bj[j]),
                      NEW r \in 1 .. Len(bj[j])
               PROVE  /\ Hash(bj[j][q].key) % len = j
                      /\ bj[j][q].key = bj[j][r].key => q = r
    BY <1>6 DEF WellPlaced
  <2>1. CASE j # i
    BY <1>5, <2>1 DEF WellPlaced
  <2>2. CASE j = i
    <3>1. q \in 1 .. n - 1 /\ r \in 1 .. n - 1
      BY <1>4, <1>5, <2>2
    <3>2. \A u \in 1 .. n : /\ Hash(chain[u].key) % len = i
                            /\ \A v \in 1 .. n : chain[u].key = chain[v].key => u = v
      BY <1>1 DEF WellPlaced
    <3> HIDE DEF chain, n, i
    <3> QED
      BY <1>7, <1>8, <2>2, <3>1, <3>2
  <2> QED
    BY <2>1, <2>2
<1>11. ASSUME NEW f \in Elems
       PROVE  Within(f, bj, len) <=> IF f.key = k THEN f.val = NULL ELSE Within(f, bk, len)
  <2>1. f.val # NULL
    BY DEF Elems, TablesAssumption
  <2>2. Within(f, bj, len) <=> Within(f, bk, len) /\ f.key # k
    <3>1. ASSUME Within(f, bk, len), f.key # k PROVE Within(f, bj, len)
      <4>1. PICK j \in 0 .. len - 1 : \E q \in 1 .. Len(bk[j]) : bk[j][q] = f
        BY <3>1 DEF Within
      <4>2. CASE j = i
        <5>1. PICK q \in 1 .. n : chain[q] = f
          BY <4>1, <4>2
        <5>2. q # p
          BY <1>1, <3>1, <5>1
        <5>3. PICK r \in 1 .. n - 1 : From(r) = q
          BY <1>9, <5>2
        <5>4. r \in 1 .. Len(bj[i]) /\ bj[i][r] = f
          BY <1>4, <1>5, <1>7, <5>1, <5>3
        <5> QED
          BY <1>1, <5>4 DEF Within
      <4>3. CASE j # i
        BY <1>5, <4>1, <4>3 DEF Within
      <4> QED
        BY <4>2, <4>3
    <3>2. ASSUME Within(f, bj, len) PROVE Within(f, bk, len) /\ f.key # k
      <4>0. \A j \in 0 .. len - 1 : \A q \in 1 .. Len(bk[j]) : bk[j][q].key = k => j = i
        BY DEF WellPlaced
      <4>1. PICK j \in 0 .. len - 1 : \E q \in 1 .. Len(bj[j]) : bj[j][q] = f
        BY <3>2 DEF Within
      <4>2. CASE j = i
        <5>1. PICK q \in 1 .. n - 1 : bj[i][q] = f
          BY <1>4, <1>5, <4>1, <4>2
        <5>2. From(q) \in 1 .. n /\ chain[From(q)] = f /\ From(q) # p
          BY <1>7, <5>1
        <5>3. f.key # k
          BY <1>1, <5>2
        <5> QED
          BY <1>1, <5>2, <5>3 DEF Within
      <4>3. CASE j # i
        BY <1>5, <4>0, <4>1, <4>3 DEF Within
      <4> QED
        BY <4>2, <4>3
    <3> QED
      BY <3>1, <3>2
  <2> QED
    BY <2>1, <2>2
<1>12. Content(bj, len) = [Content(bk, len) EXCEPT ![k] = NULL]
  BY <1>10, <1>11, ContentPut
<1> QED
  BY <1>10, <1>12 DEF Puts, bj, cut, i

\* A write changes the element where it is.
LEMMA WriteIsPut ==
    ASSUME TablesAssumption, NEW bk, NEW len, WellPlaced(bk, len),
           NEW k \in Keys, NEW x \in TableValues,
           NEW p, p = Where(bk[Hash(k) % len], k), p # 0
    PROVE  Puts(bk, [bk EXCEPT ![Hash(k) % len][p].val = x], len, k, x)
<1> DEFINE i == Hash(k) % len
           chain == bk[i]
           e == [key |-> k, val |-> x]
           new == [chain EXCEPT ![p] = e]
           bj == [bk EXCEPT ![i] = new]
           n == Len(chain)
<1>1. /\ i \in 0 .. len - 1 /\ n \in Nat /\ p \in 1 .. n /\ chain[p].key = k
      /\ chain[p] \in Elems
      /\ \A q \in 1 .. n : chain[q].key = k => p = q
  BY WhereIs
<1>2. chain \in Seq(Elems) /\ bk \in [0 .. len - 1 -> Seq(Elems)]
  BY <1>1 DEF WellPlaced
<1>3. e \in Elems /\ e.key = k /\ e.val = x
  BY DEF Elems
<1>4. [bk EXCEPT ![i][p].val = x] = bj
  <2>1. [chain[p] EXCEPT !.val = x] = e
    BY <1>1 DEF Elems
  <2>2. [bk EXCEPT ![i][p].val = x] = [bk EXCEPT ![i] = [bk[i] EXCEPT ![p] = [bk[i][p] EXCEPT !.val = x]]]
    OBVIOUS
  <2> HIDE DEF i, e
  <2> QED
    BY <2>1, <2>2
<1>5. /\ new \in Seq(Elems) /\ Len(new) = n
      /\ \A q \in 1 .. n : new[q] = IF q = p THEN e ELSE chain[q]
  BY <1>1, <1>2, <1>3, ExceptSeq
<1> HIDE DEF new
<1>6. bj[i] = new /\ \A j \in 0 .. len - 1 : j # i => bj[j] = bk[j]
  BY <1>1, <1>2
<1>7. bj \in [0 .. len - 1 -> Seq(Elems)]
  BY <1>1, <1>2, <1>5
<1> HIDE DEF bj
<1>8. \A q \in 1 .. n : bj[i][q].key = chain[q].key
  BY <1>1, <1>3, <1>5, <1>6
<1>9. WellPlaced(bj, len)
  <2> SUFFICES ASSUME NEW j \in 0 .. len - 1, NEW q \in 1 .. Len(bj[j]),
                      NEW r \in 1 .. Len(bj[j])
               PROVE  /\ Hash(bj[j][q].key) % len = j
                      /\ bj[j][q].key = bj[j][r].key => q = r
    BY <1>7 DEF WellPlaced
  <2>1. CASE j # i
    BY <1>6, <2>1 DEF WellPlaced
  <2>2. CASE j = i
    <3>1. q \in 1 .. n /\ r \in 1 .. n
      BY <1>5, <1>6, <2>2
    <3>2. \A u \in 1 .. n : /\ Hash(chain[u].key) % len = i
                            /\ \A v \in 1 .. n : chain[u].key = chain[v].key => u = v
      BY <1>1 DEF WellPlaced
    <3> HIDE DEF chain, n, i
    <3> QED
      BY <1>8, <2>2, <3>1, <3>2
  <2> QED
    BY <2>1, <2>2
<1>10. ASSUME NEW f \in Elems
       PROVE  Within(f, bj, len) <=> IF f.key = k THEN f.val = x ELSE Within(f, bk, len)
  <2>1. f = e <=> f.key = k /\ f.val = x
    BY <1>3 DEF Elems
  <2>2. ASSUME f.key = k PROVE Within(f, bj, len) <=> f = e
    <3>1. \A j \in 0 .. len - 1 : \A q \in 1 .. Len(bj[j]) : bj[j][q].key = k => j = i
      BY <1>9 DEF WellPlaced
    <3>2. p \in 1 .. Len(bj[i]) /\ bj[i][p] = e
      BY <1>1, <1>5, <1>6
    <3>3. \A q \in 1 .. Len(bj[i]) : bj[i][q].key = k => q = p
      BY <1>1, <1>5, <1>6, <1>8
    <3> HIDE DEF e, i
    <3> QED
      BY <1>1, <2>2, <3>1, <3>2, <3>3 DEF Within
  <2>3. ASSUME f.key # k PROVE Within(f, bj, len) <=> Within(f, bk, len)
    <3>1. \A q \in 1 .. n : bj[i][q] = f <=> chain[q] = f
      BY <1>1, <1>3, <1>5, <1>6, <2>3
    <3>2. \A j \in 0 .. len - 1 :
            (\E q \in 1 .. Len(bj[j]) : bj[j][q] = f) <=> (\E q \in 1 .. Len(bk[j]) : bk[j][q] = f)
      <4> TAKE j \in 0 .. len - 1
      <4>1. CASE j = i
        BY <1>5, <1>6, <3>1, <4>1
      <4>2. CASE j # i
        BY <1>6, <4>2
      <4> QED
        BY <4>1, <4>2
    <3> QED
      BY <3>2 DEF Within
  <2> QED
    BY <2>1, <2>2, <2>3
<1>11. Content(bj, len) = [Content(bk, len) EXCEPT ![k] = x]
  BY <1>9, <1>10, ContentPut
<1> QED
  BY <1>4, <1>9, <1>11 DEF Puts, i

-----------------------------------------------------------------------------
(* Remainders. *)
\* A number is a multiple and a remainder ...
LEMMA Division ==
    ASSUME NEW h \in Nat, NEW L0 \in Nat \ {0}
    PROVE  /\ h \div L0 \in Nat /\ h % L0 \in 0 .. L0 - 1
           /\ h = L0 * (h \div L0) + (h % L0)
BY SMTT(30)

\* ... in one way.
LEMMA Remainder ==
    ASSUME NEW h \in Nat, NEW M \in Nat \ {0}, NEW q \in Nat, NEW r \in 0 .. M - 1,
           h = M * q + r
    PROVE  h % M = r
<1>1. h \div M \in Nat /\ h % M \in 0 .. M - 1 /\ h = M * (h \div M) + (h % M)
  BY Division
<1> DEFINE p == h \div M
           s == h % M
<1> HIDE DEF p, s
<1>2. p \in Nat /\ s \in 0 .. M - 1 /\ M * p + s = M * q + r
  BY <1>1 DEF p, s
<1>3. CASE p = q
  BY <1>2, <1>3 DEF s
<1>4. CASE p > q
  <2>1. PICK d \in Nat \ {0} : p = q + d
    <3>1. p - q \in Nat \ {0} /\ p = q + (p - q)
      BY <1>2, <1>4
    <3> QED
      BY <3>1
  <2>2. M * p = M * q + M * d /\ M * d >= M
    BY <2>1
  <2> QED
    BY <1>2, <2>2
<1>5. CASE p < q
  <2>1. PICK d \in Nat \ {0} : q = p + d
    <3>1. q - p \in Nat \ {0} /\ q = p + (q - p)
      BY <1>2, <1>5
    <3> QED
      BY <3>1
  <2>2. M * q = M * p + M * d /\ M * d >= M
    BY <1>2, <2>1
  <2> QED
    BY <1>2, <2>2
<1> QED
  BY <1>2, <1>3, <1>4, <1>5

\* What a key's bucket becomes when the table doubles.
LEMMA HalfRemainder ==
    ASSUME NEW h \in Nat, NEW L0 \in Nat \ {0}
    PROVE  (h % (2 * L0)) % L0 = h % L0
<1>1. PICK M \in Nat \ {0} : M = 2 * L0
  OBVIOUS
<1> DEFINE q == h \div M
           r == h % M
           a == r \div L0
           b == r % L0
<1>2. q \in Nat /\ r \in 0 .. M - 1 /\ h = M * q + r
  BY Division
<1>3. r \in Nat
  BY <1>2
<1>4. a \in Nat /\ b \in 0 .. L0 - 1 /\ r = L0 * a + b
  BY <1>3, Division
<1> HIDE DEF a, b, q, r
<1>5. h = L0 * (2 * q + a) + b /\ 2 * q + a \in Nat
  BY <1>1, <1>2, <1>4
<1>6. h % L0 = b
  BY <1>4, <1>5, Remainder
<1> QED
  BY <1>1, <1>6 DEF b, r

-----------------------------------------------------------------------------
\* The doubling of a constructor's length comes to an end.
LEMMA PowerIs ==
    ASSUME NEW n \in Nat
    PROVE  H!PowerOf2(n) \in Nat \ {0}
<1> DEFINE power[k \in 0 .. n] == IF k = 0 THEN 1 ELSE 2 * power[k - 1]
           G == [k \in 1 .. n |-> [s \in Nat |-> 2 * s]]
<1>1. PICK f : IsRecursive(f, n, Nat, 1, G)
  <2>1. G \in [1 .. n -> [Nat -> Nat]]
    OBVIOUS
  <2> HIDE DEF G
  <2> QED
    BY <2>1, Recursion
<1>2. f \in [0 .. n -> Nat] /\ f[0] = 1 /\ \A k \in 1 .. n : f[k] = 2 * f[k - 1]
  <2>1. f \in [0 .. n -> Nat] /\ f[0] = 1 /\ \A k \in 1 .. n : f[k] = G[k][f[k - 1]]
    <3> HIDE DEF G
    <3> QED
      BY <1>1 DEF IsRecursive
  <2>2. \A k \in 1 .. n : k - 1 \in 0 .. n /\ f[k - 1] \in Nat
    BY <2>1
  <2> QED
    BY <2>1, <2>2
<1>3. f = [k \in 0 .. n |-> IF k = 0 THEN 1 ELSE 2 * f[k - 1]]
  <2>1. \A k \in 0 .. n : f[k] = IF k = 0 THEN 1 ELSE 2 * f[k - 1]
    BY <1>2
  <2> QED
    BY <1>2, <2>1
<1>4. power = [k \in 0 .. n |-> IF k = 0 THEN 1 ELSE 2 * power[k - 1]]
  BY <1>3
<1> HIDE DEF power
<1>5. power[0] = 1 /\ \A k \in 1 .. n : power[k] = 2 * power[k - 1]
  BY <1>4
<1> DEFINE P == {k \in 0 .. n : power[k] \in Nat /\ power[k] > k}
<1>6. \A k \in 0 .. n : k \in P
  <2>1. 0 \in P
    BY <1>5
  <2>2. \A k \in 0 .. n - 1 : k \in P => k + 1 \in P
    BY <1>5
  <2> HIDE DEF P
  <2> QED
    BY <2>1, <2>2, InductionUpTo
<1> DEFINE S == {k \in 0 .. n : power[k] >= n}
<1>7. n \in S /\ S \subseteq Nat
  BY <1>6
<1>8. H!Least(S) \in S
  <2> HIDE DEF S
  <2> QED
    BY <1>7, LeastIs
<1>9. power[H!Least(S)] \in Nat \ {0}
  BY <1>6, <1>8
<1>10. H!PowerOf2(n) = power[H!Least(S)]
  BY DEF H!PowerOf2, power
<1> QED
  BY <1>9, <1>10

-----------------------------------------------------------------------------
\* The elements of a chain that move to bucket i, and no others.
HoldsMoved(m, chain, len, i) ==
    /\ m \in Seq(Elems)
    /\ \A p \in 1 .. Len(m) : \E j \in 1 .. Len(chain) :
        m[p] = chain[j] /\ Hash(chain[j].key) % len = i
    /\ \A j \in 1 .. Len(chain) : Hash(chain[j].key) % len = i =>
        \E p \in 1 .. Len(m) : m[p] = chain[j]
    /\ (\A j, q \in 1 .. Len(chain) : chain[j].key = chain[q].key => j = q) =>
        \A p, r \in 1 .. Len(m) : m[p].key = m[r].key => p = r

\* grow: the loop over a chain moves what belongs to a bucket, and nothing else.
LEMMA MovedIs ==
    ASSUME NEW chain \in Seq(Elems), NEW len \in Nat \ {0}, NEW i
    PROVE  HoldsMoved(H!Moved(chain, len, i), chain, len, i)
<1> DEFINE N == Len(chain)
           C == Seq(Elems)
           Goes(j) == Hash(chain[j].key) % len = i
           moved[n \in 0 .. Len(chain)] ==
            IF n = 0 THEN <<>>
            ELSE IF Hash(chain[n].key) % len = i THEN <<chain[n]>> \o moved[n - 1]
            ELSE moved[n - 1]
           G == [n \in 1 .. N |-> [s \in C |-> IF Goes(n) THEN <<chain[n]>> \o s ELSE s]]
<1>1. N \in Nat /\ \A j \in 1 .. N : chain[j] \in Elems
  BY LenProperties, ElementOfSeq
<1>2. \A n \in 1 .. N, s \in C :
        /\ <<chain[n]>> \o s \in C
        /\ Len(<<chain[n]>> \o s) = Len(s) + 1
        /\ (<<chain[n]>> \o s)[1] = chain[n]
        /\ \A p \in 1 .. Len(s) : (<<chain[n]>> \o s)[p + 1] = s[p]
  <2> TAKE n \in 1 .. N, s \in C
  <2> DEFINE one == <<chain[n]>>
  <2>1. one \in C /\ Len(one) = 1 /\ one[1] = chain[n] /\ Len(s) \in Nat
    BY <1>1, LenProperties
  <2> HIDE DEF one
  <2>2. /\ one \o s \in C /\ Len(one \o s) = 1 + Len(s)
        /\ \A p \in 1 .. 1 + Len(s) : (one \o s)[p] = IF p <= 1 THEN one[p] ELSE s[p - 1]
    <3>1. s \in C
      OBVIOUS
    <3>2. /\ one \o s \in C /\ Len(one \o s) = Len(one) + Len(s)
          /\ \A p \in 1 .. Len(one) + Len(s) : (one \o s)[p] = IF p <= Len(one) THEN one[p] ELSE s[p - Len(one)]
      BY <2>1, <3>1, ConcatProperties
    <3> HIDE DEF C
    <3> QED
      BY <2>1, <3>2
  <2>3. \A p \in 1 .. Len(s) : (one \o s)[p + 1] = s[p]
    BY <2>1, <2>2
  <2> QED
    BY <2>1, <2>2, <2>3 DEF one
<1>3. PICK f : IsRecursive(f, N, C, <<>>, G)
  <2>1. G \in [1 .. N -> [C -> C]]
    BY <1>2
  <2>2. <<>> \in C
    BY EmptySeq
  <2> HIDE DEF G, N, C
  <2> QED
    BY <1>1, <2>1, <2>2, Recursion
<1>4. /\ f \in [0 .. N -> C] /\ f[0] = <<>>
      /\ \A n \in 1 .. N : f[n] = G[n][f[n - 1]]
  BY <1>3 DEF IsRecursive
<1>5. \A n \in 1 .. N : f[n] = IF Goes(n) THEN <<chain[n]>> \o f[n - 1] ELSE f[n - 1]
  <2> TAKE n \in 1 .. N
  <2>1. n - 1 \in 0 .. N
    BY <1>1
  <2>2. f[n - 1] \in C
    BY <1>4, <2>1
  <2> QED
    BY <1>4, <2>2
<1>6. f = [n \in 0 .. Len(chain) |->
            IF n = 0 THEN <<>>
            ELSE IF Hash(chain[n].key) % len = i THEN <<chain[n]>> \o f[n - 1]
            ELSE f[n - 1]]
  <2>1. \A n \in 0 .. N : f[n] = IF n = 0 THEN <<>>
            ELSE IF Hash(chain[n].key) % len = i THEN <<chain[n]>> \o f[n - 1]
            ELSE f[n - 1]
    <3> TAKE n \in 0 .. N
    <3>1. CASE n = 0
      BY <1>4, <3>1
    <3>2. CASE n # 0
      <4>1. n \in 1 .. N
        BY <1>1, <3>2
      <4> QED
        BY <1>5, <3>2, <4>1, Zenon
    <3> QED
      BY <3>1, <3>2
  <2> QED
    BY <1>4, <2>1
<1>7. moved = [n \in 0 .. Len(chain) |->
            IF n = 0 THEN <<>>
            ELSE IF Hash(chain[n].key) % len = i THEN <<chain[n]>> \o moved[n - 1]
            ELSE moved[n - 1]]
  BY <1>6
<1> HIDE DEF moved
<1>8. /\ moved[0] = <<>>
      /\ \A n \in 1 .. N : moved[n] = IF Goes(n) THEN <<chain[n]>> \o moved[n - 1] ELSE moved[n - 1]
  <2>1. \A n \in 0 .. N : moved[n] =
            IF n = 0 THEN <<>>
            ELSE IF Hash(chain[n].key) % len = i THEN <<chain[n]>> \o moved[n - 1]
            ELSE moved[n - 1]
    BY <1>7
  <2>2. 0 \in 0 .. N /\ \A n \in 1 .. N : n \in 0 .. N /\ n # 0
    BY <1>1
  <2>3. moved[0] = <<>>
    BY <2>1, <2>2, Zenon
  <2>4. ASSUME NEW n \in 1 .. N
        PROVE  moved[n] = IF Goes(n) THEN <<chain[n]>> \o moved[n - 1] ELSE moved[n - 1]
    BY <2>1, <2>2, Zenon
  <2> QED
    BY <2>3, <2>4, Zenon
<1> HIDE DEF Goes, N
<1> DEFINE Ok(n, m) ==
        /\ m \in C
        /\ \A p \in 1 .. Len(m) : \E j \in 1 .. n : m[p] = chain[j] /\ Goes(j)
        /\ \A j \in 1 .. n : Goes(j) => \E p \in 1 .. Len(m) : m[p] = chain[j]
        /\ (\A j, q \in 1 .. N : chain[j].key = chain[q].key => j = q) =>
            \A p, r \in 1 .. Len(m) : m[p].key = m[r].key => p = r
           P == {n \in 0 .. N : Ok(n, moved[n])}
<1>9. \A n \in 0 .. N : n \in P
  <2>1. 0 \in P
    <3>1. moved[0] \in C /\ Len(moved[0]) = 0 /\ 1 .. 0 = {}
      BY <1>8, EmptySeq
    <3> QED
      BY <1>1, <3>1
  <2>2. ASSUME NEW n \in 0 .. N - 1, n \in P PROVE n + 1 \in P
    <3> DEFINE m == moved[n]
               t == moved[n + 1]
    <3>1. n + 1 \in 1 .. N /\ (n + 1) - 1 = n /\ n + 1 \in 0 .. N
      BY <1>1
    <3>2. t = IF Goes(n + 1) THEN <<chain[n + 1]>> \o m ELSE m
      BY <1>8, <3>1
    <3>3. Ok(n, m)
      BY <2>2
    <3>4. Len(m) \in Nat
      BY <3>3, LenProperties
    <3> HIDE DEF m, t
    <3>5. CASE ~Goes(n + 1)
      <4>1. t = m /\ \A j \in 1 .. n + 1 : Goes(j) => j \in 1 .. n
        BY <3>2, <3>5
      <4>2. Ok(n + 1, t)
        BY <1>1, <3>3, <4>1
      <4> QED
        BY <3>1, <4>2 DEF t
    <3>6. CASE Goes(n + 1)
      <4>1. /\ t \in C /\ Len(t) = Len(m) + 1 /\ t[1] = chain[n + 1]
            /\ \A p \in 1 .. Len(m) : t[p + 1] = m[p]
        BY <1>2, <3>1, <3>2, <3>3, <3>6
      <4>2. \A p \in 1 .. Len(t) : p = 1 \/ (p - 1 \in 1 .. Len(m) /\ t[p] = m[p - 1])
        <5> TAKE p \in 1 .. Len(t)
        <5> SUFFICES ASSUME p # 1 PROVE p - 1 \in 1 .. Len(m) /\ t[p] = m[p - 1]
          OBVIOUS
        <5>1. p - 1 \in 1 .. Len(m) /\ (p - 1) + 1 = p
          BY <3>4, <4>1
        <5> QED
          BY <4>1, <5>1
      <4>3. ASSUME NEW p \in 1 .. Len(t) PROVE \E j \in 1 .. n + 1 : t[p] = chain[j] /\ Goes(j)
        <5>1. CASE p = 1
          BY <3>1, <3>6, <4>1, <5>1
        <5>2. CASE p # 1
          <6>1. PICK j \in 1 .. n : m[p - 1] = chain[j] /\ Goes(j)
            BY <3>3, <4>2, <5>2
          <6> QED
            BY <4>2, <5>2, <6>1
        <5> QED
          BY <5>1, <5>2
      <4>4. ASSUME NEW j \in 1 .. n + 1, Goes(j) PROVE \E p \in 1 .. Len(t) : t[p] = chain[j]
        <5>1. CASE j = n + 1
          BY <3>4, <4>1, <5>1
        <5>2. CASE j # n + 1
          <6>0. j \in 1 .. n
            BY <3>1, <5>2
          <6>1. PICK p \in 1 .. Len(m) : m[p] = chain[j]
            BY <3>3, <4>4, <6>0, Zenon
          <6>2. p + 1 \in 1 .. Len(t) /\ t[p + 1] = chain[j]
            BY <3>4, <4>1, <6>1
          <6> QED
            BY <6>2
        <5> QED
          BY <5>1, <5>2
      <4>5. ASSUME \A j, q \in 1 .. N : chain[j].key = chain[q].key => j = q,
                   NEW p \in 1 .. Len(t), NEW r \in 1 .. Len(t), t[p].key = t[r].key
            PROVE  p = r
        <5>1. \A q \in 1 .. Len(m) : m[q].key # chain[n + 1].key
          <6> TAKE q \in 1 .. Len(m)
          <6>1. PICK j \in 1 .. n : m[q] = chain[j]
            BY <3>3
          <6>2. j \in 1 .. N /\ j # n + 1
            BY <1>1
          <6> QED
            BY <3>1, <4>5, <6>1, <6>2
        <5>2. \A q, u \in 1 .. Len(m) : m[q].key = m[u].key => q = u
          BY <3>3, <4>5
        <5>3. CASE p = 1 /\ r = 1
          BY <5>3
        <5>0. t[1].key = chain[n + 1].key
          BY <4>1
        <5>4. CASE p = 1 /\ r # 1
          <6>1. r - 1 \in 1 .. Len(m) /\ m[r - 1].key = t[r].key
            BY <4>2, <5>4
          <6> QED
            BY <4>5, <5>0, <5>1, <5>4, <6>1
        <5>5. CASE p # 1 /\ r = 1
          <6>1. p - 1 \in 1 .. Len(m) /\ m[p - 1].key = t[p].key
            BY <4>2, <5>5
          <6> QED
            BY <4>5, <5>0, <5>1, <5>5, <6>1
        <5>6. CASE p # 1 /\ r # 1
          <6>0. /\ p - 1 \in 1 .. Len(m) /\ r - 1 \in 1 .. Len(m)
                /\ m[p - 1].key = m[r - 1].key
            BY <4>2, <4>5, <5>6
          <6>1. p - 1 = r - 1
            BY <5>2, <6>0, Zenon
          <6>2. p \in Int /\ r \in Int
            BY <3>4, <4>1
          <6> QED
            BY <6>1, <6>2
        <5> QED
          BY <5>3, <5>4, <5>5, <5>6
      <4>6. Ok(n + 1, t)
        BY <4>1, <4>3, <4>4, <4>5
      <4> QED
        BY <3>1, <4>6 DEF t
    <3> QED
      BY <3>5, <3>6
  <2> HIDE DEF P
  <2> QED
    BY <1>1, <2>1, <2>2, InductionUpTo
<1>10. Ok(N, moved[N])
  <2>1. N \in 0 .. N
    BY <1>1
  <2>2. N \in P
    BY <1>9, <2>1
  <2> HIDE DEF Ok
  <2> QED
    BY <2>2
<1>12. HoldsMoved(moved[N], chain, len, i)
  BY <1>10 DEF HoldsMoved, Goes, N
<1>11. H!Moved(chain, len, i) = moved[Len(chain)]
  BY DEF H!Moved, moved
<1> QED
  BY <1>11, <1>12 DEF N

\* grow moves the elements to the buckets where they will be looked for.
LEMMA GrownIs ==
    ASSUME TablesAssumption, NEW bk, NEW len, WellPlaced(bk, len)
    PROVE  /\ WellPlaced(H!Grown(bk, len), 2 * len)
           /\ Content(H!Grown(bk, len), 2 * len) = Content(bk, len)
<1> DEFINE new == 2 * len
           bj == H!Grown(bk, len)
<1>1. len \in Nat \ {0} /\ new \in Nat \ {0} /\ bk \in [0 .. len - 1 -> Seq(Elems)]
  BY DEF WellPlaced
<1>2. \A i \in 0 .. new - 1 : i % len \in 0 .. len - 1 /\ bk[i % len] \in Seq(Elems)
  <2> TAKE i \in 0 .. new - 1
  <2>0. i \in Nat
    OBVIOUS
  <2>1. i % len \in 0 .. len - 1
    BY <1>1, <2>0, BucketOf
  <2> QED
    BY <1>1, <2>1
<1>3. bj = [i \in 0 .. new - 1 |-> H!Moved(bk[i % len], new, i)]
  BY DEF H!Grown
<1> HIDE DEF bj, new
<1>4. ASSUME NEW i \in 0 .. new - 1
      PROVE  /\ bj[i] \in Seq(Elems)
             /\ \A p \in 1 .. Len(bj[i]) : \E j \in 1 .. Len(bk[i % len]) :
                  bj[i][p] = bk[i % len][j] /\ Hash(bk[i % len][j].key) % new = i
             /\ \A j \in 1 .. Len(bk[i % len]) : Hash(bk[i % len][j].key) % new = i =>
                  \E p \in 1 .. Len(bj[i]) : bj[i][p] = bk[i % len][j]
             /\ \A p, r \in 1 .. Len(bj[i]) : bj[i][p].key = bj[i][r].key => p = r
  <2>1. PICK chain : chain = bk[i % len]
    OBVIOUS
  <2>2. bj[i] = H!Moved(chain, new, i)
    BY <1>3, <2>1
  <2>3. chain \in Seq(Elems)
    BY <1>2, <2>1
  <2>4. \A j, q \in 1 .. Len(chain) : chain[j].key = chain[q].key => j = q
    BY <1>2, <2>1 DEF WellPlaced
  <2>5. HoldsMoved(bj[i], chain, new, i)
    BY <1>1, <2>2, <2>3, MovedIs
  <2> QED
    BY <2>1, <2>4, <2>5, Zenon DEF HoldsMoved
<1>5. bj \in [0 .. new - 1 -> Seq(Elems)]
  BY <1>3, <1>4
<1>6. WellPlaced(bj, new)
  <2> SUFFICES ASSUME NEW i \in 0 .. new - 1, NEW p \in 1 .. Len(bj[i]),
                      NEW q \in 1 .. Len(bj[i])
               PROVE  /\ Hash(bj[i][p].key) % new = i
                      /\ bj[i][p].key = bj[i][q].key => p = q
    BY <1>1, <1>5 DEF WellPlaced
  <2>1. \E j \in 1 .. Len(bk[i % len]) :
                  bj[i][p] = bk[i % len][j] /\ Hash(bk[i % len][j].key) % new = i
    BY <1>4
  <2>2. bj[i][p].key = bj[i][q].key => p = q
    BY <1>4
  <2> QED
    BY <2>1, <2>2
<1>7. ASSUME NEW e \in Elems
      PROVE  Within(e, bj, new) <=> Within(e, bk, len)
  <2>1. ASSUME Within(e, bj, new) PROVE Within(e, bk, len)
    <3>1. PICK i \in 0 .. new - 1 : \E p \in 1 .. Len(bj[i]) : bj[i][p] = e
      BY <2>1 DEF Within
    <3>2. \E j \in 1 .. Len(bk[i % len]) : bk[i % len][j] = e
      <4>1. PICK p \in 1 .. Len(bj[i]) : bj[i][p] = e
        BY <3>1
      <4>0. \A q \in 1 .. Len(bj[i]) : \E j \in 1 .. Len(bk[i % len]) :
                  bj[i][q] = bk[i % len][j] /\ Hash(bk[i % len][j].key) % new = i
        BY <1>4
      <4>2. \E j \in 1 .. Len(bk[i % len]) : bj[i][p] = bk[i % len][j]
        BY <4>0, Zenon
      <4> QED
        BY <4>1, <4>2
    <3>3. i % len \in 0 .. len - 1
      BY <1>2
    <3> QED
      BY <3>2, <3>3, Zenon DEF Within
  <2>2. ASSUME Within(e, bk, len) PROVE Within(e, bj, new)
    <3>1. PICK i \in 0 .. len - 1 : \E j \in 1 .. Len(bk[i]) : bk[i][j] = e
      BY <2>2 DEF Within
    <3>2. Hash(e.key) % len = i /\ Hash(e.key) \in Nat
      BY <3>1 DEF WellPlaced, Elems, TablesAssumption
    <3> DEFINE n == Hash(e.key) % new
    <3>3. n \in 0 .. new - 1
      BY <1>1, <3>2, BucketOf
    <3>4. n % len = i
      BY <1>1, <3>2, HalfRemainder DEF new
    <3> HIDE DEF n
    <3>5. PICK j \in 1 .. Len(bk[i]) : bk[i][j] = e
      BY <3>1
    <3>6. j \in 1 .. Len(bk[n % len]) /\ Hash(bk[n % len][j].key) % new = n
      BY <3>4, <3>5 DEF n
    <3>7. \E p \in 1 .. Len(bj[n]) : bj[n][p] = bk[n % len][j]
      BY <1>4, <3>3, <3>6
    <3>8. \E p \in 1 .. Len(bj[n]) : bj[n][p] = e
      BY <3>4, <3>5, <3>7
    <3> QED
      BY <3>3, <3>8, Zenon DEF Within
  <2> QED
    BY <2>1, <2>2
<1>8. Content(bj, new) = Content(bk, len)
  BY <1>6, <1>7, ContentSame
<1> QED
  BY <1>6, <1>8 DEF bj, new

-----------------------------------------------------------------------------
(* An iterator goes through the elements in order. *)

Following(bk, len, i, p) ==
    LET later == {j \in 0 .. len - 1 : (j > i \/ (p = 0 /\ j = i)) /\ bk[j] # <<>>} IN
    IF p > 0 /\ p < Len(bk[i]) THEN <<i, p + 1>>
    ELSE IF later = {} THEN <<len, 0>>
    ELSE <<H!Least(later), 1>>

\* Where an element is, and where all up to one place are.
Places(bk, len) == {w \in (0 .. len - 1) \X Nat : w[2] \in 1 .. Len(bk[w[1]])}
UpToHere(bk, len, i, p) ==
    {w \in Places(bk, len) : w[1] < i \/ (w[1] = i /\ w[2] <= p)}

\* A set that has one pair more than another.
LEMMA SetOfPairs ==
    ASSUME NEW All, \A w \in All : w = <<w[1], w[2]>>, NEW here \in SUBSET All,
           NEW j0, NEW q0, <<j0, q0>> \in All, NEW S \in SUBSET All,
           \A j, q : <<j, q>> \in S <=> <<j, q>> \in here \/ (j = j0 /\ q = q0)
    PROVE  S = here \cup {<<j0, q0>>}
<1>1. ASSUME NEW w \in All PROVE w \in S <=> w \in here \cup {<<j0, q0>>}
  <2>1. w = <<w[1], w[2]>>
    OBVIOUS
  <2>2. <<w[1], w[2]>> \in S <=> <<w[1], w[2]>> \in here \/ (w[1] = j0 /\ w[2] = q0)
    OBVIOUS
  <2> QED
    BY <2>1, <2>2
<1> QED
  BY <1>1

\* next: the place after those that an iterator has visited, if one is left.
LEMMA StepIs ==
    ASSUME NEW bk, NEW len, WellPlaced(bk, len), NEW i \in 0 .. len - 1,
           NEW p \in 0 .. Len(bk[i]), p = 0 => i = 0,
           NEW s, s = Following(bk, len, i, p), NEW here, here = UpToHere(bk, len, i, p),
           NEW All, All = Places(bk, len)
    PROVE  /\ here = All => s = <<len, 0>>
           /\ here # All => /\ s \in All /\ s \notin here
                            /\ UpToHere(bk, len, s[1], s[2]) = here \cup {s}
<1> DEFINE later == {j \in 0 .. len - 1 : (j > i \/ (p = 0 /\ j = i)) /\ bk[j] # <<>>}
<1>1. /\ len \in Nat \ {0}
      /\ \A j \in 0 .. len - 1 : bk[j] \in Seq(Elems) /\ Len(bk[j]) \in Nat
      /\ \A j \in 0 .. len - 1 : bk[j] # <<>> <=> Len(bk[j]) >= 1
  <2>1. len \in Nat \ {0} /\ bk \in [0 .. len - 1 -> Seq(Elems)]
    BY DEF WellPlaced
  <2>2. \A j \in 0 .. len - 1 : bk[j] \in Seq(Elems)
    BY <2>1
  <2>3. \A j \in 0 .. len - 1 : Len(bk[j]) \in Nat /\ (bk[j] # <<>> => Len(bk[j]) \in Nat \ {0})
    BY <2>2, EmptySeq, LenProperties
  <2>4. Len(<<>>) = 0
    OBVIOUS
  <2> QED
    BY <2>1, <2>2, <2>3, <2>4
<1>2. \A j, q : <<j, q>> \in All <=> j \in 0 .. len - 1 /\ q \in 1 .. Len(bk[j])
  BY <1>1 DEF Places
<1>3. \A j, q : <<j, q>> \in here <=> <<j, q>> \in All /\ (j < i \/ (j = i /\ q <= p))
  BY DEF UpToHere
<1>4. \A w \in All : w = <<w[1], w[2]>>
  BY DEF Places
<1>5. here \subseteq All
  BY DEF UpToHere
<1>6. CASE p > 0 /\ p < Len(bk[i])
  <2>1. s = <<i, p + 1>>
    BY <1>6 DEF Following
  <2>2. <<i, p + 1>> \in All /\ <<i, p + 1>> \notin here
    BY <1>1, <1>2, <1>3, <1>6
  <2>3. UpToHere(bk, len, i, p + 1) = here \cup {<<i, p + 1>>}
    <3>1. \A j, q : <<j, q>> \in UpToHere(bk, len, i, p + 1) <=>
            <<j, q>> \in All /\ (j < i \/ (j = i /\ q <= p + 1))
      BY DEF UpToHere
    <3>0. ASSUME NEW j, NEW q, <<j, q>> \in All
          PROVE  (j < i \/ (j = i /\ q <= p + 1)) <=>
                 (j < i \/ (j = i /\ q <= p) \/ (j = i /\ q = p + 1))
      <4>1. j \in 0 .. len - 1 /\ q \in 1 .. Len(bk[j]) /\ Len(bk[j]) \in Nat
        BY <1>1, <1>2, <3>0
      <4> QED
        BY <1>1, <4>1
    <3>2. \A j, q : <<j, q>> \in UpToHere(bk, len, i, p + 1) <=>
            <<j, q>> \in here \/ (j = i /\ q = p + 1)
      <4> TAKE j, q
      <4>1. CASE <<j, q>> \in All
        BY <1>3, <3>0, <3>1, <4>1
      <4>2. CASE <<j, q>> \notin All
        BY <1>3, <2>2, <3>1, <4>2, Zenon
      <4> QED
        BY <4>1, <4>2
    <3>3. UpToHere(bk, len, i, p + 1) \subseteq All
      BY DEF UpToHere
    <3> QED
      <4>1. here \in SUBSET All /\ UpToHere(bk, len, i, p + 1) \in SUBSET All
        BY <1>5, <3>3
      <4> QED
        BY <1>4, <2>2, <3>2, <4>1, SetOfPairs
  <2> QED
    BY <2>1, <2>2, <2>3
<1>7. CASE ~(p > 0 /\ p < Len(bk[i])) /\ later = {}
  <2>1. s = <<len, 0>>
    BY <1>7 DEF Following
  <2>2. \A w \in All : w \in here
    <3> TAKE w \in All
    <3>1. w[1] \in 0 .. len - 1 /\ w[2] \in 1 .. Len(bk[w[1]]) /\ w = <<w[1], w[2]>>
      BY <1>1, <1>4 DEF Places
    <3>2. bk[w[1]] # <<>>
      BY <1>1, <3>1
    <3>3. ~(w[1] > i \/ (p = 0 /\ w[1] = i))
      BY <1>7, <3>1, <3>2
    <3>4. w[1] < i \/ (w[1] = i /\ w[2] <= p)
      BY <1>1, <1>7, <3>1, <3>3
    <3> QED
      BY <1>3, <3>1, <3>4
  <2> QED
    BY <1>5, <2>1, <2>2
<1>8. CASE ~(p > 0 /\ p < Len(bk[i])) /\ later # {}
  <2> DEFINE m == H!Least(later)
  <2>1. s = <<m, 1>>
    BY <1>8 DEF Following
  <2>2. m \in later /\ \A j \in later : m <= j
    <3>1. later \subseteq Nat
      BY <1>1
    <3> HIDE DEF later
    <3> QED
      BY <1>8, <3>1, LeastIs
  <2> HIDE DEF m
  <2>3. m \in 0 .. len - 1 /\ Len(bk[m]) >= 1 /\ (m > i \/ (p = 0 /\ m = i))
    BY <1>1, <2>2
  <2>4. <<m, 1>> \in All /\ <<m, 1>> \notin here
    <3>1. 1 \in 1 .. Len(bk[m])
      BY <1>1, <2>3
    <3>2. ~(m < i \/ (m = i /\ 1 <= p))
      BY <1>1, <2>3
    <3> QED
      BY <1>2, <1>3, <2>3, <3>1, <3>2
  <2>5. UpToHere(bk, len, m, 1) = here \cup {<<m, 1>>}
    <3>1. \A j, q : <<j, q>> \in UpToHere(bk, len, m, 1) <=>
            <<j, q>> \in All /\ (j < m \/ (j = m /\ q <= 1))
      BY DEF UpToHere
    <3>2. ASSUME NEW j, NEW q, <<j, q>> \in All
          PROVE  (j < m \/ (j = m /\ q <= 1)) <=>
                 (j < i \/ (j = i /\ q <= p) \/ (j = m /\ q = 1))
      <4>1. j \in 0 .. len - 1 /\ q \in 1 .. Len(bk[j]) /\ Len(bk[j]) >= 1
        BY <1>1, <1>2, <3>2
      <4>2. j > i => j >= m
        BY <1>1, <2>2, <4>1
      <4>3. j = i /\ q > p => p = 0 /\ m = i
        BY <1>1, <1>8, <2>2, <2>3, <4>1
      <4> QED
        BY <1>1, <1>8, <2>3, <4>1, <4>2, <4>3
    <3>3. UpToHere(bk, len, m, 1) \subseteq All
      BY DEF UpToHere
    <3>4. \A j, q : <<j, q>> \in UpToHere(bk, len, m, 1) <=>
            <<j, q>> \in here \/ (j = m /\ q = 1)
      <4> TAKE j, q
      <4>1. CASE <<j, q>> \in All
        <5>1. (j < m \/ (j = m /\ q <= 1)) <=>
                 (j < i \/ (j = i /\ q <= p) \/ (j = m /\ q = 1))
          BY <3>2, <4>1
        <5> QED
          BY <1>3, <3>1, <4>1, <5>1
      <4>2. CASE <<j, q>> \notin All
        BY <1>3, <2>4, <3>1, <4>2, Zenon
      <4> QED
        BY <4>1, <4>2
    <3> QED
      <4>1. here \in SUBSET All /\ UpToHere(bk, len, m, 1) \in SUBSET All
        BY <1>5, <3>3
      <4> QED
        BY <1>4, <2>4, <3>4, <4>1, SetOfPairs
  <2> QED
    BY <2>1, <2>4, <2>5
<1> QED
  BY <1>6, <1>7, <1>8

\* A place of its own for every key.
LEMMA PlacesAreKeys ==
    ASSUME TablesAssumption, NEW bk, NEW len, WellPlaced(bk, len),
           NEW K, K = KeysOf(Content(bk, len))
    PROVE  /\ IsFiniteSet(Places(bk, len)) /\ IsFiniteSet(K)
           /\ Cardinality(Places(bk, len)) = Cardinality(K)
           /\ Cardinality(K) \in Nat /\ Cardinality(K) <= Cardinality(Keys)
           /\ \A w \in Places(bk, len) : bk[w[1]][w[2]].key \in K
           /\ \A k \in K : \E w \in Places(bk, len) : bk[w[1]][w[2]].key = k
<1> DEFINE All == Places(bk, len)
           Place(k) == <<Hash(k) % len, Where(bk[Hash(k) % len], k)>>
           g == [k \in K |-> Place(k)]
<1>1. /\ IsFiniteSet(K) /\ Cardinality(K) \in Nat /\ Cardinality(K) <= Cardinality(Keys)
      /\ K \subseteq Keys
  <2>1. K \in SUBSET Keys
    BY DEF KeysOf
  <2> QED
    BY <2>1, FS_Subset, FS_CardinalityType DEF TablesAssumption
<1>2. \A k \in Keys : k \in K <=> Where(bk[Hash(k) % len], k) # 0
  <2> TAKE k \in Keys
  <2>1. k \in K <=> Lookup(bk, len, k) # NULL
    BY DEF KeysOf, Content
  <2> QED
    BY <2>1, LookupIs
<1>3. ASSUME NEW k \in K
      PROVE  /\ Place(k) \in All /\ bk[Place(k)[1]][Place(k)[2]].key = k
  <2> DEFINE i == Hash(k) % len
             p == Where(bk[i], k)
  <2>1. /\ i \in 0 .. len - 1 /\ p \in 0 .. Len(bk[i]) /\ Len(bk[i]) \in Nat
        /\ p # 0 => bk[i][p].key = k /\ bk[i][p] \in Elems
    BY <1>1, WhereIs
  <2>2. p # 0
    BY <1>1, <1>2
  <2>3. Place(k) = <<i, p>>
    OBVIOUS
  <2> HIDE DEF i, p, Place
  <2> QED
    BY <2>1, <2>2, <2>3 DEF Places
<1>4. ASSUME NEW w \in All
      PROVE  bk[w[1]][w[2]].key \in K /\ Place(bk[w[1]][w[2]].key) = w
  <2>1. /\ w = <<w[1], w[2]>> /\ w[1] \in 0 .. len - 1 /\ w[2] \in 1 .. Len(bk[w[1]])
    BY DEF Places
  <2>2. PICK i \in 0 .. len - 1 : i = w[1]
    BY <2>1
  <2>3. PICK p \in 1 .. Len(bk[i]) : p = w[2]
    BY <2>1, <2>2
  <2>4. bk[i][p] \in Elems /\ Hash(bk[i][p].key) % len = i
    <3>1. bk[i] \in Seq(Elems)
      BY DEF WellPlaced
    <3> QED
      BY <3>1, ElementOfSeq DEF WellPlaced
  <2>5. PICK k \in Keys : k = bk[i][p].key
    BY <2>4 DEF Elems
  <2>6. Where(bk[i], k) = p
    BY <2>4, <2>5, WhereIs
  <2>7. Len(bk[i]) \in Nat /\ p # 0
    <3>1. bk[i] \in Seq(Elems)
      BY DEF WellPlaced
    <3> QED
      BY <3>1, LenProperties
  <2>8. k \in K
    BY <1>2, <2>4, <2>5, <2>6, <2>7
  <2> QED
    BY <2>1, <2>2, <2>3, <2>4, <2>5, <2>6, <2>8
<1> HIDE DEF Place, All
<1>5. g \in Bijection(K, All)
  <2>1. g \in [K -> All] /\ \A k \in K : g[k] = Place(k)
    BY <1>3
  <2>2. \A j, k \in K : g[j] = g[k] => j = k
    BY <1>3, <2>1
  <2>3. \A w \in All : \E k \in K : g[k] = w
    BY <1>4, <2>1
  <2> HIDE DEF g
  <2> QED
    BY <2>1, <2>2, <2>3 DEF Bijection, Injection, Surjection, IsInjective
<1>6. ExistsBijection(K, All)
  BY <1>5 DEF ExistsBijection
<1>7. IsFiniteSet(All) /\ Cardinality(All) = Cardinality(K)
  BY <1>1, <1>6, FS_Bijection
<1> QED
  BY <1>1, <1>3, <1>4, <1>7 DEF All

\* The number of the places up to it tells a place.
LEMMA SamePlace ==
    ASSUME NEW bk, NEW len, WellPlaced(bk, len), IsFiniteSet(Places(bk, len)),
           NEW v \in Places(bk, len), NEW w \in Places(bk, len),
           Cardinality(UpToHere(bk, len, v[1], v[2])) =
           Cardinality(UpToHere(bk, len, w[1], w[2]))
    PROVE  v = w
<1> DEFINE A == UpToHere(bk, len, v[1], v[2])
           B == UpToHere(bk, len, w[1], w[2])
<1>1. \A u \in Places(bk, len) : /\ u = <<u[1], u[2]>> /\ u[1] \in Nat /\ u[2] \in Nat
  BY DEF Places, WellPlaced
<1>2. v \in A /\ w \in B
  BY <1>1 DEF UpToHere
<1>3. IsFiniteSet(A) /\ IsFiniteSet(B)
  <2>1. A \in SUBSET Places(bk, len) /\ B \in SUBSET Places(bk, len)
    BY DEF UpToHere
  <2> HIDE DEF A, B
  <2> QED
    BY <2>1, FS_Subset
<1>4. A \subseteq B \/ B \subseteq A
  BY <1>1 DEF UpToHere
<1>5. A = B
  <2>1. A \in SUBSET B \/ B \in SUBSET A
    BY <1>4
  <2>2. Cardinality(A) = Cardinality(B)
    OBVIOUS
  <2> HIDE DEF A, B
  <2> QED
    BY <1>3, <2>1, <2>2, FS_Subset
<1>6. w \in A /\ v \in B
  BY <1>2, <1>5
<1> QED
  BY <1>1, <1>6 DEF UpToHere

\* One step after another, an iterator comes to all places.
IsWalk(at, bk, len, N) ==
    at = [n \in 0 .. N |->
        IF n = 0 THEN <<0, 0>> ELSE Following(bk, len, at[n - 1][1], at[n - 1][2])]

\* An iterator visits all places, each once, and then comes to the end.
LEMMA WalkIsComplete ==
    ASSUME TablesAssumption, NEW bk, NEW len, WellPlaced(bk, len),
           NEW K, K = KeysOf(Content(bk, len)), NEW n, n = Cardinality(K),
           NEW at, IsWalk(at, bk, len, Cardinality(Keys) + 1)
    PROVE  /\ \A i \in 1 .. n : at[i][2] > 0
           /\ K = {bk[at[i][1]][at[i][2]].key : i \in 1 .. n}
           /\ at[n + 1] = <<len, 0>>
<1> DEFINE All == Places(bk, len)
           Here(m) == UpToHere(bk, len, at[m][1], at[m][2])
           Ok(m) == /\ at[m] = <<at[m][1], at[m][2]>> /\ at[m][1] \in 0 .. len - 1
                    /\ at[m][2] \in 0 .. Len(bk[at[m][1]])
                    /\ at[m][2] = 0 => at[m][1] = 0
                    /\ m # 0 => at[m] \in All
                    /\ Cardinality(Here(m)) = m
           P == {m \in 0 .. n : Ok(m)}
<1>1. /\ IsFiniteSet(All) /\ IsFiniteSet(K) /\ Cardinality(All) = n
      /\ n \in Nat /\ n <= Cardinality(Keys) /\ Cardinality(Keys) \in Nat
      /\ \A w \in All : bk[w[1]][w[2]].key \in K
      /\ \A k \in K : \E w \in All : bk[w[1]][w[2]].key = k
  BY PlacesAreKeys, FS_CardinalityType DEF TablesAssumption
<1>2. len \in Nat \ {0} /\ \A i \in 0 .. len - 1 : Len(bk[i]) \in Nat
  <2>1. len \in Nat \ {0} /\ \A i \in 0 .. len - 1 : bk[i] \in Seq(Elems)
    BY DEF WellPlaced
  <2> QED
    BY <2>1, LenProperties
<1>3. /\ at[0] = <<0, 0>>
      /\ \A m \in 0 .. n : at[m + 1] = Following(bk, len, at[m][1], at[m][2])
  <2>1. \A m \in 0 .. Cardinality(Keys) + 1 :
            at[m] = IF m = 0 THEN <<0, 0>> ELSE Following(bk, len, at[m - 1][1], at[m - 1][2])
    BY DEF IsWalk
  <2>2. 0 \in 0 .. Cardinality(Keys) + 1
    BY <1>1
  <2>3. at[0] = <<0, 0>>
    BY <2>1, <2>2, Zenon
  <2>4. ASSUME NEW m \in 0 .. n
        PROVE  at[m + 1] = Following(bk, len, at[m][1], at[m][2])
    <3>1. m + 1 \in 0 .. Cardinality(Keys) + 1 /\ m + 1 # 0 /\ (m + 1) - 1 = m
      BY <1>1
    <3>2. at[m + 1] = Following(bk, len, at[(m + 1) - 1][1], at[(m + 1) - 1][2])
      BY <2>1, <3>1, Zenon
    <3> QED
      BY <3>1, <3>2
  <2> QED
    BY <2>3, <2>4
<1>4. ASSUME NEW m \in 0 .. n, Ok(m)
      PROVE  /\ Here(m) = All => at[m + 1] = <<len, 0>>
             /\ Here(m) # All => /\ at[m + 1] \in All /\ at[m + 1] \notin Here(m)
                                 /\ Here(m + 1) = Here(m) \cup {at[m + 1]}
  <2>1. PICK i \in 0 .. len - 1 : i = at[m][1]
    BY <1>4
  <2>2. PICK p \in 0 .. Len(bk[i]) : p = at[m][2] /\ (p = 0 => i = 0)
    BY <1>4, <2>1
  <2>3. at[m + 1] = Following(bk, len, i, p) /\ Here(m) = UpToHere(bk, len, i, p)
    BY <1>3, <2>1, <2>2
  <2> HIDE DEF Ok, All
  <2>4. PICK here : here = Here(m)
    OBVIOUS
  <2>5. PICK s : s = at[m + 1]
    OBVIOUS
  <2>6. /\ here = All => s = <<len, 0>>
        /\ here # All => /\ s \in All /\ s \notin here
                         /\ UpToHere(bk, len, s[1], s[2]) = here \cup {s}
    BY <2>2, <2>3, <2>4, <2>5, StepIs DEF All
  <2> QED
    BY <2>4, <2>5, <2>6
<1>5. \A m \in 0 .. n : Here(m) \in SUBSET All /\ IsFiniteSet(Here(m))
  <2>1. \A m \in 0 .. n : Here(m) \in SUBSET All
    BY DEF UpToHere
  <2> HIDE DEF Here, All
  <2> QED
    BY <1>1, <2>1, FS_Subset
<1>6. \A m \in 0 .. n : Ok(m)
  <2>1. 0 \in P
    <3>1. at[0] = <<0, 0>> /\ at[0][1] = 0 /\ at[0][2] = 0
      BY <1>3
    <3>2. Here(0) = {}
      BY <1>2, <3>1 DEF UpToHere, Places
    <3>3. Cardinality(Here(0)) = 0
      BY <3>2, FS_EmptySet
    <3>4. 0 \in 0 .. len - 1 /\ 0 \in 0 .. Len(bk[0]) /\ 0 \in 0 .. n
      BY <1>1, <1>2
    <3> HIDE DEF Here, All
    <3> QED
      BY <3>1, <3>3, <3>4
  <2>2. ASSUME NEW m \in 0 .. n - 1, m \in P PROVE m + 1 \in P
    <3>1. Ok(m) /\ m \in 0 .. n /\ m + 1 \in 0 .. n /\ m + 1 # 0
      BY <1>1, <2>2
    <3>2. Cardinality(Here(m)) = m
      BY <3>1
    <3>3. Here(m) # All
      BY <1>1, <3>1, <3>2
    <3>4. at[m + 1] \in All /\ at[m + 1] \notin Here(m) /\ Here(m + 1) = Here(m) \cup {at[m + 1]}
      BY <1>4, <3>1, <3>3
    <3>5. Cardinality(Here(m + 1)) = m + 1
      <4> HIDE DEF Here
      <4> QED
        BY <1>5, <3>1, <3>2, <3>4, FS_AddElement
    <3>6. PICK s : s = at[m + 1]
      OBVIOUS
    <3>7. s = <<s[1], s[2]>> /\ s[1] \in 0 .. len - 1 /\ s[2] \in 0 .. Len(bk[s[1]]) /\ s[2] # 0
      BY <1>2, <3>4, <3>6 DEF Places
    <3> HIDE DEF Here, All
    <3>8. Ok(m + 1)
      BY <3>1, <3>4, <3>5, <3>6, <3>7
    <3> HIDE DEF Ok
    <3> QED
      BY <3>1, <3>8
  <2> HIDE DEF P
  <2>3. \A m \in 0 .. n : m \in P
    BY <1>1, <2>1, <2>2, InductionUpTo
  <2> HIDE DEF Ok
  <2> QED
    BY <2>3 DEF P
<1> HIDE DEF Here, P
<1>7. \A i \in 1 .. n : at[i] \in All /\ i \in 0 .. n /\ at[i][2] > 0
  <2> TAKE i \in 1 .. n
  <2>1. i \in 0 .. n /\ i # 0
    BY <1>1
  <2>2. Ok(i)
    BY <1>6, <2>1
  <2>3. at[i] \in All
    BY <2>1, <2>2
  <2> QED
    BY <1>2, <2>1, <2>3 DEF Places
<1>8. at[n + 1] = <<len, 0>>
  <2>1. n \in 0 .. n /\ Ok(n)
    BY <1>1, <1>6
  <2>2. Cardinality(Here(n)) = n
    BY <2>1
  <2>3. Here(n) = All
    <3> HIDE DEF All
    <3> QED
      BY <1>1, <1>5, <2>1, <2>2, FS_Subset
  <2> QED
    BY <1>4, <2>1, <2>3
<1>9. K = {bk[at[i][1]][at[i][2]].key : i \in 1 .. n}
  <2>1. \A i \in 1 .. n : bk[at[i][1]][at[i][2]].key \in K
    BY <1>1, <1>7
  <2>2. ASSUME NEW k \in K PROVE \E i \in 1 .. n : bk[at[i][1]][at[i][2]].key = k
    <3>1. PICK w \in All : bk[w[1]][w[2]].key = k
      BY <1>1
    <3> DEFINE U == UpToHere(bk, len, w[1], w[2])
               c == Cardinality(U)
    <3>2. U \in SUBSET All /\ w \in U
      BY DEF UpToHere, Places
    <3> HIDE DEF U, All
    <3>3. IsFiniteSet(U) /\ c \in Nat /\ c <= n /\ c # 0
      BY <1>1, <3>2, FS_Subset, FS_CardinalityType, FS_EmptySet
    <3>4. c \in 1 .. n
      BY <1>1, <3>3
    <3> HIDE DEF c
    <3>5. at[c] \in All /\ Cardinality(Here(c)) = c
      BY <1>6, <1>7, <3>4
    <3>6. at[c] = w
      BY <1>1, <3>5, SamePlace DEF c, U, All, Here
    <3> QED
      BY <3>1, <3>4, <3>6
  <2> QED
    BY <2>1, <2>2
<1> QED
  BY <1>7, <1>8, <1>9

\* The walk exists.
LEMMA WalkExists ==
    ASSUME NEW bk, NEW len, WellPlaced(bk, len), NEW N \in Nat
    PROVE  \E f : IsWalk(f, bk, len, N)
<1> DEFINE A == (0 .. len) \X Nat
           G == [n \in 1 .. N |-> [s \in A |-> Following(bk, len, s[1], s[2])]]
<1>1. len \in Nat \ {0}
  BY DEF WellPlaced
<1>2. \A s \in A : Following(bk, len, s[1], s[2]) \in A
  <2> TAKE s \in A
  <2> DEFINE later == {j \in 0 .. len - 1 : (j > s[1] \/ (s[2] = 0 /\ j = s[1])) /\ bk[j] # <<>>}
  <2>1. later \subseteq 0 .. len - 1 /\ later \subseteq Nat
    BY <1>1
  <2>2. Following(bk, len, s[1], s[2]) =
            IF s[2] > 0 /\ s[2] < Len(bk[s[1]]) THEN <<s[1], s[2] + 1>>
            ELSE IF later = {} THEN <<len, 0>> ELSE <<H!Least(later), 1>>
    BY DEF Following
  <2> HIDE DEF later
  <2>3. later # {} => H!Least(later) \in 0 .. len - 1
    BY <2>1, LeastIs
  <2>4. <<s[1], s[2] + 1>> \in A /\ <<len, 0>> \in A
    BY <1>1
  <2>5. later # {} => <<H!Least(later), 1>> \in A
    BY <1>1, <2>3
  <2> QED
    BY <2>2, <2>4, <2>5
<1>3. <<0, 0>> \in A /\ G \in [1 .. N -> [A -> A]]
  BY <1>1, <1>2
<1>4. PICK f : IsRecursive(f, N, A, <<0, 0>>, G)
  <2> HIDE DEF A, G
  <2> QED
    BY <1>3, Recursion
<1>5. f \in [0 .. N -> A] /\ f[0] = <<0, 0>> /\ \A n \in 1 .. N : f[n] = G[n][f[n - 1]]
  BY <1>4 DEF IsRecursive
<1>6. \A n \in 1 .. N : n - 1 \in 0 .. N /\ f[n - 1] \in A
  BY <1>5
<1>7. \A n \in 1 .. N : f[n] = Following(bk, len, f[n - 1][1], f[n - 1][2])
  BY <1>5, <1>6
<1>8. \A n \in 0 .. N : f[n] =
        IF n = 0 THEN <<0, 0>> ELSE Following(bk, len, f[n - 1][1], f[n - 1][2])
  <2> TAKE n \in 0 .. N
  <2>1. n = 0 \/ n \in 1 .. N
    OBVIOUS
  <2>2. CASE n = 0
    BY <1>5, <2>2
  <2>3. CASE n \in 1 .. N
    BY <1>7, <2>3
  <2> QED
    BY <2>1, <2>2, <2>3
<1>9. IsWalk(f, bk, len, N)
  <2>1. f = [n \in 0 .. N |-> f[n]]
    BY <1>5
  <2> HIDE DEF A, G
  <2> QED
    BY <1>8, <2>1 DEF IsWalk
<1> QED
  BY <1>9

-----------------------------------------------------------------------------
(* The tables and their storage. *)
TableRec == [storage : Storages, mTableLength : Nat, mNumElements : Nat]
BucketLists == UNION {[0 .. n - 1 -> Seq(Elems)] : n \in Nat}
TableStorage == [refs : Nat, bucks : BucketLists]

\* A table with record r and buckets bk, that should hold y.
IsGood(bk, r, y) ==
    /\ WellPlaced(bk, r.mTableLength)
    /\ r.mNumElements >= Cardinality(KeysOf(Content(bk, r.mTableLength)))
    /\ y # Lost => /\ y = Content(bk, r.mTableLength)
                   /\ r.mNumElements = Cardinality(KeysOf(y))

TableIs(t, hp, tb, vl) ==
    IF tb[t] = NULL THEN vl[t] = NULL
    ELSE IsGood(hp[tb[t].storage].bucks, tb[t], vl[t])

TablesSound(hp, tb, vl) ==
    /\ IsShare(Tables, TableStorage, TableRec, hp, tb)
    /\ vl = [t \in Tables |-> vl[t]]
    /\ \A t \in Tables : TableIs(t, hp, tb, vl)

\* The tables other than t keep what they have.
OthersStay(t, hq, tc) ==
    \A u \in Tables \ {t} :
        /\ tc[u] = table[u]
        /\ table[u] # NULL =>
            hq[table[u].storage].bucks = heap[table[u].storage].bucks

\* Table t has the record r and buckets bk now.
HasNow(t, r, bk, hq, tc) ==
    /\ IsShare(Tables, TableStorage, TableRec, hq, tc)
    /\ tc[t] = r /\ hq[r.storage].bucks = bk
    /\ OthersStay(t, hq, tc)

\* Buckets are a list of chains.
LEMMA PlacedIsList ==
    ASSUME NEW bk, NEW len, WellPlaced(bk, len)
    PROVE  bk \in BucketLists
BY DEF WellPlaced, BucketLists

\* What a table has.
LEMMA TableHas ==
    ASSUME TablesSound(heap, table, value), NEW t \in Tables, table[t] # NULL
    PROVE  /\ table[t] \in TableRec /\ table[t].storage \in Storages
           /\ table[t].mTableLength \in Nat \ {0} /\ table[t].mNumElements \in Nat
           /\ heap[table[t].storage] \in TableStorage
           /\ heap[table[t].storage].refs \in Nat \ {0}
           /\ H!Bucks(t) = heap[table[t].storage].bucks
           /\ WellPlaced(H!Bucks(t), table[t].mTableLength)
           /\ IsGood(H!Bucks(t), table[t], value[t])
<1>1. IsShare(Tables, TableStorage, TableRec, heap, table)
  BY DEF TablesSound
<1>2. /\ table[t] \in TableRec /\ table[t].storage \in Storages
      /\ heap[table[t].storage] \in TableStorage
      /\ heap[table[t].storage].refs \in Nat /\ heap[table[t].storage].refs >= 1
  BY <1>1, HolderHas
<1>3. IsGood(H!Bucks(t), table[t], value[t]) /\ H!Bucks(t) = heap[table[t].storage].bucks
  BY DEF TablesSound, TableIs, H!Bucks
<1>4. WellPlaced(H!Bucks(t), table[t].mTableLength)
  BY <1>3 DEF IsGood
<1>5. table[t].mTableLength \in Nat \ {0}
  BY <1>4 DEF WellPlaced
<1>6. table[t].mNumElements \in Nat
  BY <1>2 DEF TableRec
<1>7. heap[table[t].storage].refs \in Nat \ {0}
  BY <1>2
<1> QED
  BY <1>2, <1>3, <1>4, <1>5, <1>6, <1>7

\* A step changes one table.
LEMMA TableStep ==
    ASSUME TablesSound(heap, table, value), NEW t \in Tables,
           NEW hq, NEW tc, NEW y,
           IsShare(Tables, TableStorage, TableRec, hq, tc), OthersStay(t, hq, tc),
           NEW vl, vl = [value EXCEPT ![t] = y],
           TableIs(t, hq, tc, vl)
    PROVE  TablesSound(hq, tc, vl)
<1>1. value = [u \in Tables |-> value[u]]
  BY DEF TablesSound
<1>2. vl = [u \in Tables |-> vl[u]] /\ \A u \in Tables \ {t} : vl[u] = value[u]
  BY <1>1
<1>3. ASSUME NEW u \in Tables \ {t}
      PROVE  TableIs(u, hq, tc, vl)
  <2>1. TableIs(u, heap, table, value)
    BY DEF TablesSound
  <2> QED
    BY <1>2, <2>1 DEF TableIs, OthersStay
<1> QED
  BY <1>2, <1>3 DEF TablesSound

\* There is storage for a table that gets its own.
LEMMA FreeForTable ==
    ASSUME TablesAssumption, IsShare(Tables, TableStorage, TableRec, heap, table),
           NEW t \in Tables, table[t] = NULL \/ H!IsShared(t)
    PROVE  H!Free \in Storages /\ heap[H!Free].refs = 0
<1> DEFINE P == Tables \ {t}
<1>1. Cardinality(P) < Cardinality(Storages) /\ P \in SUBSET Tables
  <2>1. /\ Cardinality(P) = Cardinality(Tables) - 1
        /\ Cardinality(Tables) \in Nat /\ Cardinality(Storages) \in Nat
    BY FS_RemoveElement, FS_CardinalityType DEF TablesAssumption
  <2> QED
    BY <2>1 DEF TablesAssumption
<1>2. ASSUME NEW u \in Tables, table[u] # NULL
      PROVE  \E v \in P : table[v] # NULL /\ table[v].storage = table[u].storage
  <2>1. CASE u # t
    BY <1>2, <2>1
  <2>2. CASE u = t
    <3> DEFINE b == table[t].storage
    <3>1. heap[b].refs > 1
      BY <1>2, <2>2 DEF H!IsShared
    <3>2. b \in Storages /\ t \in SharersIn(Tables, table, b)
      BY <1>2, <2>2, HolderHas
    <3> HIDE DEF b
    <3>3. /\ IsFiniteSet(SharersIn(Tables, table, b))
          /\ heap[b].refs = Cardinality(SharersIn(Tables, table, b))
      BY <3>2, StorageIs
    <3>4. SharersIn(Tables, table, b) # {t}
      BY <3>1, <3>3, FS_Singleton
    <3>5. PICK v \in SharersIn(Tables, table, b) : v # t
      BY <3>2, <3>4
    <3> QED
      BY <2>2, <3>5 DEF SharersIn, b
  <2> QED
    BY <2>1, <2>2
<1>3. \E b \in Storages : heap[b].refs = 0
  <2> HIDE DEF P
  <2> QED
    BY <1>1, <1>2, StorageIsFree DEF TablesAssumption
<1> QED
  BY <1>3 DEF H!Free

\* _edit and the change of the buckets that it is for.
LEMMA EditIs ==
    ASSUME TablesAssumption, IsShare(Tables, TableStorage, TableRec, heap, table),
           NEW t \in Tables, table[t] # NULL, NEW bk \in BucketLists,
           NEW r \in TableRec, r.storage = H!Edited(t),
           NEW hq, hq = H!Edit(t, bk), NEW tc, tc = [table EXCEPT ![t] = r]
    PROVE  HasNow(t, r, bk, hq, tc)
<1> DEFINE b == table[t].storage
<1>1. /\ b \in Storages /\ heap[b] \in TableStorage
      /\ heap[b].refs \in Nat /\ heap[b].refs >= 1
      /\ heap[b].refs = 1 => SharersIn(Tables, table, b) = {t}
  BY HolderHas
<1>2. /\ table \in [Tables -> TableRec \cup {NULL}] /\ NULL \notin TableRec
      /\ heap \in [Storages -> TableStorage \cup {Unused}]
      /\ \A q \in TableRec : q.storage \in Storages
  BY DEF IsShare
<1>3. tc \in [Tables -> TableRec \cup {NULL}] /\ tc[t] = r /\ \A u \in Tables \ {t} : tc[u] = table[u]
  BY <1>2
<1>4. CASE ~H!IsShared(t)
  <2>1. heap[b].refs = 1
    BY <1>1, <1>4 DEF H!IsShared
  <2>2. r.storage = b /\ hq = [heap EXCEPT ![b].bucks = bk]
    BY <1>4 DEF H!Edit, H!Edited
  <2>3. \A c \in Storages : c # b => hq[c] = heap[c]
    BY <1>2, <2>2
  <2>4. hq[b] = [heap[b] EXCEPT !.bucks = bk]
    BY <1>1, <1>2, <2>2
  <2>5. hq[b] \in TableStorage /\ hq[b].refs = heap[b].refs /\ hq[b].bucks = bk
    <3> HIDE DEF b
    <3> QED
      BY <1>1, <2>4 DEF TableStorage
  <2>6. hq \in [Storages -> TableStorage \cup {Unused}]
    <3>1. hq = [c \in Storages |-> hq[c]]
      BY <1>2, <2>2
    <3>2. \A c \in Storages : hq[c] \in TableStorage \cup {Unused}
      <4> HIDE DEF b
      <4> QED
        BY <1>2, <2>3, <2>5
    <3> QED
      BY <3>1, <3>2
  <2>7. \A c \in Storages : hq[c].refs = heap[c].refs
    BY <2>3, <2>5
  <2>8. \A c \in Storages : SharersIn(Tables, tc, c) = SharersIn(Tables, table, c)
    BY <1>2, <1>3, <2>2 DEF SharersIn
  <2>9. IsShare(Tables, TableStorage, TableRec, hq, tc)
    <3>1. SameShares(Tables, TableStorage, TableRec, heap, table, hq, tc)
      BY <1>3, <2>6, <2>7, <2>8 DEF SameShares
    <3> QED
      BY <3>1, Staying
  <2>10. \A u \in Tables \ {t} : table[u] # NULL => table[u].storage # b /\ table[u].storage \in Storages
    BY <1>1, <1>2, <2>1 DEF SharersIn
  <2> HIDE DEF b
  <2> QED
    BY <1>3, <2>2, <2>3, <2>5, <2>9, <2>10 DEF HasNow, OthersStay
<1>5. CASE H!IsShared(t)
  <2> DEFINE hr == Released(heap, b)
             td == [table EXCEPT ![t] = NULL]
             f == H!Free
             x == [refs |-> 1, bucks |-> bk]
  <2>1. f \in Storages /\ heap[f].refs = 0
    BY <1>5, FreeForTable
  <2>2. heap[b].refs > 1 /\ f # b
    BY <1>1, <1>5, <2>1 DEF H!IsShared
  <2>3. r.storage = f
    BY <1>5 DEF H!Edited
  <2>4. hq = [hr EXCEPT ![f] = x]
    BY <1>5 DEF H!Edit, H!Release, H!Freed, Released, Unused
  <2>5. IsShare(Tables, TableStorage, TableRec, hr, td)
    BY Leaving
  <2>6. \A c \in Storages : c # b => hr[c] = heap[c]
    BY <1>2 DEF Released
  <2>7. x \in TableStorage /\ x.refs = 1 /\ x.bucks = bk
    BY DEF TableStorage
  <2>8. td[t] = NULL /\ [td EXCEPT ![t] = r] = tc
    BY <1>2
  <2>9. hr[r.storage].refs = 0
    BY <2>1, <2>2, <2>3, <2>6
  <2>10. hr[b].bucks = heap[b].bucks
    <3>1. hr[b] = [heap[b] EXCEPT !.refs = heap[b].refs - 1]
      BY <1>1, <1>2, <2>2 DEF Released
    <3> HIDE DEF hr, b
    <3> QED
      BY <1>1, <3>1 DEF TableStorage
  <2>11. hr = [c \in Storages |-> hr[c]]
    BY <1>2 DEF Released
  <2> HIDE DEF hr, td, x, f, b
  <2>12. IsShare(Tables, TableStorage, TableRec, [hr EXCEPT ![r.storage] = x], [td EXCEPT ![t] = r])
    BY <2>5, <2>7, <2>8, <2>9, Making
  <2>13. hq[f] = x /\ \A c \in Storages : c # f => hq[c] = hr[c]
    BY <2>1, <2>4, <2>11
  <2>14. ASSUME NEW u \in Tables \ {t}, table[u] # NULL
         PROVE  hq[table[u].storage].bucks = heap[table[u].storage].bucks
    <3>1. table[u].storage \in Storages /\ heap[table[u].storage].refs # 0
      BY <2>14, HolderHas
    <3>2. hq[table[u].storage] = hr[table[u].storage]
      BY <2>1, <2>13, <3>1
    <3> QED
      BY <2>6, <2>10, <3>1, <3>2
  <2> QED
    BY <1>3, <2>3, <2>4, <2>7, <2>8, <2>12, <2>13, <2>14 DEF HasNow, OthersStay
<1> QED
  BY <1>4, <1>5 DEF H!IsShared

\* What a key has changes in one table, and the table's count with it.
NewCount(old, x, n) ==
    IF x # NULL /\ old = NULL THEN n + 1
    ELSE IF x = NULL /\ old # NULL THEN n - 1 ELSE n

\* A change of one key, in place or in a copy.
LEMMA ChangeIs ==
    ASSUME TablesAssumption, TablesSound(heap, table, value), NEW t \in Tables, table[t] # NULL,
           NEW k \in Keys, NEW x \in TableValues \cup {NULL},
           NEW c, c = Content(H!Bucks(t), table[t].mTableLength),
           NEW bk, NEW len, WellPlaced(bk, len), Content(bk, len) = [c EXCEPT ![k] = x],
           NEW n, n = NewCount(c[k], x, table[t].mNumElements),
           NEW hq, hq = H!Edit(t, bk),
           NEW tc, tc = [table EXCEPT ![t] =
                [storage |-> H!Edited(t), mTableLength |-> len, mNumElements |-> n]],
           NEW y, value[t] # Lost => y = [value[t] EXCEPT ![k] = x],
           value[t] = Lost => y = Lost,
           NEW vl, vl = [value EXCEPT ![t] = y]
    PROVE  TablesSound(hq, tc, vl)
<1> DEFINE r == [storage |-> H!Edited(t), mTableLength |-> len, mNumElements |-> n]
           d == [c EXCEPT ![k] = x]
<1>1. /\ table[t].storage \in Storages /\ table[t].mNumElements \in Nat
      /\ WellPlaced(H!Bucks(t), table[t].mTableLength)
      /\ IsGood(H!Bucks(t), table[t], value[t])
  BY TableHas
<1>2. /\ c = [j \in Keys |-> c[j]] /\ c[k] \in TableValues \cup {NULL}
      /\ table[t].mNumElements >= Cardinality(KeysOf(c))
      /\ value[t] # Lost => value[t] = c /\ table[t].mNumElements = Cardinality(KeysOf(c))
  <2>1. c = [j \in Keys |-> c[j]]
    BY DEF Content
  <2>2. c[k] \in TableValues \cup {NULL}
    BY <1>1, LookupIs DEF Content
  <2> QED
    BY <1>1, <2>1, <2>2 DEF IsGood
<1>3. /\ IsFiniteSet(KeysOf(c)) /\ Cardinality(KeysOf(c)) \in Nat
      /\ x # NULL /\ c[k] = NULL => Cardinality(KeysOf(d)) = Cardinality(KeysOf(c)) + 1
      /\ x # NULL /\ c[k] # NULL => KeysOf(d) = KeysOf(c)
      /\ x = NULL /\ c[k] # NULL => Cardinality(KeysOf(d)) = Cardinality(KeysOf(c)) - 1
  BY <1>2, KeysCounted
<1>4. x = NULL /\ c[k] = NULL => d = c
  BY <1>2
<1>5. k \in KeysOf(c) <=> c[k] # NULL
  BY DEF KeysOf
<1>6. c[k] # NULL => Cardinality(KeysOf(c)) # 0
  BY <1>3, <1>5, FS_EmptySet
<1> HIDE DEF d
<1>7. /\ n \in Nat /\ n >= Cardinality(KeysOf(d))
      /\ table[t].mNumElements = Cardinality(KeysOf(c)) => n = Cardinality(KeysOf(d))
  BY <1>1, <1>2, <1>3, <1>4, <1>6 DEF NewCount
<1>8. H!Edited(t) \in Storages
  <2>1. H!IsShared(t) => H!Free \in Storages
    BY FreeForTable DEF TablesSound
  <2> QED
    BY <1>1, <2>1 DEF H!Edited
<1>9. r \in TableRec /\ r.storage = H!Edited(t) /\ r.mTableLength = len /\ r.mNumElements = n
  BY <1>7, <1>8 DEF TableRec, WellPlaced
<1>10. bk \in BucketLists
  BY PlacedIsList
<1>11. tc = [table EXCEPT ![t] = r] /\ IsShare(Tables, TableStorage, TableRec, heap, table)
  BY DEF TablesSound
<1> HIDE DEF r
<1>12. HasNow(t, r, bk, hq, tc)
  BY <1>9, <1>10, <1>11, EditIs
<1>14. IsGood(bk, r, y)
  <2>1. y # Lost => value[t] # Lost
    OBVIOUS
  <2>2. y # Lost => y = d
    BY <1>2, <2>1 DEF d
  <2>3. Content(bk, len) = d
    BY DEF d
  <2> QED
    BY <1>2, <1>7, <1>9, <2>1, <2>2, <2>3 DEF IsGood
<1>15. NULL # r
  BY <1>9, <1>11 DEF IsShare
<1>16. value = [u \in Tables |-> value[u]]
  BY DEF TablesSound
<1>17. TableIs(t, hq, tc, vl)
  BY <1>12, <1>14, <1>15, <1>16 DEF TableIs, HasNow
<1> QED
  BY <1>12, <1>17, TableStep DEF HasNow

\* find: the position of the key's element.
LEMMA LookupNow ==
    ASSUME TablesAssumption, TablesSound(heap, table, value), NEW t \in Tables, table[t] # NULL,
           NEW k \in Keys,
           NEW p, p = H!Position(t, k),
           NEW c, c = Content(H!Bucks(t), table[t].mTableLength)
    PROVE  /\ p = Where(H!Bucks(t)[Hash(k) % table[t].mTableLength], k)
           /\ c[k] = NULL <=> p = 0
           /\ H!Bucket(t, k) = Hash(k) % table[t].mTableLength
<1>1. p = Where(H!Bucks(t)[Hash(k) % table[t].mTableLength], k)
  BY DEF H!Position, Where, H!Bucket
<1>2. WellPlaced(H!Bucks(t), table[t].mTableLength)
  BY TableHas
<1>3. c[k] = Lookup(H!Bucks(t), table[t].mTableLength, k)
  BY DEF Content
<1> QED
  BY <1>1, <1>2, <1>3, LookupIs DEF H!Bucket

\* insert keeps the tables sound.
LEMMA TableInsert ==
    ASSUME TablesAssumption, TablesSound(heap, table, value), NEW t \in Tables, table[t] # NULL,
           NEW k \in Keys, NEW x \in TableValues,
           H!Insert(t, k, x), H!Record(t, H!Own!Put(t, k, x))
    PROVE  TablesSound(heap', table', value')
<1> DEFINE length == table[t].mTableLength
           n == table[t].mNumElements + 1
           i == Hash(k) % length
           old == H!Bucks(t)
           bucks == [old EXCEPT ![i] = Append(@, [key |-> k, val |-> x])]
           grows == n > (length * 3) \div 4
           bk == IF grows THEN H!Grown(bucks, length) ELSE bucks
           len == IF grows THEN 2 * length ELSE length
           c == Content(old, length)
           y == IF value[t] = Lost THEN Lost ELSE [value[t] EXCEPT ![k] = x]
<1>1. WellPlaced(old, length) /\ length \in Nat \ {0}
  BY TableHas
<1>2. /\ H!Position(t, k) = Where(old[i], k) /\ H!Bucket(t, k) = i
      /\ c[k] = NULL <=> H!Position(t, k) = 0
  BY LookupNow
<1>3. /\ H!Position(t, k) = 0
      /\ heap' = H!Edit(t, bk)
      /\ table' = [table EXCEPT ![t] =
                    [storage |-> H!Edited(t), mNumElements |-> n, mTableLength |-> len]]
  BY <1>2 DEF H!Insert
<1>4. value' = [value EXCEPT ![t] = y]
  <2>1. CASE value[t] = Lost
    <3>1. value' = value /\ value = [u \in Tables |-> value[u]]
      BY <2>1 DEF H!Record, TablesSound
    <3> QED
      BY <2>1, <3>1
  <2>2. CASE value[t] # Lost
    BY <2>2 DEF H!Record, H!Own!Put, H!Own!Become
  <2> QED
    BY <2>1, <2>2
<1>5. WellPlaced(bucks, length) /\ Content(bucks, length) = [c EXCEPT ![k] = x]
  <2>1. Where(old[i], k) = 0
    BY <1>2, <1>3
  <2> HIDE DEF old, length
  <2>2. Puts(old, bucks, length, k, x)
    BY <1>1, <2>1, AppendIsPut
  <2> QED
    BY <2>2 DEF Puts
<1>6. WellPlaced(bk, len) /\ Content(bk, len) = [c EXCEPT ![k] = x]
  <2> HIDE DEF bucks, grows, length, c
  <2>1. CASE grows
    BY <1>5, <2>1, GrownIs
  <2>2. CASE ~grows
    BY <1>5, <2>2
  <2> QED
    BY <2>1, <2>2
<1>7. n = NewCount(c[k], x, table[t].mNumElements)
  <2>1. c[k] = NULL /\ x # NULL
    BY <1>2, <1>3 DEF TablesAssumption
  <2> HIDE DEF c
  <2> QED
    BY <2>1 DEF NewCount
<1>8. table' = [table EXCEPT ![t] =
            [storage |-> H!Edited(t), mTableLength |-> len, mNumElements |-> n]]
  BY <1>3
<1>9. /\ value[t] # Lost => y = [value[t] EXCEPT ![k] = x]
      /\ value[t] = Lost => y = Lost
  OBVIOUS
<1>10. x \in TableValues \cup {NULL} /\ c = Content(H!Bucks(t), table[t].mTableLength)
  OBVIOUS
<1> HIDE DEF y, bk, len, n, c, old
<1>11. TablesSound(H!Edit(t, bk), [table EXCEPT ![t] =
            [storage |-> H!Edited(t), mTableLength |-> len, mNumElements |-> n]],
            [value EXCEPT ![t] = y])
  BY <1>6, <1>7, <1>9, <1>10, ChangeIs
<1> QED
  BY <1>3, <1>4, <1>8, <1>11

\* erase keeps the tables sound.
LEMMA TableErase ==
    ASSUME TablesAssumption, TablesSound(heap, table, value), NEW t \in Tables, table[t] # NULL,
           NEW k \in Keys,
           H!Erase(t, k), H!Record(t, H!Own!Take(t, k))
    PROVE  TablesSound(heap', table', value')
<1> DEFINE len == table[t].mTableLength
           p == H!Position(t, k)
           i == Hash(k) % len
           old == H!Bucks(t)
           cut == [old EXCEPT ![i] = SubSeq(@, 1, p - 1) \o SubSeq(@, p + 1, Len(@))]
           bk == IF p = 0 THEN old ELSE cut
           n == IF p = 0 THEN table[t].mNumElements ELSE table[t].mNumElements - 1
           c == Content(old, len)
           y == IF value[t] = Lost THEN Lost ELSE [value[t] EXCEPT ![k] = NULL]
<1>1. WellPlaced(old, len) /\ table[t] \in TableRec
  BY TableHas
<1>2. /\ p = Where(old[i], k) /\ H!Bucket(t, k) = i
      /\ c[k] = NULL <=> p = 0
  BY LookupNow
<1>3. heap' = H!Edit(t, bk)
  BY <1>2 DEF H!Erase
<1>4. table' = [table EXCEPT ![t] =
            [storage |-> H!Edited(t), mTableLength |-> len, mNumElements |-> n]]
  <2>1. table' = [table EXCEPT ![t].storage = H!Edited(t), ![t].mNumElements = n]
    BY DEF H!Erase
  <2>2. table = [u \in Tables |-> table[u]]
    BY DEF TablesSound, IsShare
  <2>3. table' = [table EXCEPT ![t] = [table[t] EXCEPT !.storage = H!Edited(t), !.mNumElements = n]]
    BY <2>1, <2>2
  <2>4. [table[t] EXCEPT !.storage = H!Edited(t), !.mNumElements = n] =
            [storage |-> H!Edited(t), mTableLength |-> len, mNumElements |-> n]
    <3>1. ASSUME NEW r \in TableRec, NEW b, NEW m
          PROVE  [r EXCEPT !.storage = b, !.mNumElements = m] =
                    [storage |-> b, mTableLength |-> r.mTableLength, mNumElements |-> m]
      <4> DEFINE q == [r EXCEPT !.storage = b]
                 w == [q EXCEPT !.mNumElements = m]
      <4>1. /\ q = [j \in {"storage", "mTableLength", "mNumElements"} |-> q[j]]
            /\ q.storage = b /\ q.mTableLength = r.mTableLength
        BY DEF TableRec
      <4> HIDE DEF q
      <4>2. /\ w = [j \in {"storage", "mTableLength", "mNumElements"} |-> w[j]]
            /\ w.storage = b /\ w.mTableLength = r.mTableLength /\ w.mNumElements = m
        BY <4>1
      <4>3. w = [storage |-> b, mTableLength |-> r.mTableLength, mNumElements |-> m]
        <5> HIDE DEF w
        <5> QED
          BY <4>2
      <4> QED
        BY <4>3 DEF q
    <3> HIDE DEF n
    <3> QED
      BY <1>1, <3>1
  <2> QED
    BY <2>3, <2>4
<1>5. value' = [value EXCEPT ![t] = y]
  <2>1. CASE value[t] = Lost
    <3>1. value' = value /\ value = [u \in Tables |-> value[u]]
      BY <2>1 DEF H!Record, TablesSound
    <3> QED
      BY <2>1, <3>1
  <2>2. CASE value[t] # Lost
    BY <2>2 DEF H!Record, H!Own!Take, H!Own!Put, H!Own!Become
  <2> QED
    BY <2>1, <2>2
<1>6. WellPlaced(bk, len) /\ Content(bk, len) = [c EXCEPT ![k] = NULL]
  <2>1. CASE p = 0
    <3>1. [c EXCEPT ![k] = NULL] = c
      <4>1. c[k] = NULL /\ c = [j \in Keys |-> c[j]]
        BY <1>2, <2>1 DEF Content
      <4> HIDE DEF c
      <4> QED
        BY <4>1
    <3> QED
      BY <1>1, <2>1, <3>1
  <2>2. CASE p # 0
    <3>1. WellPlaced(cut, len) /\ Content(cut, len) = [c EXCEPT ![k] = NULL]
      <4> HIDE DEF p, old, len
      <4>1. p = Where(old[Hash(k) % len], k)
        BY <1>2
      <4>2. Puts(old, cut, len, k, NULL)
        BY <1>1, <2>2, <4>1, RemoveIsTake
      <4> QED
        BY <4>2 DEF Puts
    <3> QED
      BY <2>2, <3>1
  <2> QED
    BY <2>1, <2>2
<1>7. n = NewCount(c[k], NULL, table[t].mNumElements)
  <2> HIDE DEF c, p
  <2> QED
    BY <1>2 DEF NewCount
<1>8. /\ value[t] # Lost => y = [value[t] EXCEPT ![k] = NULL]
      /\ value[t] = Lost => y = Lost
  OBVIOUS
<1>9. NULL \in TableValues \cup {NULL} /\ c = Content(H!Bucks(t), table[t].mTableLength)
  OBVIOUS
<1> HIDE DEF y, bk, len, n, c, old
<1>10. TablesSound(H!Edit(t, bk), [table EXCEPT ![t] =
            [storage |-> H!Edited(t), mTableLength |-> len, mNumElements |-> n]],
            [value EXCEPT ![t] = y])
  BY <1>6, <1>7, <1>8, <1>9, ChangeIs
<1> QED
  BY <1>3, <1>4, <1>5, <1>10

\* find and access that write keep the tables sound.
LEMMA TableWrite ==
    ASSUME TablesAssumption, TablesSound(heap, table, value), NEW t \in Tables, table[t] # NULL,
           NEW k \in Keys, NEW x \in TableValues,
           H!Write(t, k, x),
           IF H!Position(t, k) = 0 THEN UNCHANGED value
           ELSE H!Record(t, H!Own!Put(t, k, x))
    PROVE  TablesSound(heap', table', value')
<1> DEFINE len == table[t].mTableLength
           p == H!Position(t, k)
           i == Hash(k) % len
           old == H!Bucks(t)
           new == [old EXCEPT ![i][p].val = x]
           bk == IF p = 0 THEN old ELSE new
           z == IF p = 0 THEN NULL ELSE x
           n == table[t].mNumElements
           c == Content(old, len)
           y == IF value[t] = Lost THEN Lost ELSE [value[t] EXCEPT ![k] = z]
<1>1. WellPlaced(old, len) /\ table[t] \in TableRec /\ IsGood(old, table[t], value[t])
  BY TableHas
<1>2. /\ p = Where(old[i], k) /\ H!Bucket(t, k) = i
      /\ c[k] = NULL <=> p = 0
  BY LookupNow
<1>3. heap' = H!Edit(t, bk)
  BY <1>2 DEF H!Write
<1>4. table' = [table EXCEPT ![t] =
            [storage |-> H!Edited(t), mTableLength |-> len, mNumElements |-> n]]
  <2>1. table' = [table EXCEPT ![t].storage = H!Edited(t)]
    BY DEF H!Write
  <2>2. table = [u \in Tables |-> table[u]]
    BY DEF TablesSound, IsShare
  <2>3. table' = [table EXCEPT ![t] = [table[t] EXCEPT !.storage = H!Edited(t)]]
    BY <2>1, <2>2
  <2>4. [table[t] EXCEPT !.storage = H!Edited(t)] =
            [storage |-> H!Edited(t), mTableLength |-> len, mNumElements |-> n]
    BY <1>1 DEF TableRec
  <2> QED
    BY <2>3, <2>4
<1>5. p = 0 => [c EXCEPT ![k] = NULL] = c
  <2>1. c = [j \in Keys |-> c[j]]
    BY DEF Content
  <2> HIDE DEF c, p
  <2> QED
    BY <1>2, <2>1
<1>6. value' = [value EXCEPT ![t] = y]
  <2>0. value = [u \in Tables |-> value[u]]
    BY DEF TablesSound
  <2>1. CASE value[t] = Lost
    <3>1. value' = value
      BY <2>1 DEF H!Record
    <3> QED
      BY <2>0, <2>1, <3>1
  <2>2. CASE value[t] # Lost /\ p # 0
    BY <2>2 DEF H!Record, H!Own!Put, H!Own!Become
  <2>3. CASE value[t] # Lost /\ p = 0
    <3>1. value' = value /\ value[t] = c
      BY <1>1, <2>3 DEF IsGood
    <3>2. y = value[t]
      BY <1>5, <2>3, <3>1
    <3> HIDE DEF y
    <3> QED
      BY <2>0, <3>1, <3>2
  <2> QED
    BY <2>1, <2>2, <2>3
<1>7. WellPlaced(bk, len) /\ Content(bk, len) = [c EXCEPT ![k] = z]
  <2>1. CASE p = 0
    BY <1>1, <1>5, <2>1
  <2>2. CASE p # 0
    <3>1. WellPlaced(new, len) /\ Content(new, len) = [c EXCEPT ![k] = x]
      <4> HIDE DEF p, old, len
      <4>1. p = Where(old[Hash(k) % len], k)
        BY <1>2
      <4>2. Puts(old, new, len, k, x)
        BY <1>1, <2>2, <4>1, WriteIsPut
      <4> QED
        BY <4>2 DEF Puts
    <3> QED
      BY <2>2, <3>1
  <2> QED
    BY <2>1, <2>2
<1>8. n = NewCount(c[k], z, table[t].mNumElements)
  <2>1. x # NULL
    BY DEF TablesAssumption
  <2> HIDE DEF c, p
  <2> QED
    BY <1>2, <2>1 DEF NewCount
<1>9. /\ value[t] # Lost => y = [value[t] EXCEPT ![k] = z]
      /\ value[t] = Lost => y = Lost
  OBVIOUS
<1>10. z \in TableValues \cup {NULL} /\ c = Content(H!Bucks(t), table[t].mTableLength)
  OBVIOUS
<1> HIDE DEF y, bk, len, n, c, z, old
<1>11. TablesSound(H!Edit(t, bk), [table EXCEPT ![t] =
            [storage |-> H!Edited(t), mTableLength |-> len, mNumElements |-> n]],
            [value EXCEPT ![t] = y])
  BY <1>7, <1>8, <1>9, <1>10, ChangeIs
<1> QED
  BY <1>3, <1>4, <1>6, <1>11

\* Table t has no storage in hr and td, the others have what they had.
Left(t, hr, td) ==
    /\ IsShare(Tables, TableStorage, TableRec, hr, td)
    /\ td[t] = NULL /\ \A u \in Tables \ {t} : td[u] = table[u]
    /\ \A c \in Storages : hr[c].refs # 0 => hr[c].bucks = heap[c].bucks

\* _release: the table has left its storage to the others.
LEMMA LeaveIs ==
    ASSUME IsShare(Tables, TableStorage, TableRec, heap, table),
           NEW t \in Tables, table[t] # NULL,
           NEW hr, hr = H!Release(heap, table[t].storage),
           NEW td, td = [table EXCEPT ![t] = NULL]
    PROVE  /\ Left(t, hr, td)
           /\ H!IsShared(t) => hr[table[t].storage].refs # 0
<1> DEFINE b == table[t].storage
<1>1. hr = Released(heap, b)
  BY DEF H!Release, H!Freed, Released, Unused
<1>2. IsShare(Tables, TableStorage, TableRec, hr, td)
  <2>1. IsShare(Tables, TableStorage, TableRec, Released(heap, table[t].storage),
                [table EXCEPT ![t] = NULL])
    BY Leaving
  <2> QED
    BY <1>1, <2>1
<1>3. /\ b \in Storages /\ heap[b] \in TableStorage
      /\ heap[b].refs \in Nat /\ heap[b].refs >= 1
  BY HolderHas
<1>4. /\ table \in [Tables -> TableRec \cup {NULL}]
      /\ heap \in [Storages -> TableStorage \cup {Unused}]
  BY DEF IsShare
<1>5. td[t] = NULL /\ \A u \in Tables \ {t} : td[u] = table[u]
  BY <1>4
<1>6. hr = [heap EXCEPT ![b] = IF heap[b].refs = 1 THEN Unused
                                ELSE [heap[b] EXCEPT !.refs = heap[b].refs - 1]]
  BY <1>1 DEF Released
<1>7. \A c \in Storages : c # b => hr[c] = heap[c]
  BY <1>4, <1>6
<1>8. hr[b] = IF heap[b].refs = 1 THEN Unused
              ELSE [heap[b] EXCEPT !.refs = heap[b].refs - 1]
  BY <1>3, <1>4, <1>6
<1> HIDE DEF b
<1>9. hr[b].refs # 0 => hr[b].bucks = heap[b].bucks
  BY <1>3, <1>8 DEF TableStorage, Unused
<1>10. heap[b].refs > 1 => hr[b].refs # 0
  BY <1>3, <1>8 DEF TableStorage
<1>11. \A c \in Storages : hr[c].refs # 0 => hr[c].bucks = heap[c].bucks
  BY <1>7, <1>9
<1> QED
  BY <1>2, <1>5, <1>10, <1>11 DEF Left, b, H!IsShared

\* Those others have what they had.
LEMMA OthersHave ==
    ASSUME NEW t \in Tables, NEW hr, NEW td, Left(t, hr, td)
    PROVE  OthersStay(t, hr, td)
<1>1. ASSUME NEW u \in Tables \ {t}, table[u] # NULL
      PROVE  hr[table[u].storage].bucks = heap[table[u].storage].bucks
  <2>1. td[u] = table[u] /\ IsShare(Tables, TableStorage, TableRec, hr, td)
    BY DEF Left
  <2>2. /\ table[u].storage \in Storages
        /\ hr[table[u].storage].refs \in Nat /\ hr[table[u].storage].refs >= 1
    BY <1>1, <2>1, HolderHas
  <2> QED
    BY <2>2 DEF Left
<1> QED
  BY <1>1 DEF Left, OthersStay

\* Retained storage: the table has what its source has.
LEMMA JoinIs ==
    ASSUME NEW t \in Tables, NEW hp, NEW tb, Left(t, hp, tb),
           NEW r \in TableRec, hp[r.storage].refs # 0,
           NEW hq, hq = [hp EXCEPT ![r.storage].refs = @ + 1],
           NEW tc, tc = [tb EXCEPT ![t] = r]
    PROVE  HasNow(t, r, heap[r.storage].bucks, hq, tc)
<1> DEFINE b == r.storage
<1>1. IsShare(Tables, TableStorage, TableRec, hp, tb) /\ tb[t] = NULL /\ b \in Storages
  BY DEF Left, TableRec
<1>2. IsShare(Tables, TableStorage, TableRec, hq, tc)
  BY <1>1, Joining
<1>3. /\ tb \in [Tables -> TableRec \cup {NULL}]
      /\ hp \in [Storages -> TableStorage \cup {Unused}]
  BY <1>1 DEF IsShare
<1>4. tc[t] = r /\ \A u \in Tables \ {t} : tc[u] = tb[u]
  BY <1>3
<1>5. hp[b] \in TableStorage
  BY <1>1, StorageIs
<1>6. hq[b] = [hp[b] EXCEPT !.refs = hp[b].refs + 1] /\ \A c \in Storages : c # b => hq[c] = hp[c]
  BY <1>1, <1>3
<1> HIDE DEF b
<1>7. hq[b].bucks = hp[b].bucks
  BY <1>5, <1>6 DEF TableStorage
<1>8. OthersStay(t, hp, tb)
  BY OthersHave
<1>9. ASSUME NEW u \in Tables \ {t}, table[u] # NULL
      PROVE  hq[table[u].storage].bucks = heap[table[u].storage].bucks
  <2>1. tb[u] = table[u]
    BY DEF Left
  <2>2. table[u].storage \in Storages
    BY <1>1, <1>9, <2>1, HolderHas
  <2>3. hp[table[u].storage].bucks = heap[table[u].storage].bucks
    BY <1>8, <1>9 DEF OthersStay
  <2> QED
    BY <1>6, <1>7, <2>2, <2>3
<1>10. OthersStay(t, hq, tc)
  BY <1>4, <1>8, <1>9 DEF OthersStay
<1>11. hq[b].bucks = heap[b].bucks
  BY <1>1, <1>7 DEF Left, b
<1> QED
  BY <1>2, <1>4, <1>10, <1>11 DEF HasNow, b

\* A table that gets what u has.
LEMMA TableGets ==
    ASSUME TablesSound(heap, table, value), NEW t \in Tables, NEW u \in Tables, table[u] # NULL,
           NEW hq, NEW tc, HasNow(t, table[u], heap[table[u].storage].bucks, hq, tc),
           NEW vl, vl = [value EXCEPT ![t] = value[u]]
    PROVE  TablesSound(hq, tc, vl)
<1>1. IsGood(heap[table[u].storage].bucks, table[u], value[u])
  BY DEF TablesSound, TableIs
<1>2. value = [v \in Tables |-> value[v]]
  BY DEF TablesSound
<1>3. vl[t] = value[u]
  BY <1>2
<1>4. TableIs(t, hq, tc, vl)
  BY <1>1, <1>3 DEF TableIs, HasNow
<1> QED
  BY <1>4, TableStep DEF HasNow

\* The copy constructor keeps the tables sound.
LEMMA TableCopyConstruct ==
    ASSUME TablesAssumption, TablesSound(heap, table, value),
           NEW t \in Tables, NEW u \in Tables, H!CopyConstruct(t, u), H!Own!Copy(t, u)
    PROVE  TablesSound(heap', table', value')
<1>1. table[t] = NULL /\ table[u] # NULL
  BY DEF H!CopyConstruct, H!Exists
<1>2. IsShare(Tables, TableStorage, TableRec, heap, table)
  BY DEF TablesSound
<1>3. Left(t, heap, table)
  BY <1>1, <1>2 DEF Left
<1>4. table[u] \in TableRec /\ heap[table[u].storage].refs # 0
  BY <1>1, TableHas
<1>5. HasNow(t, table[u], heap[table[u].storage].bucks, heap', table')
  BY <1>3, <1>4, JoinIs DEF H!CopyConstruct
<1>6. value' = [value EXCEPT ![t] = value[u]]
  BY DEF H!Own!Copy, H!Own!Become
<1> QED
  BY <1>1, <1>5, <1>6, TableGets

\* Assignment keeps the tables sound, of a shared table to itself too.
LEMMA TableAssign ==
    ASSUME TablesAssumption, TablesSound(heap, table, value),
           NEW t \in Tables, NEW u \in Tables, H!Assign(t, u), H!Own!Copy(t, u)
    PROVE  TablesSound(heap', table', value')
<1> DEFINE hr == H!Release(heap, table[t].storage)
           td == [table EXCEPT ![t] = NULL]
<1>1. table[t] # NULL /\ table[u] # NULL /\ (t = u => H!IsShared(t))
  BY DEF H!Assign, H!Exists
<1>2. IsShare(Tables, TableStorage, TableRec, heap, table)
  BY DEF TablesSound
<1>3. Left(t, hr, td) /\ (H!IsShared(t) => hr[table[t].storage].refs # 0)
  BY <1>1, <1>2, LeaveIs
<1>4. heap' = [hr EXCEPT ![table[u].storage].refs = @ + 1]
  BY DEF H!Assign
<1>5. table' = [td EXCEPT ![t] = table[u]]
  <2>1. table' = [table EXCEPT ![t] = table[u]] /\ table = [v \in Tables |-> table[v]]
    BY <1>2 DEF H!Assign, IsShare
  <2> QED
    BY <2>1
<1> HIDE DEF hr, td
<1>6. table[u] \in TableRec /\ hr[table[u].storage].refs # 0
  <2>1. table[u] \in TableRec
    BY <1>1, TableHas
  <2>2. CASE t = u
    BY <1>1, <1>3, <2>1, <2>2
  <2>3. CASE t # u
    <3>1. td[u] = table[u] /\ IsShare(Tables, TableStorage, TableRec, hr, td)
      BY <1>3, <2>3 DEF Left
    <3>2. hr[table[u].storage].refs \in Nat /\ hr[table[u].storage].refs >= 1
      BY <1>1, <3>1, HolderHas
    <3> QED
      BY <2>1, <3>2
  <2> QED
    BY <2>2, <2>3
<1>7. HasNow(t, table[u], heap[table[u].storage].bucks, heap', table')
  BY <1>3, <1>4, <1>5, <1>6, JoinIs
<1>8. value' = [value EXCEPT ![t] = value[u]]
  BY DEF H!Own!Copy, H!Own!Become
<1> QED
  BY <1>1, <1>7, <1>8, TableGets

\* The destructor keeps the tables sound.
LEMMA TableDestroy ==
    ASSUME TablesAssumption, TablesSound(heap, table, value),
           NEW t \in Tables, H!Destroy(t), H!Own!Drop(t)
    PROVE  TablesSound(heap', table', value')
<1>1. table[t] # NULL
  BY DEF H!Destroy, H!Exists
<1>2. IsShare(Tables, TableStorage, TableRec, heap, table)
  BY DEF TablesSound
<1>3. Left(t, heap', table')
  BY <1>1, <1>2, LeaveIs DEF H!Destroy
<1>4. OthersStay(t, heap', table')
  BY <1>3, OthersHave
<1>5. value' = [value EXCEPT ![t] = NULL]
  BY DEF H!Own!Drop, H!Own!Become
<1>6. TableIs(t, heap', table', value')
  <2>1. value = [v \in Tables |-> value[v]]
    BY DEF TablesSound
  <2> QED
    BY <1>3, <1>5, <2>1 DEF TableIs, Left
<1> QED
  BY <1>3, <1>4, <1>5, <1>6, TableStep DEF Left

\* The constructor keeps the tables sound.
LEMMA TableConstruct ==
    ASSUME TablesAssumption, TablesSound(heap, table, value),
           NEW t \in Tables, NEW n \in Lengths, H!Construct(t, n), H!Own!Make(t)
    PROVE  TablesSound(heap', table', value')
<1> DEFINE len == H!PowerOf2(n)
           bk == H!NoElements(len)
           r == [storage |-> H!Free, mTableLength |-> len, mNumElements |-> 0]
           x == [refs |-> 1, bucks |-> bk]
<1>1. IsShare(Tables, TableStorage, TableRec, heap, table)
  BY DEF TablesSound
<1>2. table[t] = NULL /\ heap' = [heap EXCEPT ![H!Free] = x] /\ table' = [table EXCEPT ![t] = r]
  BY DEF H!Construct, H!Exists
<1>3. H!Free \in Storages /\ heap[H!Free].refs = 0
  BY <1>1, <1>2, FreeForTable
<1>4. len \in Nat \ {0}
  BY PowerIs DEF TablesAssumption
<1> HIDE DEF len
<1>5. WellPlaced(bk, len) /\ Content(bk, len) = H!Own!Empty /\ KeysOf(Content(bk, len)) = {}
  BY <1>4, NoneIsPlaced
<1> HIDE DEF bk
<1>6. r \in TableRec /\ r.storage = H!Free /\ r.mTableLength = len /\ r.mNumElements = 0
  BY <1>3, <1>4 DEF TableRec
<1>7. x \in TableStorage /\ x.refs = 1 /\ x.bucks = bk
  BY <1>5, PlacedIsList DEF TableStorage
<1> HIDE DEF r, x
<1>8. IsShare(Tables, TableStorage, TableRec, heap', table')
  BY <1>1, <1>2, <1>3, <1>6, <1>7, Making
<1>9. /\ heap \in [Storages -> TableStorage \cup {Unused}]
      /\ table \in [Tables -> TableRec \cup {NULL}] /\ NULL \notin TableRec
  BY <1>1 DEF IsShare
<1>10. /\ heap'[H!Free] = x /\ \A c \in Storages : c # H!Free => heap'[c] = heap[c]
       /\ table'[t] = r /\ r # NULL /\ \A u \in Tables \ {t} : table'[u] = table[u]
  BY <1>2, <1>3, <1>6, <1>9
<1>11. OthersStay(t, heap', table')
  <2>1. ASSUME NEW u \in Tables \ {t}, table[u] # NULL
        PROVE  heap'[table[u].storage].bucks = heap[table[u].storage].bucks
    <3>1. table[u].storage \in Storages /\ heap[table[u].storage].refs # 0
      BY <2>1, TableHas
    <3> QED
      BY <1>3, <1>10, <3>1
  <2> QED
    BY <1>10, <2>1 DEF OthersStay
<1>12. value' = [value EXCEPT ![t] = H!Own!Empty]
  BY DEF H!Own!Make, H!Own!Become
<1>13. value'[t] = H!Own!Empty
  <2>1. value = [v \in Tables |-> value[v]]
    BY DEF TablesSound
  <2> QED
    BY <1>12, <2>1
<1>14. IsGood(bk, r, H!Own!Empty)
  <2>1. Cardinality({}) = 0
    BY FS_EmptySet
  <2>2. KeysOf(H!Own!Empty) = {}
    BY <1>5
  <2> QED
    BY <1>5, <1>6, <2>1, <2>2 DEF IsGood
<1>15. TableIs(t, heap', table', value')
  BY <1>6, <1>7, <1>10, <1>13, <1>14 DEF TableIs
<1> QED
  BY <1>8, <1>11, <1>12, <1>15, TableStep

\* An empty table has no elements.
LEMMA NoKeysIsEmpty ==
    ASSUME NEW bk, NEW len, KeysOf(Content(bk, len)) = {}
    PROVE  Content(bk, len) = H!Own!Empty
<1>1. \A k \in Keys : Content(bk, len)[k] = NULL
  BY DEF KeysOf
<1>2. Content(bk, len) = [k \in Keys |-> Content(bk, len)[k]]
  BY DEF Content
<1> QED
  BY <1>1, <1>2 DEF H!Own!Empty

\* The keys of a table can be counted.
LEMMA KeysAreFinite ==
    ASSUME TablesAssumption, NEW c
    PROVE  /\ IsFiniteSet(KeysOf(c)) /\ Cardinality(KeysOf(c)) \in Nat
           /\ Cardinality(KeysOf(c)) = 0 => KeysOf(c) = {}
<1>1. KeysOf(c) \in SUBSET Keys
  BY DEF KeysOf
<1> QED
  BY <1>1, FS_Subset, FS_CardinalityType, FS_EmptySet DEF TablesAssumption

\* clear of an empty table keeps the tables sound.
LEMMA ClearNothing ==
    ASSUME TablesAssumption, TablesSound(heap, table, value),
           NEW t \in Tables, table[t] # NULL, table[t].mNumElements = 0,
           H!Clear(t), H!Wipe(t)
    PROVE  TablesSound(heap', table', value')
<1>1. heap' = heap /\ table' = table
  BY DEF H!Clear
<1>2. value' = [value EXCEPT ![t] = H!Own!Empty]
  <2>1. value' = [u \in Tables |-> IF u = t THEN H!Own!Empty ELSE value[u]]
    BY DEF H!Wipe
  <2>2. value = [u \in Tables |-> value[u]]
    BY DEF TablesSound
  <2> QED
    BY <2>1, <2>2
<1>3. IsGood(H!Bucks(t), table[t], value[t]) /\ H!Bucks(t) = heap[table[t].storage].bucks
  BY TableHas
<1> DEFINE bk == heap[table[t].storage].bucks
           len == table[t].mTableLength
<1>4. Cardinality(KeysOf(Content(bk, len))) = 0
  <2> DEFINE c == Content(bk, len)
  <2>1. Cardinality(KeysOf(c)) <= 0
    BY <1>3 DEF IsGood
  <2> HIDE DEF c
  <2>2. Cardinality(KeysOf(c)) \in Nat
    BY KeysAreFinite
  <2>3. Cardinality(KeysOf(c)) = 0
    BY <2>1, <2>2
  <2> QED
    BY <2>3 DEF c
<1>5. Content(bk, len) = H!Own!Empty
  <2> HIDE DEF bk, len
  <2> QED
    BY <1>4, KeysAreFinite, NoKeysIsEmpty
<1>6. IsGood(bk, table[t], H!Own!Empty)
  BY <1>3, <1>4, <1>5 DEF IsGood
<1>7. value'[t] = H!Own!Empty
  <2>1. value = [u \in Tables |-> value[u]]
    BY DEF TablesSound
  <2> QED
    BY <1>2, <2>1
<1>8. TableIs(t, heap', table', value')
  BY <1>1, <1>6, <1>7 DEF TableIs
<1>9. OthersStay(t, heap', table') /\ IsShare(Tables, TableStorage, TableRec, heap', table')
  BY <1>1 DEF OthersStay, TablesSound
<1> QED
  BY <1>2, <1>8, <1>9, TableStep

\* Tables that share buckets have one length.
LEMMA SameLength ==
    ASSUME NEW bk, NEW m, NEW n, WellPlaced(bk, m), WellPlaced(bk, n)
    PROVE  m = n
<1>1. m \in Nat \ {0} /\ n \in Nat \ {0} /\ DOMAIN bk = 0 .. m - 1 /\ DOMAIN bk = 0 .. n - 1
  BY DEF WellPlaced
<1>2. m - 1 \in 0 .. n - 1 /\ n - 1 \in 0 .. m - 1
  <2>1. m - 1 \in 0 .. m - 1 /\ n - 1 \in 0 .. n - 1
    BY <1>1
  <2> QED
    BY <1>1, <2>1
<1> QED
  BY <1>1, <1>2

\* clear empties the storage for all who share it: they have lost what they had.
LEMMA ClearSome ==
    ASSUME TablesAssumption, TablesSound(heap, table, value),
           NEW t \in Tables, table[t] # NULL, table[t].mNumElements # 0,
           H!Clear(t), H!Wipe(t)
    PROVE  TablesSound(heap', table', value')
<1> DEFINE b == table[t].storage
           len == table[t].mTableLength
           bk == H!NoElements(len)
           r == [table[t] EXCEPT !.mNumElements = 0]
<1>1. IsShare(Tables, TableStorage, TableRec, heap, table)
  BY DEF TablesSound
<1>2. /\ heap' = [heap EXCEPT ![b].bucks = bk]
      /\ table' = [table EXCEPT ![t].mNumElements = 0]
  BY DEF H!Clear
<1>3. /\ table \in [Tables -> TableRec \cup {NULL}] /\ NULL \notin TableRec
      /\ heap \in [Storages -> TableStorage \cup {Unused}]
  BY <1>1 DEF IsShare
<1>4. /\ table[t] \in TableRec /\ b \in Storages /\ len \in Nat \ {0}
      /\ table[t].mNumElements \in Nat
      /\ heap[b] \in TableStorage
  BY TableHas
<1>5. table' = [table EXCEPT ![t] = r]
  BY <1>2, <1>3
<1>6. r \in TableRec /\ r.storage = b /\ r.mTableLength = len /\ r.mNumElements = 0
  <2>1. ASSUME NEW q \in TableRec
        PROVE  LET s == [q EXCEPT !.mNumElements = 0] IN
               /\ s \in TableRec /\ s.storage = q.storage
               /\ s.mTableLength = q.mTableLength /\ s.mNumElements = 0
    BY DEF TableRec
  <2> QED
    BY <1>4, <2>1
<1>7. WellPlaced(bk, len) /\ Content(bk, len) = H!Own!Empty /\ KeysOf(Content(bk, len)) = {}
  <2> HIDE DEF len
  <2> QED
    BY <1>4, NoneIsPlaced
<1>8. bk \in BucketLists
  BY <1>7, PlacedIsList
<1> HIDE DEF bk, r
<1>9. /\ table'[t] = r /\ r # NULL /\ \A u \in Tables \ {t} : table'[u] = table[u]
      /\ table' \in [Tables -> TableRec \cup {NULL}]
  BY <1>3, <1>5, <1>6
<1>10. heap'[b] = [heap[b] EXCEPT !.bucks = bk] /\ \A c \in Storages : c # b => heap'[c] = heap[c]
  BY <1>2, <1>3, <1>4
<1>11. heap'[b] \in TableStorage /\ heap'[b].refs = heap[b].refs /\ heap'[b].bucks = bk
  <2> HIDE DEF b
  <2> QED
    BY <1>4, <1>8, <1>10 DEF TableStorage
<1>12. heap' \in [Storages -> TableStorage \cup {Unused}]
  <2>1. heap' = [c \in Storages |-> heap'[c]]
    BY <1>2, <1>3
  <2>2. \A c \in Storages : heap'[c] \in TableStorage \cup {Unused}
    <3> HIDE DEF b
    <3> QED
      BY <1>3, <1>10, <1>11
  <2> QED
    BY <2>1, <2>2
<1>13. IsShare(Tables, TableStorage, TableRec, heap', table')
  <2>1. \A c \in Storages : heap'[c].refs = heap[c].refs
    <3> HIDE DEF b
    <3> QED
      BY <1>10, <1>11
  <2>2. \A c \in Storages : SharersIn(Tables, table', c) = SharersIn(Tables, table, c)
    BY <1>6, <1>9 DEF SharersIn
  <2>3. SameShares(Tables, TableStorage, TableRec, heap, table, heap', table')
    BY <1>9, <1>12, <2>1, <2>2 DEF SameShares
  <2> QED
    BY <1>1, <2>3, Staying
<1>14. value' = [u \in Tables |->
            IF u = t THEN H!Own!Empty
            ELSE IF u \in Tables /\ table[u] # NULL /\ table[u].storage = b THEN Lost
            ELSE value[u]]
  BY <1>4 DEF H!Wipe, H!Sharers, H!Exists
<1>15. ASSUME NEW u \in Tables
       PROVE  TableIs(u, heap', table', value')
  <2>1. CASE u = t
    <3>1. IsGood(bk, r, H!Own!Empty)
      <4>1. Cardinality({}) = 0
        BY FS_EmptySet
      <4>2. KeysOf(H!Own!Empty) = {}
        BY <1>7
      <4> QED
        BY <1>6, <1>7, <4>1, <4>2 DEF IsGood
    <3>2. value'[u] = H!Own!Empty
      BY <1>14, <2>1
    <3> QED
      BY <1>6, <1>9, <1>11, <2>1, <3>1, <3>2 DEF TableIs
  <2>2. CASE u # t /\ table[u] # NULL /\ table[u].storage = b
    <3>1. table'[u] = table[u] /\ value'[u] = Lost
      BY <1>9, <1>14, <2>2
    <3>2. WellPlaced(heap[b].bucks, table[u].mTableLength) /\ table[u].mNumElements \in Nat
      BY <2>2, TableHas
    <3>3. WellPlaced(heap[b].bucks, len)
      BY TableHas
    <3>4. table[u].mTableLength = len
      <4> HIDE DEF len
      <4> QED
        BY <3>2, <3>3, SameLength
    <3>5. Cardinality(KeysOf(Content(bk, len))) = 0
      BY <1>7, FS_EmptySet
    <3>6. IsGood(bk, table[u], Lost)
      BY <1>7, <3>2, <3>4, <3>5 DEF IsGood
    <3> QED
      BY <1>11, <2>2, <3>1, <3>6 DEF TableIs
  <2>3. CASE u # t /\ table[u] = NULL
    <3>1. table'[u] = NULL /\ value'[u] = value[u]
      BY <1>9, <1>14, <2>3
    <3> QED
      BY <2>3, <3>1 DEF TablesSound, TableIs
  <2>4. CASE u # t /\ table[u] # NULL /\ table[u].storage # b
    <3>1. table'[u] = table[u] /\ value'[u] = value[u]
      BY <1>9, <1>14, <2>4
    <3>2. table[u].storage \in Storages
      BY <2>4, TableHas
    <3>3. heap'[table[u].storage] = heap[table[u].storage]
      BY <1>10, <2>4, <3>2
    <3> QED
      BY <3>1, <3>3 DEF TablesSound, TableIs
  <2> QED
    BY <2>1, <2>2, <2>3, <2>4
<1>16. value' = [u \in Tables |-> value'[u]]
  BY <1>14
<1> QED
  BY <1>13, <1>15, <1>16 DEF TablesSound

-----------------------------------------------------------------------------

\* No table, no storage.
LEMMA TablesStart == ASSUME TablesAssumption, H!Init
                     PROVE  TablesSound(heap, table, value)
<1>1. /\ table = [t \in Tables |-> NULL] /\ heap = [b \in Storages |-> Unused]
      /\ value = [t \in Tables |-> NULL]
  BY DEF H!Init, H!Own!Init, H!Freed, Unused
<1>2. \A b \in Storages : heap[b].refs = 0 /\ SharersIn(Tables, table, b) = {}
  BY <1>1 DEF Unused, SharersIn
<1>3. Counted(Tables, heap, table)
  BY <1>2, FS_EmptySet DEF Counted
<1>4. IsHeapSet(TableStorage)
  BY DEF IsHeapSet, TableStorage
<1>5. IsShare(Tables, TableStorage, TableRec, heap, table)
  <2>1. NULL \notin TableRec /\ (\A r \in TableRec : r.storage \in Storages) /\ IsFiniteSet(Tables)
    BY DEF TablesAssumption, TableRec
  <2> QED
    BY <1>1, <1>3, <1>4, <2>1 DEF IsShare
<1> QED
  BY <1>1, <1>5 DEF TablesSound, TableIs

\* Every call keeps the tables sound.
LEMMA TablesKeep ==
    ASSUME TablesAssumption, TablesSound(heap, table, value), [H!Next]_(H!vars)
    PROVE  TablesSound(heap', table', value')
<1>1. CASE UNCHANGED H!vars
  BY <1>1 DEF H!vars
<1>2. CASE H!Next
  <2>1. PICK t \in Tables :
            \/ \E n \in Lengths : H!Construct(t, n) /\ H!Own!Make(t)
            \/ \E u \in Tables : (H!CopyConstruct(t, u) \/ H!Assign(t, u)) /\ H!Own!Copy(t, u)
            \/ H!Destroy(t) /\ H!Own!Drop(t)
            \/ H!Clear(t) /\ H!Wipe(t)
            \/ /\ H!Exists(t)
               /\ \E k \in Keys :
                    \/ H!Erase(t, k) /\ H!Record(t, H!Own!Take(t, k))
                    \/ \E x \in TableValues :
                        \/ H!Insert(t, k, x) /\ H!Record(t, H!Own!Put(t, k, x))
                        \/ /\ H!Write(t, k, x)
                           /\ IF H!Position(t, k) = 0 THEN UNCHANGED value
                              ELSE H!Record(t, H!Own!Put(t, k, x))
    BY <1>2 DEF H!Next
  <2>2. ASSUME NEW n \in Lengths, H!Construct(t, n), H!Own!Make(t)
        PROVE  TablesSound(heap', table', value')
    BY <2>2, TableConstruct
  <2>3. ASSUME NEW u \in Tables, H!CopyConstruct(t, u) \/ H!Assign(t, u), H!Own!Copy(t, u)
        PROVE  TablesSound(heap', table', value')
    BY <2>3, TableCopyConstruct, TableAssign
  <2>4. ASSUME H!Destroy(t), H!Own!Drop(t)
        PROVE  TablesSound(heap', table', value')
    BY <2>4, TableDestroy
  <2>5. ASSUME H!Clear(t), H!Wipe(t)
        PROVE  TablesSound(heap', table', value')
    <3>1. table[t] # NULL
      BY <2>5 DEF H!Clear, H!Exists
    <3> QED
      BY <2>5, <3>1, ClearNothing, ClearSome
  <2>6. ASSUME table[t] # NULL, NEW k \in Keys, H!Erase(t, k), H!Record(t, H!Own!Take(t, k))
        PROVE  TablesSound(heap', table', value')
    BY <2>6, TableErase
  <2>7. ASSUME table[t] # NULL, NEW k \in Keys, NEW x \in TableValues,
               H!Insert(t, k, x), H!Record(t, H!Own!Put(t, k, x))
        PROVE  TablesSound(heap', table', value')
    BY <2>7, TableInsert
  <2>8. ASSUME table[t] # NULL, NEW k \in Keys, NEW x \in TableValues, H!Write(t, k, x),
               IF H!Position(t, k) = 0 THEN UNCHANGED value
               ELSE H!Record(t, H!Own!Put(t, k, x))
        PROVE  TablesSound(heap', table', value')
    BY <2>8, TableWrite
  <2> QED
    BY <2>1, <2>2, <2>3, <2>4, <2>5, <2>6, <2>7, <2>8 DEF H!Exists
<1> QED
  BY <1>1, <1>2

-----------------------------------------------------------------------------

\* What find returns is what the buckets hold.
LEMMA FoundIs ==
    ASSUME TablesSound(heap, table, value), NEW t \in Tables, table[t] # NULL
    PROVE  [k \in Keys |-> H!Found(t, k)] = Content(H!Bucks(t), table[t].mTableLength)
BY DEF H!Found, H!Position, H!Bucket, Content, Lookup, Where

\* Sound tables hold what they should.
LEMMA SoundHolds ==
    ASSUME TablesSound(heap, table, value)
    PROVE  H!HoldsWhatItShould
<1> SUFFICES ASSUME NEW t \in Tables, value[t] # Lost
             PROVE  value[t] = IF table[t] # NULL THEN [k \in Keys |-> H!Found(t, k)] ELSE NULL
  BY DEF H!HoldsWhatItShould, H!Exists
<1>1. CASE table[t] = NULL
  BY <1>1 DEF TablesSound, TableIs
<1>2. CASE table[t] # NULL
  <2>1. IsGood(H!Bucks(t), table[t], value[t])
    BY <1>2, TableHas
  <2> QED
    BY <1>2, <2>1, FoundIs DEF IsGood
<1> QED
  BY <1>1, <1>2

\* HashTable counts as this module does.
LEMMA SameCardinality == \A S : H!Cardinality(S) = Cardinality(S)
BY DEF H!Cardinality, Cardinality

\* An iterator over a sound table visits every element once.
LEMMA VisitsAreAll ==
    ASSUME TablesAssumption, TablesSound(heap, table, value), NEW t \in Tables, table[t] # NULL
    PROVE  H!VisitsAll(t)
<1> DEFINE keys == {k \in Keys : H!Found(t, k) # NULL}
           card == Cardinality(keys)
           walk == H!Visits(t)
           bk == H!Bucks(t)
           len == table[t].mTableLength
           N == Cardinality(Keys) + 1
           at[n \in 0 .. Cardinality(Keys) + 1] ==
                IF n = 0 THEN <<0, 0>> ELSE H!NextElement(t, at[n - 1][1], at[n - 1][2])
<1>1. WellPlaced(bk, len) /\ IsGood(bk, table[t], value[t])
  BY TableHas
<1>2. keys = KeysOf(Content(bk, len))
  <2>1. \A k \in Keys : H!Found(t, k) = Content(bk, len)[k]
    BY FoundIs
  <2> QED
    BY <2>1 DEF KeysOf
<1>3. walk = at
  BY SameCardinality DEF H!Visits, at
<1>4. \A i, p : H!NextElement(t, i, p) = Following(bk, len, i, p)
  BY DEF H!NextElement, Following
<1>5. IsWalk(walk, bk, len, N)
  <2>1. N \in Nat
    BY FS_CardinalityType DEF TablesAssumption
  <2>2. PICK f : IsWalk(f, bk, len, N)
    <3> HIDE DEF bk, len, N
    <3> QED
      BY <1>1, <2>1, WalkExists
  <2> DEFINE Steps(g) == [n \in 0 .. Cardinality(Keys) + 1 |->
                IF n = 0 THEN <<0, 0>> ELSE H!NextElement(t, g[n - 1][1], g[n - 1][2])]
             Walk(g) == [n \in 0 .. N |->
                IF n = 0 THEN <<0, 0>> ELSE Following(bk, len, g[n - 1][1], g[n - 1][2])]
  <2>3. ASSUME NEW g PROVE Steps(g) = Walk(g)
    <3> HIDE DEF bk, len
    <3>1. \A n \in 0 .. N :
            (IF n = 0 THEN <<0, 0>> ELSE H!NextElement(t, g[n - 1][1], g[n - 1][2])) =
            (IF n = 0 THEN <<0, 0>> ELSE Following(bk, len, g[n - 1][1], g[n - 1][2]))
      BY <1>4
    <3> QED
      BY <3>1
  <2>4. f = Walk(f)
    <3> HIDE DEF bk, len
    <3> QED
      BY <2>2 DEF IsWalk
  <2>5. f = Steps(f)
    <3> HIDE DEF Steps, Walk
    <3> QED
      BY <2>3, <2>4
  <2>6. at = CHOOSE g : g = Steps(g)
    BY DEF at
  <2> HIDE DEF Steps, Walk, at
  <2>7. at = Steps(at)
    BY <2>5, <2>6
  <2>8. at = Walk(at)
    BY <2>3, <2>7
  <2>9. IsWalk(at, bk, len, N)
    BY <2>8 DEF IsWalk, Walk
  <2> QED
    BY <1>3, <2>9
<1> HIDE DEF at
<1>6. /\ \A i \in 1 .. card : walk[i][2] > 0
      /\ keys = {bk[walk[i][1]][walk[i][2]].key : i \in 1 .. card}
      /\ walk[card + 1] = <<len, 0>>
  <2> HIDE DEF walk, bk, len, keys
  <2> QED
    BY <1>1, <1>2, <1>5, WalkIsComplete
<1>7. value[t] # Lost => table[t].mNumElements = card
  BY <1>1, <1>2 DEF IsGood
<1> HIDE DEF walk, bk, len
<1>8. H!Cardinality(keys) = card
  BY SameCardinality
<1> QED
  BY <1>6, <1>7, <1>8, Zenon DEF H!VisitsAll, walk, bk, len

\* Iteration over sound tables is complete.
LEMMA SoundVisits ==
    ASSUME TablesAssumption, TablesSound(heap, table, value)
    PROVE  H!IterationIsComplete
<1> SUFFICES ASSUME NEW t \in Tables, table[t] # NULL
             PROVE  /\ H!VisitsAll(t)
                    /\ heap[table[t].storage].refs = Cardinality(H!Sharers(table[t].storage))
  BY SameCardinality DEF H!IterationIsComplete, H!Exists
<1>1. table[t].storage \in Storages
  BY TableHas
<1>2. H!Sharers(table[t].storage) = SharersIn(Tables, table, table[t].storage)
  BY DEF H!Sharers, H!Exists, SharersIn
<1> QED
  BY <1>1, <1>2, VisitsAreAll DEF TablesSound, IsShare, Counted

TablesInv == scenario = "tables" => TablesSound(heap, table, value)

\* Storage counts its tables, and the chains hold what each table should, after
\* any calls of HashTable.
THEOREM TablesInvariance == MCSpec => []TablesInv
<1>1. MCInit => TablesInv
  BY TablesAssumed, TablesStart DEF MCInit, TablesInv
<1>2. TablesInv /\ [MCNext]_MCVars => TablesInv'
  <2> SUFFICES ASSUME TablesInv,
                      [MCNext]_MCVars,
                      scenario' = "tables"
               PROVE  TablesSound(heap', table', value')
    BY DEF TablesInv
  <2>1. CASE MCNext
    <3>1. scenario = "tables" /\ TablesSound(heap, table, value) /\ H!Next
      BY <2>1 DEF MCNext, TablesInv
    <3> QED
      BY <3>1, TablesAssumed, TablesKeep
  <2>2. CASE UNCHANGED MCVars
    BY <2>2 DEF MCVars, TablesInv
  <2> QED
    BY <2>1, <2>2
<1> QED
  BY <1>1, <1>2, PTL DEF MCSpec

\* A table finds what was put into it, whatever was done to its copies, and its
\* iterators visit all of it, except after a clear of a table it shares with.
THEOREM TablesKeepEntries == MCSpec => []TablesKeepTheirEntries
<1>1. TablesInv => TablesKeepTheirEntries
  BY TablesAssumed, SoundHolds, SoundVisits DEF TablesInv, TablesKeepTheirEntries
<1> QED
  BY <1>1, TablesInvariance, PTL

-----------------------------------------------------------------------------
(* Vector's sort: positions of a sequence s, in runs that are in order.     *)
HasKeys(s) == s \in Seq(Elements) /\ \A x \in Elements : Key(x) \in Nat

Precedes(s, i, j) == Key(s[i]) < Key(s[j]) \/ (Key(s[i]) = Key(s[j]) /\ i < j)

Members(b) == {b[p] : p \in 1 .. Len(b)}

IsSorted(s, b) ==
    /\ b \in Seq(1 .. Len(s))
    /\ \A p, q \in 1 .. Len(b) : p < q => Precedes(s, b[p], b[q])

AllBefore(s, P, Q) == \A i \in P, j \in Q : Precedes(s, i, j)

\* The order is strict and total.
LEMMA PrecedesIsOrder ==
    ASSUME NEW s, HasKeys(s)
    PROVE  /\ \A i, j, k \in 1 .. Len(s) : Precedes(s, i, j) /\ Precedes(s, j, k) => Precedes(s, i, k)
           /\ \A i, j \in 1 .. Len(s) : i = j \/ Precedes(s, i, j) \/ Precedes(s, j, i)
           /\ \A i, j \in 1 .. Len(s) : Precedes(s, i, j) => i # j /\ ~Precedes(s, j, i)
<1>1. \A i \in 1 .. Len(s) : s[i] \in Elements /\ Key(s[i]) \in Nat /\ i \in Nat
  BY DEF HasKeys
<1> QED
  BY <1>1 DEF Precedes

\* The members of a run.
LEMMA MembersOf ==
    ASSUME NEW s, NEW b, b \in Seq(1 .. Len(s))
    PROVE  /\ Members(b) \subseteq 1 .. Len(s)
           /\ \A p \in 1 .. Len(b) : b[p] \in Members(b) /\ b[p] \in 1 .. Len(s)
           /\ Len(b) \in Nat
<1>1. \A p \in 1 .. Len(b) : b[p] \in 1 .. Len(s)
  OBVIOUS
<1> QED
  BY <1>1 DEF Members

\* Runs are put one behind the other.
LEMMA RunsJoin ==
    ASSUME NEW s, NEW a, NEW b, IsSorted(s, a), IsSorted(s, b),
           AllBefore(s, Members(a), Members(b))
    PROVE  /\ IsSorted(s, a \o b)
           /\ Members(a \o b) = Members(a) \cup Members(b)
           /\ Len(a \o b) = Len(a) + Len(b)
<1> DEFINE c == a \o b
<1>1. /\ a \in Seq(1 .. Len(s)) /\ b \in Seq(1 .. Len(s))
      /\ Len(a) \in Nat /\ Len(b) \in Nat
  BY DEF IsSorted
<1>2. c \in Seq(1 .. Len(s)) /\ Len(c) = Len(a) + Len(b)
  BY <1>1
<1>3. /\ \A p \in 1 .. Len(a) : c[p] = a[p]
      /\ \A p \in 1 .. Len(b) : c[Len(a) + p] = b[p] /\ Len(a) + p \in 1 .. Len(c)
      /\ \A p \in 1 .. Len(c) : p \in 1 .. Len(a) \/
            (p - Len(a) \in 1 .. Len(b) /\ c[p] = b[p - Len(a)])
  BY <1>1
<1> HIDE DEF c
<1>4. ASSUME NEW p \in 1 .. Len(c), NEW q \in 1 .. Len(c), p < q
      PROVE  Precedes(s, c[p], c[q])
  <2>1. CASE q \in 1 .. Len(a)
    <3>1. p \in 1 .. Len(a)
      BY <1>1, <1>4, <2>1
    <3> QED
      BY <1>3, <1>4, <2>1, <3>1 DEF IsSorted
  <2>2. CASE q \notin 1 .. Len(a) /\ p \in 1 .. Len(a)
    <3>1. c[p] \in Members(a) /\ c[q] \in Members(b)
      BY <1>3, <2>2 DEF Members
    <3> QED
      BY <3>1 DEF AllBefore
  <2>3. CASE q \notin 1 .. Len(a) /\ p \notin 1 .. Len(a)
    <3>1. /\ p - Len(a) \in 1 .. Len(b) /\ c[p] = b[p - Len(a)]
          /\ q - Len(a) \in 1 .. Len(b) /\ c[q] = b[q - Len(a)]
      BY <1>3, <2>3
    <3>2. p - Len(a) < q - Len(a)
      BY <1>1, <1>2, <1>4
    <3> QED
      BY <3>1, <3>2 DEF IsSorted
  <2> QED
    BY <2>1, <2>2, <2>3
<1>5. Members(c) = Members(a) \cup Members(b)
  <2>1. \A p \in 1 .. Len(c) : c[p] \in Members(a) \cup Members(b)
    BY <1>3 DEF Members
  <2>2. \A p \in 1 .. Len(a) : a[p] \in Members(c)
    <3>1. \A p \in 1 .. Len(a) : p \in 1 .. Len(c)
      BY <1>1, <1>2
    <3> QED
      BY <1>3, <3>1 DEF Members
  <2>3. \A p \in 1 .. Len(b) : b[p] \in Members(c)
    BY <1>3 DEF Members
  <2> QED
    BY <2>1, <2>2, <2>3 DEF Members
<1> QED
  BY <1>2, <1>4, <1>5 DEF IsSorted, c

\* A run that ends where a run begins.
LEMMA EndsBefore ==
    ASSUME NEW s, HasKeys(s), NEW a, NEW b, IsSorted(s, a), IsSorted(s, b),
           a # <<>>, b # <<>>, Precedes(s, a[Len(a)], b[1])
    PROVE  AllBefore(s, Members(a), Members(b))
<1>1. /\ a \in Seq(1 .. Len(s)) /\ b \in Seq(1 .. Len(s))
      /\ Len(a) \in Nat \ {0} /\ Len(b) \in Nat \ {0}
  BY DEF IsSorted
<1>2. \A p \in 1 .. Len(a) : p = Len(a) \/ Precedes(s, a[p], a[Len(a)])
  BY <1>1 DEF IsSorted
<1>3. \A p \in 1 .. Len(b) : p = 1 \/ Precedes(s, b[1], b[p])
  <2> TAKE p \in 1 .. Len(b)
  <2>1. p = 1 \/ (1 \in 1 .. Len(b) /\ 1 < p)
    BY <1>1
  <2> QED
    BY <2>1 DEF IsSorted
<1>4. /\ \A p \in 1 .. Len(a) : a[p] \in 1 .. Len(s)
      /\ \A p \in 1 .. Len(b) : b[p] \in 1 .. Len(s)
      /\ Len(a) \in 1 .. Len(a) /\ 1 \in 1 .. Len(b)
  BY <1>1
<1>5. \A i, j, k \in 1 .. Len(s) : Precedes(s, i, j) /\ Precedes(s, j, k) => Precedes(s, i, k)
  BY PrecedesIsOrder
<1>6. \A p \in 1 .. Len(a) : Precedes(s, a[p], b[1])
  BY <1>2, <1>4, <1>5
<1>7. \A p \in 1 .. Len(a), q \in 1 .. Len(b) : Precedes(s, a[p], b[q])
  BY <1>3, <1>4, <1>5, <1>6
<1> QED
  BY <1>7 DEF AllBefore, Members

-----------------------------------------------------------------------------
(* Two runs are merged: what is taken and what is left.                     *)
Taken(b, j) == {b[p] : p \in 1 .. j - 1}
Remaining(b, j) == {b[p] : p \in j .. Len(b)}

IsMerging(s, a, b, at) ==
    /\ at \in [i : 1 .. Len(a) + 1, j : 1 .. Len(b) + 1, out : Seq(1 .. Len(s))]
    /\ IsSorted(s, at.out)
    /\ Members(at.out) = Taken(a, at.i) \cup Taken(b, at.j)
    /\ AllBefore(s, Members(at.out), Remaining(a, at.i))
    /\ AllBefore(s, Members(at.out), Remaining(b, at.j))

\* The elements of a were before those of b.
Earlier(a, b) == \A i \in Members(a), j \in Members(b) : i < j

\* x is the next of b, and comes before R.
IsNext(s, b, j, out, x, R) ==
    /\ IsSorted(s, b) /\ j \in 1 .. Len(b) /\ x = b[j] /\ IsSorted(s, out)
    /\ AllBefore(s, Members(out), Remaining(b, j))
    /\ AllBefore(s, Members(out), R) /\ AllBefore(s, {x}, R)

IsTaken(s, b, j, out, x, R, o) ==
    /\ IsSorted(s, o) /\ Members(o) = Members(out) \cup {x}
    /\ AllBefore(s, Members(o), Remaining(b, j + 1)) /\ AllBefore(s, Members(o), R)
    /\ Taken(b, j + 1) = Taken(b, j) \cup {x}

\* One more of a run is taken.
LEMMA TakeNext ==
    ASSUME NEW s, NEW b, NEW j, NEW out, NEW x, NEW R, IsNext(s, b, j, out, x, R)
    PROVE  IsTaken(s, b, j, out, x, R, Append(out, x))
<1> DEFINE o == Append(out, x)
<1>0. /\ IsSorted(s, b) /\ j \in 1 .. Len(b) /\ x = b[j] /\ IsSorted(s, out)
      /\ AllBefore(s, Members(out), Remaining(b, j))
      /\ AllBefore(s, Members(out), R) /\ AllBefore(s, {x}, R)
  BY DEF IsNext
<1>1. /\ b \in Seq(1 .. Len(s)) /\ out \in Seq(1 .. Len(s)) /\ Len(b) \in Nat /\ x \in 1 .. Len(s)
      /\ x \in Remaining(b, j)
  BY <1>0 DEF IsSorted, Remaining
<1>2. IsSorted(s, <<x>>) /\ Members(<<x>>) = {x} /\ Append(out, x) = out \o <<x>>
  <2>1. <<x>> \in Seq(1 .. Len(s)) /\ Len(<<x>>) = 1 /\ <<x>>[1] = x
    BY <1>1
  <2>2. \A p \in 1 .. 1 : p = 1
    OBVIOUS
  <2>3. Append(out, x) = out \o <<x>>
    BY <1>1
  <2> QED
    BY <2>1, <2>2, <2>3 DEF IsSorted, Members
<1>3. AllBefore(s, Members(out), Members(<<x>>))
  BY <1>0, <1>1, <1>2 DEF AllBefore
<1>4. IsSorted(s, o) /\ Members(o) = Members(out) \cup {x}
  <2> QED
    BY <1>0, <1>2, <1>3, RunsJoin
<1>5. AllBefore(s, Members(out) \cup {x}, Remaining(b, j + 1))
  <2>1. Remaining(b, j + 1) \subseteq Remaining(b, j)
    BY <1>0, <1>1 DEF Remaining
  <2>2. \A p \in j + 1 .. Len(b) : Precedes(s, x, b[p])
    BY <1>0, <1>1 DEF IsSorted
  <2>3. AllBefore(s, {x}, Remaining(b, j + 1))
    BY <2>2 DEF AllBefore, Remaining
  <2> QED
    BY <1>0, <2>1, <2>3 DEF AllBefore
<1>6. AllBefore(s, Members(out) \cup {x}, R)
  BY <1>0 DEF AllBefore
<1>7. Taken(b, j + 1) = Taken(b, j) \cup {x}
  <2>1. \A p : p \in 1 .. j + 1 - 1 <=> p \in 1 .. j - 1 \/ p = j
    BY <1>0, <1>1
  <2> QED
    BY <1>0, <2>1 DEF Taken
<1> QED
  BY <1>4, <1>5, <1>6, <1>7 DEF IsTaken

\* The next of a run comes before all that is left of the other if it comes
\* before the other's next.
LEMMA NextIsFirst ==
    ASSUME NEW s, HasKeys(s), NEW b, IsSorted(s, b), NEW j \in 1 .. Len(b),
           NEW x \in 1 .. Len(s), Precedes(s, x, b[j])
    PROVE  AllBefore(s, {x}, Remaining(b, j))
<1>1. b \in Seq(1 .. Len(s)) /\ Len(b) \in Nat
  BY DEF IsSorted
<1>2. \A p \in j .. Len(b) : b[p] \in 1 .. Len(s) /\ (p = j \/ Precedes(s, b[j], b[p]))
  <2> TAKE p \in j .. Len(b)
  <2>1. p \in 1 .. Len(b) /\ (p = j \/ j < p)
    BY <1>1
  <2> QED
    BY <1>1, <2>1 DEF IsSorted
<1>3. b[j] \in 1 .. Len(s)
  BY <1>1
<1>4. \A p \in j .. Len(b) : Precedes(s, x, b[p])
  BY <1>2, <1>3, PrecedesIsOrder
<1> QED
  BY <1>4 DEF AllBefore, Remaining

\* A step of merging takes the next in order.
LEMMA MergeStepIs ==
    ASSUME NEW s, HasKeys(s), NEW a, NEW b, IsSorted(s, a), IsSorted(s, b), Earlier(a, b),
           NEW at, IsMerging(s, a, b, at),
           NEW to, to = V!MergeStep(s, a, b, at)
    PROVE  /\ IsMerging(s, a, b, to)
           /\ \/ at.i > Len(a) /\ to = at
              \/ at.j > Len(b) /\ to = at
              \/ to.i + to.j = at.i + at.j + 1
<1> DEFINE i == at.i
           j == at.j
           out == at.out
<1>1. /\ a \in Seq(1 .. Len(s)) /\ b \in Seq(1 .. Len(s)) /\ Len(a) \in Nat /\ Len(b) \in Nat
      /\ i \in 1 .. Len(a) + 1 /\ j \in 1 .. Len(b) + 1 /\ out \in Seq(1 .. Len(s))
      /\ at = [i |-> i, j |-> j, out |-> out]
  BY DEF IsSorted, IsMerging
<1>2. /\ IsSorted(s, out) /\ Members(out) = Taken(a, i) \cup Taken(b, j)
      /\ AllBefore(s, Members(out), Remaining(a, i)) /\ AllBefore(s, Members(out), Remaining(b, j))
  BY DEF IsMerging
<1> HIDE DEF i, j, out
<1>3. CASE i > Len(a) \/ j > Len(b)
  BY <1>3 DEF V!MergeStep, i, j
<1>4. CASE ~(i > Len(a) \/ j > Len(b))
  <2>1. /\ i \in 1 .. Len(a) /\ j \in 1 .. Len(b) /\ i \in Nat /\ j \in Nat
        /\ a[i] \in Members(a) /\ b[j] \in Members(b)
        /\ a[i] \in 1 .. Len(s) /\ b[j] \in 1 .. Len(s)
    BY <1>1, <1>4 DEF Members
  <2>2. a[i] < b[j]
    BY <2>1 DEF Earlier
  <2>3. s[a[i]] \in Elements /\ s[b[j]] \in Elements /\ Key(s[a[i]]) \in Nat /\ Key(s[b[j]]) \in Nat
    BY <2>1 DEF HasKeys
  <2>4. CASE V!Less(s, b[j], a[i])
    <3> DEFINE o == Append(out, b[j])
    <3>1. to = [i |-> i, j |-> j + 1, out |-> o]
      <4>1. to = [at EXCEPT !.j = @ + 1, !.out = Append(@, b[j])]
        BY <1>4, <2>4 DEF V!MergeStep, i, j
      <4> QED
        BY <1>1, <4>1
    <3>2. Precedes(s, b[j], a[i])
      BY <2>4 DEF V!Less, Precedes
    <3>3. AllBefore(s, {b[j]}, Remaining(a, i))
      BY <2>1, <3>2, NextIsFirst
    <3>4. /\ IsSorted(s, o) /\ Members(o) = Members(out) \cup {b[j]}
          /\ AllBefore(s, Members(o), Remaining(b, j + 1))
          /\ AllBefore(s, Members(o), Remaining(a, i))
          /\ Taken(b, j + 1) = Taken(b, j) \cup {b[j]}
      <4>1. IsNext(s, b, j, out, b[j], Remaining(a, i))
        BY <1>2, <2>1, <3>3 DEF IsNext
      <4>2. IsTaken(s, b, j, out, b[j], Remaining(a, i), o)
        BY <4>1, TakeNext
      <4> HIDE DEF o
      <4> QED
        BY <4>2 DEF IsTaken
    <3>5. o \in Seq(1 .. Len(s)) /\ j + 1 \in 1 .. Len(b) + 1
      BY <1>1, <2>1, <3>4 DEF IsSorted
    <3>6. to.i = i /\ to.j = j + 1 /\ to.out = o
          /\ to \in [i : 1 .. Len(a) + 1, j : 1 .. Len(b) + 1, out : Seq(1 .. Len(s))]
      <4> HIDE DEF o
      <4> QED
        BY <1>1, <3>1, <3>5
    <3>7. Members(o) = Taken(a, i) \cup Taken(b, j + 1)
      BY <1>2, <3>4
    <3> HIDE DEF o
    <3>8. IsMerging(s, a, b, to)
      BY <3>4, <3>6, <3>7 DEF IsMerging
    <3>9. to.i + to.j = i + j + 1
      BY <2>1, <3>6
    <3> QED
      BY <3>8, <3>9 DEF i, j
  <2>5. CASE ~V!Less(s, b[j], a[i])
    <3> DEFINE o == Append(out, a[i])
    <3>1. to = [i |-> i + 1, j |-> j, out |-> o]
      <4>1. to = [at EXCEPT !.i = @ + 1, !.out = Append(@, a[i])]
        BY <1>4, <2>5 DEF V!MergeStep, i, j
      <4> QED
        BY <1>1, <4>1
    <3>2. Precedes(s, a[i], b[j])
      BY <2>2, <2>3, <2>5 DEF V!Less, Precedes
    <3>3. AllBefore(s, {a[i]}, Remaining(b, j))
      BY <2>1, <3>2, NextIsFirst
    <3>4. /\ IsSorted(s, o) /\ Members(o) = Members(out) \cup {a[i]}
          /\ AllBefore(s, Members(o), Remaining(a, i + 1))
          /\ AllBefore(s, Members(o), Remaining(b, j))
          /\ Taken(a, i + 1) = Taken(a, i) \cup {a[i]}
      <4>1. IsNext(s, a, i, out, a[i], Remaining(b, j))
        BY <1>2, <2>1, <3>3 DEF IsNext
      <4>2. IsTaken(s, a, i, out, a[i], Remaining(b, j), o)
        BY <4>1, TakeNext
      <4> HIDE DEF o
      <4> QED
        BY <4>2 DEF IsTaken
    <3>5. o \in Seq(1 .. Len(s)) /\ i + 1 \in 1 .. Len(a) + 1
      BY <1>1, <2>1, <3>4 DEF IsSorted
    <3>6. to.i = i + 1 /\ to.j = j /\ to.out = o
          /\ to \in [i : 1 .. Len(a) + 1, j : 1 .. Len(b) + 1, out : Seq(1 .. Len(s))]
      <4> HIDE DEF o
      <4> QED
        BY <1>1, <3>1, <3>5
    <3>7. Members(o) = Taken(a, i + 1) \cup Taken(b, j)
      BY <1>2, <3>4
    <3> HIDE DEF o
    <3>8. IsMerging(s, a, b, to)
      BY <3>4, <3>6, <3>7 DEF IsMerging
    <3>9. to.i + to.j = i + j + 1
      BY <2>1, <3>6
    <3> QED
      BY <3>8, <3>9 DEF i, j
  <2> QED
    BY <2>4, <2>5
<1> QED
  BY <1>3, <1>4

\* What is left of a run.
LEMMA TailIs ==
    ASSUME NEW s, NEW b, IsSorted(s, b), NEW j \in 1 .. Len(b) + 1
    PROVE  /\ IsSorted(s, SubSeq(b, j, Len(b)))
           /\ Members(SubSeq(b, j, Len(b))) = Remaining(b, j)
           /\ Members(b) = Taken(b, j) \cup Remaining(b, j)
           /\ (j > Len(b) => Remaining(b, j) = {})
<1> DEFINE t == SubSeq(b, j, Len(b))
<1>1. b \in Seq(1 .. Len(s)) /\ Len(b) \in Nat /\ j \in Nat
  BY DEF IsSorted
<1>2. /\ t \in Seq(1 .. Len(s)) /\ Len(t) = Len(b) + 1 - j
      /\ \A p \in 1 .. Len(t) : t[p] = b[p + j - 1]
  <2>1. CASE j <= Len(b)
    BY <1>1, <2>1
  <2>2. CASE j = Len(b) + 1
    <3>1. t = <<>>
      BY <1>1, <2>2
    <3> QED
      BY <1>1, <2>2, <3>1
  <2> QED
    BY <1>1, <2>1, <2>2
<1> HIDE DEF t
<1>3. \A p \in 1 .. Len(t) : p + j - 1 \in j .. Len(b) /\ p + j - 1 \in 1 .. Len(b)
  BY <1>1, <1>2
<1>4. \A p, q \in 1 .. Len(t) : p < q => p + j - 1 < q + j - 1
  BY <1>1
<1>5. IsSorted(s, t)
  BY <1>2, <1>3, <1>4 DEF IsSorted
<1>6. \A q \in j .. Len(b) : q - j + 1 \in 1 .. Len(t) /\ q = (q - j + 1) + j - 1
  BY <1>1, <1>2
<1>7. Members(t) = Remaining(b, j)
  <2>1. Members(t) \subseteq Remaining(b, j)
    BY <1>2, <1>3 DEF Members, Remaining
  <2>2. \A q \in j .. Len(b) : b[q] = t[q - j + 1]
    BY <1>2, <1>6
  <2>3. Remaining(b, j) \subseteq Members(t)
    BY <1>6, <2>2 DEF Members, Remaining
  <2> QED
    BY <2>1, <2>3
<1>8. Members(b) = Taken(b, j) \cup Remaining(b, j)
  <2>1. \A p : p \in 1 .. Len(b) <=> p \in 1 .. j - 1 \/ p \in j .. Len(b)
    BY <1>1
  <2> QED
    BY <2>1 DEF Members, Taken, Remaining
<1>9. j > Len(b) => j .. Len(b) = {}
  BY <1>1
<1>10. j > Len(b) => Remaining(b, j) = {}
  BY <1>9 DEF Remaining
<1> QED
  BY <1>5, <1>7, <1>8, <1>10 DEF t

\* Merging begins with nothing.
LEMMA MergeStart ==
    ASSUME NEW s, NEW a, NEW b, IsSorted(s, a), IsSorted(s, b)
    PROVE  IsMerging(s, a, b, [i |-> 1, j |-> 1, out |-> <<>>])
<1>1. Len(a) \in Nat /\ Len(b) \in Nat
  BY DEF IsSorted
<1>2. 1 .. 0 = {} /\ 1 .. 1 - 1 = {}
  OBVIOUS
<1>3. <<>> \in Seq(1 .. Len(s)) /\ Len(<<>>) = 0
  OBVIOUS
<1>4. Members(<<>>) = {} /\ Taken(a, 1) = {} /\ Taken(b, 1) = {} /\ IsSorted(s, <<>>)
  BY <1>2, <1>3 DEF Members, Taken, IsSorted
<1> QED
  BY <1>1, <1>3, <1>4 DEF IsMerging, AllBefore

\* Steps of merging are a function.
IsMergeSteps(f, s, a, b) ==
    f = [n \in 0 .. Len(a) + Len(b) |->
            IF n = 0 THEN [i |-> 1, j |-> 1, out |-> <<>>]
            ELSE V!MergeStep(s, a, b, f[n - 1])]

LEMMA MergeStepsExist ==
    ASSUME NEW s, HasKeys(s), NEW a, NEW b, IsSorted(s, a), IsSorted(s, b), Earlier(a, b)
    PROVE  \E f : IsMergeSteps(f, s, a, b)
<1> DEFINE N == Len(a) + Len(b)
           S == [i : 1 .. Len(a) + 1, j : 1 .. Len(b) + 1, out : Seq(1 .. Len(s))]
           A == {at \in S : IsMerging(s, a, b, at)}
           x0 == [i |-> 1, j |-> 1, out |-> <<>>]
           G == [n \in 1 .. N |-> [at \in A |-> V!MergeStep(s, a, b, at)]]
<1>1. N \in Nat
  BY DEF IsSorted
<1>2. \A at : at \in A <=> IsMerging(s, a, b, at)
  BY DEF IsMerging
<1> HIDE DEF A, S, x0, N
<1>3. x0 \in A
  BY <1>2, MergeStart DEF x0
<1>4. \A at \in A : V!MergeStep(s, a, b, at) \in A
  BY <1>2, MergeStepIs
<1>5. G \in [1 .. N -> [A -> A]]
  BY <1>4
<1>6. PICK f : IsRecursive(f, N, A, x0, G)
  <2> HIDE DEF G
  <2> QED
    BY <1>1, <1>3, <1>5, Recursion
<1>7. f \in [0 .. N -> A] /\ f[0] = x0 /\ \A n \in 1 .. N : f[n] = G[n][f[n - 1]]
  BY <1>6 DEF IsRecursive
<1>8. \A n \in 1 .. N : f[n] = V!MergeStep(s, a, b, f[n - 1])
  <2> TAKE n \in 1 .. N
  <2>1. n - 1 \in 0 .. N /\ f[n - 1] \in A
    BY <1>1, <1>7
  <2> QED
    BY <1>7, <2>1
<1>9. \A n \in 0 .. N : f[n] = IF n = 0 THEN x0 ELSE V!MergeStep(s, a, b, f[n - 1])
  <2> TAKE n \in 0 .. N
  <2>1. n = 0 \/ n \in 1 .. N
    BY <1>1
  <2> QED
    BY <1>7, <1>8, <2>1
<1>10. f = [n \in 0 .. N |-> f[n]]
  BY <1>7
<1>11. IsMergeSteps(f, s, a, b)
  <2> HIDE DEF G
  <2> QED
    BY <1>9, <1>10 DEF IsMergeSteps, N, x0
<1> QED
  BY <1>11

\* They come to the end of one of the runs.
LEMMA MergeStepsEnd ==
    ASSUME NEW s, HasKeys(s), NEW a, NEW b, IsSorted(s, a), IsSorted(s, b), Earlier(a, b),
           NEW f, IsMergeSteps(f, s, a, b),
           NEW end, end = f[Len(a) + Len(b)]
    PROVE  IsMerging(s, a, b, end) /\ (end.i > Len(a) \/ end.j > Len(b))
<1> DEFINE N == Len(a) + Len(b)
           x0 == [i |-> 1, j |-> 1, out |-> <<>>]
           Ok(n) == /\ IsMerging(s, a, b, f[n])
                    /\ f[n].i > Len(a) \/ f[n].j > Len(b) \/ f[n].i + f[n].j >= n + 2
           P == {n \in 0 .. N : Ok(n)}
<1>1. N \in Nat /\ Len(a) \in Nat /\ Len(b) \in Nat
  BY DEF IsSorted
<1>2. f[0] = x0 /\ \A n \in 1 .. N : f[n] = V!MergeStep(s, a, b, f[n - 1])
  <2>1. \A n \in 0 .. N : f[n] = IF n = 0 THEN x0 ELSE V!MergeStep(s, a, b, f[n - 1])
    BY DEF IsMergeSteps
  <2> QED
    BY <1>1, <2>1
<1>3. Ok(0)
  <2>1. IsMerging(s, a, b, f[0])
    BY <1>2, MergeStart
  <2> QED
    BY <1>2, <2>1
<1>4. ASSUME NEW n \in 0 .. N - 1, Ok(n)
      PROVE  Ok(n + 1)
  <2>1. f[n + 1] = V!MergeStep(s, a, b, f[n])
    <3> HIDE DEF N, Ok
    <3>1. n + 1 \in 1 .. N /\ n + 1 - 1 = n
      BY <1>1
    <3> QED
      BY <1>2, <3>1
  <2>2. /\ IsMerging(s, a, b, f[n + 1])
        /\ \/ f[n].i > Len(a) /\ f[n + 1] = f[n]
           \/ f[n].j > Len(b) /\ f[n + 1] = f[n]
           \/ f[n + 1].i + f[n + 1].j = f[n].i + f[n].j + 1
    BY <1>4, <2>1, MergeStepIs
  <2>3. /\ f[n].i \in 1 .. Len(a) + 1 /\ f[n].j \in 1 .. Len(b) + 1
        /\ f[n + 1].i \in 1 .. Len(a) + 1 /\ f[n + 1].j \in 1 .. Len(b) + 1
    BY <1>4, <2>2 DEF IsMerging
  <2>4. CASE f[n + 1] = f[n] /\ (f[n].i > Len(a) \/ f[n].j > Len(b))
    BY <2>2, <2>4
  <2>5. CASE f[n + 1].i + f[n + 1].j = f[n].i + f[n].j + 1
    <3> DEFINE i == f[n].i
               j == f[n].j
               i1 == f[n + 1].i
               j1 == f[n + 1].j
    <3>1. i \in Nat /\ j \in Nat /\ i1 \in Nat /\ j1 \in Nat /\ i1 + j1 = i + j + 1
          /\ i <= Len(a) + 1 /\ j <= Len(b) + 1 /\ i1 <= Len(a) + 1 /\ j1 <= Len(b) + 1
      <4>1. i1 + j1 = i + j + 1
        BY <2>5
      <4> HIDE DEF i, j, i1, j1
      <4>2. i \in 1 .. Len(a) + 1 /\ j \in 1 .. Len(b) + 1
            /\ i1 \in 1 .. Len(a) + 1 /\ j1 \in 1 .. Len(b) + 1
        BY <2>3 DEF i, j, i1, j1
      <4> QED
        BY <1>1, <4>1, <4>2
    <3>2. i > Len(a) \/ j > Len(b) \/ i + j >= n + 2
      BY <1>4
    <3>3. CASE i + j >= n + 2
      BY <2>2, <3>1, <3>3
    <3>4. CASE i > Len(a) \/ j > Len(b)
      <4>1. f[n + 1] = f[n]
        BY <2>1, <3>4 DEF V!MergeStep
      <4> QED
        BY <2>2, <3>4, <4>1
    <3> QED
      BY <3>2, <3>3, <3>4
  <2> QED
    BY <2>2, <2>4, <2>5
<1>5. Ok(N)
  <2> HIDE DEF Ok
  <2>1. 0 \in P /\ \A n \in 0 .. N - 1 : n \in P => n + 1 \in P
    BY <1>1, <1>3, <1>4
  <2> HIDE DEF P, N
  <2>2. \A n \in 0 .. N : n \in P
    BY <1>1, <2>1, InductionUpTo
  <2> QED
    BY <1>1, <2>2 DEF P
<1>6. end.i \in 1 .. Len(a) + 1 /\ end.j \in 1 .. Len(b) + 1
  BY <1>5 DEF IsMerging
<1> QED
  BY <1>1, <1>5, <1>6

\* Merging two runs gives one with the members of both.
LEMMA MergeIs ==
    ASSUME NEW s, HasKeys(s), NEW a, NEW b, IsSorted(s, a), IsSorted(s, b), Earlier(a, b),
           NEW r, r = V!Merge(s, a, b)
    PROVE  /\ IsSorted(s, r) /\ Members(r) = Members(a) \cup Members(b)
           /\ Members(r) = {} => Members(a) = {}
<1> DEFINE steps[n \in 0 .. Len(a) + Len(b)] ==
                IF n = 0 THEN [i |-> 1, j |-> 1, out |-> <<>>]
                ELSE V!MergeStep(s, a, b, steps[n - 1])
           Steps(g) == [n \in 0 .. Len(a) + Len(b) |->
                IF n = 0 THEN [i |-> 1, j |-> 1, out |-> <<>>]
                ELSE V!MergeStep(s, a, b, g[n - 1])]
           end == steps[Len(a) + Len(b)]
           u == SubSeq(a, end.i, Len(a))
           v == SubSeq(b, end.j, Len(b))
<1>1. r = end.out \o u \o v
  BY DEF V!Merge
<1>2. IsMergeSteps(steps, s, a, b)
  <2>1. steps = CHOOSE g : g = Steps(g)
    BY DEF steps
  <2>2. PICK f : IsMergeSteps(f, s, a, b)
    BY MergeStepsExist
  <2>3. f = Steps(f)
    BY <2>2 DEF IsMergeSteps
  <2> HIDE DEF Steps, steps
  <2>4. steps = Steps(steps)
    BY <2>1, <2>3
  <2> QED
    BY <2>4 DEF IsMergeSteps, Steps
<1> HIDE DEF steps
<1>3. IsMerging(s, a, b, end) /\ (end.i > Len(a) \/ end.j > Len(b))
  BY <1>2, MergeStepsEnd
<1> HIDE DEF end
<1>4. /\ end.i \in 1 .. Len(a) + 1 /\ end.j \in 1 .. Len(b) + 1
      /\ IsSorted(s, end.out)
      /\ Members(end.out) = Taken(a, end.i) \cup Taken(b, end.j)
      /\ AllBefore(s, Members(end.out), Remaining(a, end.i))
      /\ AllBefore(s, Members(end.out), Remaining(b, end.j))
  BY <1>3 DEF IsMerging
<1>5. /\ IsSorted(s, u) /\ Members(u) = Remaining(a, end.i)
      /\ Members(a) = Taken(a, end.i) \cup Remaining(a, end.i)
      /\ (end.i > Len(a) => Remaining(a, end.i) = {})
  BY <1>4, TailIs
<1>6. /\ IsSorted(s, v) /\ Members(v) = Remaining(b, end.j)
      /\ Members(b) = Taken(b, end.j) \cup Remaining(b, end.j)
      /\ (end.j > Len(b) => Remaining(b, end.j) = {})
  BY <1>4, TailIs
<1> HIDE DEF u, v
<1> DEFINE w == end.out \o u
<1>7. IsSorted(s, w) /\ Members(w) = Members(end.out) \cup Members(u)
  <2>1. AllBefore(s, Members(end.out), Members(u))
    BY <1>4, <1>5
  <2> DEFINE o == end.out
  <2>2. IsSorted(s, o) /\ IsSorted(s, u) /\ AllBefore(s, Members(o), Members(u))
    BY <1>4, <1>5, <2>1
  <2> HIDE DEF o
  <2>3. IsSorted(s, o \o u) /\ Members(o \o u) = Members(o) \cup Members(u)
    BY ONLY <2>2, RunsJoin
  <2> QED
    BY <2>3 DEF o
<1>8. r = w \o v
  BY <1>1
<1> HIDE DEF w
<1>9. AllBefore(s, Members(w), Members(v))
  BY <1>3, <1>4, <1>5, <1>6, <1>7 DEF AllBefore
<1>10. IsSorted(s, r) /\ Members(r) = Members(w) \cup Members(v)
  <2>1. IsSorted(s, w) /\ IsSorted(s, v)
    BY <1>6, <1>7
  <2>2. IsSorted(s, w \o v) /\ Members(w \o v) = Members(w) \cup Members(v)
    BY ONLY <1>9, <2>1, RunsJoin
  <2> QED
    BY <1>8, <2>2
<1> QED
  BY <1>4, <1>5, <1>6, <1>7, <1>10

\* Two bucks that are not empty are merged, or put one behind the other.
LEMMA MergeBucksIs ==
    ASSUME NEW s, HasKeys(s), NEW a, NEW b, IsSorted(s, a), IsSorted(s, b), Earlier(a, b),
           a # <<>>, b # <<>>, NEW r, r = V!MergeBucks(s, a, b)
    PROVE  IsSorted(s, r) /\ Members(r) = Members(a) \cup Members(b) /\ r # <<>>
<1>1. /\ a \in Seq(1 .. Len(s)) /\ b \in Seq(1 .. Len(s))
      /\ Len(a) \in Nat \ {0} /\ Len(b) \in Nat \ {0}
  BY DEF IsSorted
<1>2. /\ a[Len(a)] \in 1 .. Len(s) /\ b[1] \in 1 .. Len(s) /\ a[1] \in Members(a)
      /\ b[Len(b)] \in 1 .. Len(s) /\ a[1] \in 1 .. Len(s)
  <2>1. Len(a) \in 1 .. Len(a) /\ 1 \in 1 .. Len(b) /\ Len(b) \in 1 .. Len(b) /\ 1 \in 1 .. Len(a)
    BY <1>1
  <2> QED
    BY <1>1, <2>1 DEF Members
<1>3. IsSorted(s, r) /\ Members(r) = Members(a) \cup Members(b)
  <2>1. CASE V!Less(s, a[Len(a)], b[1])
    <3>1. r = a \o b
      BY <2>1 DEF V!MergeBucks
    <3>2. Precedes(s, a[Len(a)], b[1])
      BY <2>1 DEF V!Less, Precedes
    <3>3. AllBefore(s, Members(a), Members(b))
      BY <3>2, EndsBefore
    <3>4. IsSorted(s, a \o b) /\ Members(a \o b) = Members(a) \cup Members(b)
      BY <3>3, RunsJoin
    <3> QED
      BY <3>1, <3>4
  <2>2. CASE ~V!Less(s, a[Len(a)], b[1]) /\ V!Less(s, b[Len(b)], a[1])
    <3>1. r = b \o a
      BY <2>2 DEF V!MergeBucks
    <3>2. Precedes(s, b[Len(b)], a[1])
      BY <2>2 DEF V!Less, Precedes
    <3>3. AllBefore(s, Members(b), Members(a))
      BY <3>2, EndsBefore
    <3>4. IsSorted(s, b \o a) /\ Members(b \o a) = Members(b) \cup Members(a)
      BY <3>3, RunsJoin
    <3> QED
      BY <3>1, <3>4
  <2>3. CASE ~V!Less(s, a[Len(a)], b[1]) /\ ~V!Less(s, b[Len(b)], a[1])
    <3>1. r = V!Merge(s, a, b)
      BY <2>3 DEF V!MergeBucks
    <3> QED
      BY <3>1, MergeIs
  <2> QED
    BY <2>1, <2>2, <2>3
<1>4. r # <<>>
  <2>1. Members(<<>>) = {}
    <3>1. 1 .. Len(<<>>) = {}
      OBVIOUS
    <3> QED
      BY <3>1 DEF Members
  <2> QED
    BY <1>2, <1>3, <2>1
<1> QED
  BY <1>3, <1>4

\* Bucks hold the positions of s, those of one buck before those of the next.
IsBucks(s, bk) ==
    /\ bk \in Seq(Seq(1 .. Len(s))) /\ Len(bk) > 0
    /\ \A k \in 1 .. Len(bk) : IsSorted(s, bk[k]) /\ bk[k] # <<>>
    /\ \A k, l \in 1 .. Len(bk) : k < l => Earlier(bk[k], bk[l])
    /\ \A i \in 1 .. Len(s) : \E k \in 1 .. Len(bk) : i \in Members(bk[k])

\* Half of a number and its double.
LEMMA Halves ==
    ASSUME NEW m \in Nat \ {0}, NEW h, h = (m + 1) \div 2
    PROVE  /\ h \in Nat \ {0} /\ (2 * h = m \/ 2 * h = m + 1)
           /\ \A k \in 1 .. h : 2 * k - 1 \in 1 .. m /\ (2 * k <= m => 2 * k \in 1 .. m)
           /\ \A j \in 1 .. m : \E k \in 1 .. h : j = 2 * k - 1 \/ (j = 2 * k /\ 2 * k <= m)
<1>1. h \in Nat \ {0} /\ (2 * h = m \/ 2 * h = m + 1)
  OBVIOUS
<1>2. \A k \in 1 .. h : 2 * k - 1 \in 1 .. m /\ (2 * k <= m => 2 * k \in 1 .. m)
  BY <1>1
<1>3. ASSUME NEW j \in 1 .. m
      PROVE  \E k \in 1 .. h : j = 2 * k - 1 \/ (j = 2 * k /\ 2 * k <= m)
  <2> DEFINE k == (j + 1) \div 2
  <2>1. k \in Nat /\ (j = 2 * k - 1 \/ j = 2 * k) /\ k >= 1
    OBVIOUS
  <2> HIDE DEF k
  <2>2. k \in 1 .. h
    BY <1>1, <2>1
  <2> QED
    BY <2>1, <2>2
<1> QED
  BY <1>1, <1>2, <1>3

\* What a pass makes of two neighbours.
IsPair(bk, c, k) ==
    /\ Members(c) = Members(bk[2 * k - 1]) \cup (IF 2 * k <= Len(bk) THEN Members(bk[2 * k]) ELSE {})

\* A pass merges neighbours and leaves half as many.
LEMMA PassIs ==
    ASSUME NEW s, HasKeys(s), NEW bk, IsBucks(s, bk), NEW r, r = V!MergeNeighbours(s, bk)
    PROVE  IsBucks(s, r) /\ Len(r) = (Len(bk) + 1) \div 2
<1> DEFINE m == Len(bk)
           h == (m + 1) \div 2
<1>1. /\ m \in Nat \ {0} /\ bk \in Seq(Seq(1 .. Len(s)))
      /\ \A k \in 1 .. m : IsSorted(s, bk[k]) /\ bk[k] # <<>>
      /\ \A k, l \in 1 .. m : k < l => Earlier(bk[k], bk[l])
      /\ \A i \in 1 .. Len(s) : \E k \in 1 .. m : i \in Members(bk[k])
  <2>1. m \in Nat /\ m > 0
    BY DEF IsBucks
  <2>2. m \in Nat \ {0}
    BY <2>1
  <2> QED
    BY <2>2 DEF IsBucks
<1>2. r = [k \in 1 .. h |-> IF 2 * k <= m THEN V!MergeBucks(s, bk[2 * k - 1], bk[2 * k])
                            ELSE bk[2 * k - 1]]
  BY DEF V!MergeNeighbours
<1> HIDE DEF m
<1>3. /\ h \in Nat \ {0} /\ (2 * h = m \/ 2 * h = m + 1)
      /\ \A k \in 1 .. h : 2 * k - 1 \in 1 .. m /\ (2 * k <= m => 2 * k \in 1 .. m)
      /\ \A j \in 1 .. m : \E k \in 1 .. h : j = 2 * k - 1 \/ (j = 2 * k /\ 2 * k <= m)
  BY <1>1, Halves
<1> HIDE DEF h
<1>4. ASSUME NEW k \in 1 .. h
      PROVE  IsSorted(s, r[k]) /\ r[k] # <<>> /\ IsPair(bk, r[k], k)
  <2>1. 2 * k - 1 \in 1 .. m /\ (2 * k <= m => 2 * k \in 1 .. m)
    BY <1>3
  <2>2. IsSorted(s, bk[2 * k - 1]) /\ bk[2 * k - 1] # <<>>
    BY <1>1, <2>1
  <2>3. CASE 2 * k <= m
    <3>1. r[k] = V!MergeBucks(s, bk[2 * k - 1], bk[2 * k])
      BY <1>2, <2>3
    <3>2. IsSorted(s, bk[2 * k]) /\ bk[2 * k] # <<>>
      BY <1>1, <2>1, <2>3
    <3>3. Earlier(bk[2 * k - 1], bk[2 * k])
      <4>1. 2 * k - 1 < 2 * k
        BY <1>3
      <4> QED
        BY <1>1, <2>1, <2>3, <4>1
    <3>4. IsSorted(s, r[k]) /\ r[k] # <<>>
          /\ Members(r[k]) = Members(bk[2 * k - 1]) \cup Members(bk[2 * k])
      BY <2>2, <3>1, <3>2, <3>3, MergeBucksIs
    <3> QED
      BY <2>3, <3>4 DEF IsPair, m
  <2>4. CASE ~(2 * k <= m)
    <3>1. r[k] = bk[2 * k - 1]
      BY <1>2, <2>4
    <3> QED
      BY <2>2, <2>4, <3>1 DEF IsPair, m
  <2> QED
    BY <2>3, <2>4
<1>5. Len(r) = h /\ r \in Seq(Seq(1 .. Len(s)))
  <2>1. \A k \in 1 .. h : r[k] \in Seq(1 .. Len(s))
    BY <1>4 DEF IsSorted
  <2>2. r = [k \in 1 .. h |-> r[k]]
    BY <1>2
  <2>3. r \in [1 .. h -> Seq(1 .. Len(s))]
    BY <2>1, <2>2
  <2> QED
    BY <1>3, <2>3
<1>6. ASSUME NEW k \in 1 .. h, NEW l \in 1 .. h, k < l
      PROVE  Earlier(r[k], r[l])
  <2>1. ASSUME NEW i \in Members(r[k]), NEW j \in Members(r[l])
        PROVE  i < j
    <3>1. PICK x \in 1 .. m : i \in Members(bk[x]) /\ x <= 2 * k
      <4>1. 2 * k - 1 \in 1 .. m /\ (2 * k <= m => 2 * k \in 1 .. m) /\ 2 * k - 1 <= 2 * k /\ 2 * k <= 2 * k
        BY <1>3
      <4>2. i \in Members(bk[2 * k - 1]) \/ (2 * k <= m /\ i \in Members(bk[2 * k]))
        BY <1>4 DEF IsPair, m
      <4> QED
        BY <4>1, <4>2
    <3>2. PICK y \in 1 .. m : j \in Members(bk[y]) /\ y >= 2 * l - 1
      <4>1. 2 * l - 1 \in 1 .. m /\ (2 * l <= m => 2 * l \in 1 .. m) /\ 2 * l - 1 >= 2 * l - 1 /\ 2 * l >= 2 * l - 1
        BY <1>3
      <4>2. j \in Members(bk[2 * l - 1]) \/ (2 * l <= m /\ j \in Members(bk[2 * l]))
        BY <1>4 DEF IsPair, m
      <4> QED
        BY <4>1, <4>2
    <3>3. x < y
      BY <1>1, <1>3, <1>6, <3>1, <3>2
    <3> QED
      BY <1>1, <3>1, <3>2, <3>3 DEF Earlier
  <2> QED
    BY <2>1 DEF Earlier
<1>7. ASSUME NEW i \in 1 .. Len(s)
      PROVE  \E k \in 1 .. h : i \in Members(r[k])
  <2>1. PICK j \in 1 .. m : i \in Members(bk[j])
    BY <1>1
  <2>2. PICK k \in 1 .. h : j = 2 * k - 1 \/ (j = 2 * k /\ 2 * k <= m)
    BY <1>3
  <2>3. i \in Members(r[k])
    BY <1>4, <2>1, <2>2 DEF IsPair, m
  <2> QED
    BY <2>3
<1> QED
  BY <1>3, <1>4, <1>5, <1>6, <1>7 DEF IsBucks, h, m

\* Sorting begins with a buck for each position.
LEMMA FirstBucks ==
    ASSUME NEW s, HasKeys(s), Len(s) > 0, NEW r, r = [i \in DOMAIN s |-> <<i>>]
    PROVE  IsBucks(s, r) /\ Len(r) = Len(s)
<1>1. Len(s) \in Nat \ {0} /\ DOMAIN s = 1 .. Len(s)
  BY DEF HasKeys
<1>2. r \in [1 .. Len(s) -> Seq(1 .. Len(s))]
  BY <1>1
<1>3. r \in Seq(Seq(1 .. Len(s))) /\ Len(r) = Len(s)
  BY <1>1, <1>2
<1>4. ASSUME NEW i \in 1 .. Len(s)
      PROVE  r[i] = <<i>> /\ IsSorted(s, r[i]) /\ r[i] # <<>> /\ Members(r[i]) = {i}
  <2>1. r[i] = <<i>> /\ Len(<<i>>) = 1 /\ <<i>>[1] = i /\ <<i>> \in Seq(1 .. Len(s)) /\ <<i>> # <<>>
    BY <1>1
  <2>2. \A p \in 1 .. 1 : p = 1
    OBVIOUS
  <2> DEFINE u == <<i>>
  <2>3. Len(u) = 1 /\ u[1] = i /\ u \in Seq(1 .. Len(s))
    BY <2>1
  <2> HIDE DEF u
  <2>4. IsSorted(s, u) /\ Members(u) = {i}
    BY <2>2, <2>3 DEF IsSorted, Members
  <2> QED
    BY <2>1, <2>4 DEF u
<1>5. \A k, l \in 1 .. Len(s) : k < l => Earlier(r[k], r[l])
  BY <1>4 DEF Earlier
<1> QED
  BY <1>1, <1>3, <1>4, <1>5 DEF IsBucks

\* The passes of a sort are a function.
IsPasses(f, s) ==
    f = [n \in 0 .. Len(s) |->
            IF n = 0 THEN [i \in DOMAIN s |-> <<i>>] ELSE V!MergeNeighbours(s, f[n - 1])]

LEMMA PassesExist ==
    ASSUME NEW s, HasKeys(s), Len(s) > 0
    PROVE  \E f : IsPasses(f, s)
<1> DEFINE N == Len(s)
           A == {bk \in Seq(Seq(1 .. Len(s))) : IsBucks(s, bk)}
           x0 == [i \in DOMAIN s |-> <<i>>]
           G == [n \in 1 .. N |-> [bk \in A |-> V!MergeNeighbours(s, bk)]]
<1>1. N \in Nat
  BY DEF HasKeys
<1>2. \A bk : bk \in A <=> IsBucks(s, bk)
  BY DEF IsBucks
<1> HIDE DEF A, x0, N
<1>3. x0 \in A
  BY <1>2, FirstBucks DEF x0
<1>4. \A bk \in A : V!MergeNeighbours(s, bk) \in A
  BY <1>2, PassIs
<1>5. G \in [1 .. N -> [A -> A]]
  BY <1>4
<1>6. PICK f : IsRecursive(f, N, A, x0, G)
  <2> HIDE DEF G
  <2> QED
    BY <1>1, <1>3, <1>5, Recursion
<1>7. f \in [0 .. N -> A] /\ f[0] = x0 /\ \A n \in 1 .. N : f[n] = G[n][f[n - 1]]
  BY <1>6 DEF IsRecursive
<1>8. \A n \in 1 .. N : f[n] = V!MergeNeighbours(s, f[n - 1])
  <2> TAKE n \in 1 .. N
  <2>1. n - 1 \in 0 .. N /\ f[n - 1] \in A
    BY <1>1, <1>7
  <2> QED
    BY <1>7, <2>1
<1>9. \A n \in 0 .. N : f[n] = IF n = 0 THEN x0 ELSE V!MergeNeighbours(s, f[n - 1])
  <2> TAKE n \in 0 .. N
  <2>1. n = 0 \/ n \in 1 .. N
    BY <1>1
  <2> QED
    BY <1>7, <1>8, <2>1
<1>10. f = [n \in 0 .. N |-> f[n]]
  BY <1>7
<1>11. IsPasses(f, s)
  <2> HIDE DEF G
  <2> QED
    BY <1>9, <1>10 DEF IsPasses, N, x0
<1> QED
  BY <1>11

\* As many passes as there are positions leave one buck.
LEMMA PassesEnd ==
    ASSUME NEW s, HasKeys(s), Len(s) > 0, NEW f, IsPasses(f, s)
    PROVE  IsBucks(s, f[Len(s)]) /\ Len(f[Len(s)]) = 1
<1> DEFINE N == Len(s)
           x0 == [i \in DOMAIN s |-> <<i>>]
           Ok(n) == IsBucks(s, f[n]) /\ (Len(f[n]) = 1 \/ Len(f[n]) <= N - n)
           P == {n \in 0 .. N : Ok(n)}
<1>1. N \in Nat /\ N > 0
  BY DEF HasKeys
<1>2. f[0] = x0 /\ \A n \in 1 .. N : f[n] = V!MergeNeighbours(s, f[n - 1])
  <2>1. \A n \in 0 .. N : f[n] = IF n = 0 THEN x0 ELSE V!MergeNeighbours(s, f[n - 1])
    BY DEF IsPasses
  <2> HIDE DEF x0, N
  <2>2. \A n \in 1 .. N : n \in 0 .. N /\ n # 0
    OBVIOUS
  <2> QED
    BY <1>1, <2>1, <2>2
<1>3. Ok(0)
  <2>1. IsBucks(s, f[0]) /\ Len(f[0]) = N
    BY <1>2, FirstBucks
  <2> QED
    BY <1>1, <2>1
<1> HIDE DEF N, x0
<1>4. ASSUME NEW n \in 0 .. N - 1, Ok(n)
      PROVE  Ok(n + 1)
  <2>1. f[n + 1] = V!MergeNeighbours(s, f[n])
    <3> HIDE DEF Ok
    <3>1. n + 1 \in 1 .. N /\ n + 1 - 1 = n
      BY <1>1
    <3> QED
      BY <1>2, <3>1
  <2>2. IsBucks(s, f[n + 1]) /\ Len(f[n + 1]) = (Len(f[n]) + 1) \div 2
    BY <1>4, <2>1, PassIs
  <2> DEFINE m == Len(f[n])
             h == Len(f[n + 1])
  <2>3. m \in Nat /\ m > 0 /\ h \in Nat /\ h = (m + 1) \div 2 /\ (m = 1 \/ m <= N - n)
    <3>1. \A c : IsBucks(s, c) => Len(c) \in Nat /\ Len(c) > 0
      BY DEF IsBucks
    <3>2. IsBucks(s, f[n]) /\ (Len(f[n]) = 1 \/ Len(f[n]) <= N - n)
      BY <1>4
    <3> HIDE DEF Ok
    <3> QED
      BY <2>2, <3>1, <3>2
  <2> HIDE DEF m, h, Ok
  <2>4. h = 1 \/ h <= N - (n + 1)
    BY <1>1, <2>3
  <2> QED
    BY <2>2, <2>4 DEF Ok, h
<1>5. Ok(N)
  <2> HIDE DEF Ok
  <2>1. 0 \in P /\ \A n \in 0 .. N - 1 : n \in P => n + 1 \in P
    BY <1>1, <1>3, <1>4
  <2> HIDE DEF P
  <2>2. \A n \in 0 .. N : n \in P
    BY <1>1, <2>1, InductionUpTo
  <2> QED
    BY <1>1, <2>2 DEF P
<1>6. Len(f[N]) \in Nat /\ Len(f[N]) > 0
  BY <1>5 DEF IsBucks
<1> QED
  BY <1>1, <1>5, <1>6 DEF N

\* The sorted positions are all of them, in order.
LEMMA IndexIs ==
    ASSUME NEW s, HasKeys(s), Len(s) > 0, NEW b, b = V!Index(s)
    PROVE  IsSorted(s, b) /\ Members(b) = 1 .. Len(s)
<1> DEFINE pass[n \in 0 .. Len(s)] ==
                IF n = 0 THEN [i \in DOMAIN s |-> <<i>>] ELSE V!MergeNeighbours(s, pass[n - 1])
           Pass(g) == [n \in 0 .. Len(s) |->
                IF n = 0 THEN [i \in DOMAIN s |-> <<i>>] ELSE V!MergeNeighbours(s, g[n - 1])]
<1>1. b = pass[Len(s)][1]
  BY DEF V!Index
<1>2. IsPasses(pass, s)
  <2>1. pass = CHOOSE g : g = Pass(g)
    BY DEF pass
  <2>2. PICK f : IsPasses(f, s)
    BY PassesExist
  <2>3. f = Pass(f)
    BY <2>2 DEF IsPasses
  <2> HIDE DEF Pass, pass
  <2>4. pass = Pass(pass)
    BY <2>1, <2>3
  <2> QED
    BY <2>4 DEF IsPasses, Pass
<1> HIDE DEF pass
<1> DEFINE bk == pass[Len(s)]
<1>3. IsBucks(s, bk) /\ Len(bk) = 1
  BY <1>2, PassesEnd
<1> HIDE DEF bk
<1>4. b = bk[1] /\ \A k \in 1 .. 1 : k = 1
  BY <1>1 DEF bk
<1>5. IsSorted(s, b) /\ \A i \in 1 .. Len(s) : i \in Members(b)
  BY <1>3, <1>4 DEF IsBucks
<1>6. Members(b) \subseteq 1 .. Len(s)
  BY <1>5, MembersOf DEF IsSorted
<1> QED
  BY <1>5, <1>6

\* The first k members of a run.
LEMMA FirstCounted ==
    ASSUME NEW s, HasKeys(s), NEW b, IsSorted(s, b)
    PROVE  \A k \in 0 .. Len(b) : Cardinality({b[p] : p \in 1 .. k}) = k
<1> DEFINE S(k) == {b[p] : p \in 1 .. k}
           Ok(k) == IsFiniteSet(S(k)) /\ Cardinality(S(k)) = k
           P == {k \in 0 .. Len(b) : Ok(k)}
<1>1. b \in Seq(1 .. Len(s)) /\ Len(b) \in Nat
  BY DEF IsSorted
<1>2. Ok(0)
  <2>1. S(0) = {}
    OBVIOUS
  <2> QED
    BY <2>1, FS_EmptySet
<1>3. ASSUME NEW k \in 0 .. Len(b) - 1, Ok(k)
      PROVE  Ok(k + 1)
  <2>1. \A p : p \in 1 .. k + 1 <=> p \in 1 .. k \/ p = k + 1
    BY <1>1
  <2>2. S(k + 1) = S(k) \cup {b[k + 1]}
    BY <2>1
  <2>3. \A p \in 1 .. k : b[p] # b[k + 1]
    <3> TAKE p \in 1 .. k
    <3>1. p \in 1 .. Len(b) /\ k + 1 \in 1 .. Len(b) /\ p < k + 1
      BY <1>1
    <3>2. Precedes(s, b[p], b[k + 1]) /\ b[p] \in 1 .. Len(s) /\ b[k + 1] \in 1 .. Len(s)
      BY <1>1, <3>1 DEF IsSorted
    <3> QED
      BY <3>2, PrecedesIsOrder
  <2>4. b[k + 1] \notin S(k)
    BY <2>3
  <2> DEFINE T == S(k)
             U == S(k + 1)
  <2>5. IsFiniteSet(T) /\ Cardinality(T) = k /\ b[k + 1] \notin T /\ U = T \cup {b[k + 1]}
    BY <1>3, <2>2, <2>4
  <2> HIDE DEF T, U
  <2>6. IsFiniteSet(U) /\ Cardinality(U) = k + 1
    BY <2>5, FS_AddElement
  <2> QED
    BY <2>6 DEF U
<1> HIDE DEF Ok
<1>4. 0 \in P /\ \A k \in 0 .. Len(b) - 1 : k \in P => k + 1 \in P
  BY <1>1, <1>2, <1>3
<1> HIDE DEF P
<1>5. \A k \in 0 .. Len(b) : k \in P
  BY <1>1, <1>4, InductionUpTo
<1> QED
  BY <1>5 DEF P, Ok

\* The place of a position in a run of all of them is the number of those up to it.
LEMMA PlaceIs ==
    ASSUME NEW s, HasKeys(s), NEW b, IsSorted(s, b), Members(b) = 1 .. Len(s),
           NEW k \in 1 .. Len(b)
    PROVE  Cardinality(V!Own!UpTo(s, b[k])) = k
<1>1. /\ b \in Seq(1 .. Len(s)) /\ Len(b) \in Nat /\ DOMAIN s = 1 .. Len(s)
      /\ \A p \in 1 .. Len(b) : b[p] \in 1 .. Len(s)
  BY DEF IsSorted, HasKeys
<1>2. \A i, j \in 1 .. Len(s) :
        (Key(s[j]) < Key(s[i]) \/ (Key(s[j]) = Key(s[i]) /\ j <= i)) <=> (j = i \/ Precedes(s, j, i))
  <2>1. \A i \in 1 .. Len(s) : s[i] \in Elements /\ Key(s[i]) \in Nat /\ i \in Nat
    BY DEF HasKeys
  <2> QED
    BY <2>1 DEF Precedes
<1>3. \A p \in 1 .. Len(b) : (b[p] = b[k] \/ Precedes(s, b[p], b[k])) <=> p \in 1 .. k
  <2> TAKE p \in 1 .. Len(b)
  <2>1. p < k => Precedes(s, b[p], b[k])
    BY DEF IsSorted
  <2>2. k < p => Precedes(s, b[k], b[p])
    BY DEF IsSorted
  <2>3. Precedes(s, b[k], b[p]) => b[k] # b[p] /\ ~Precedes(s, b[p], b[k])
    BY <1>1, PrecedesIsOrder
  <2>4. p < k \/ k < p \/ p = k
    BY <1>1
  <2>5. p \in 1 .. k <=> ~(k < p)
    BY <1>1
  <2> QED
    BY <2>1, <2>2, <2>3, <2>4, <2>5
<1>4. V!Own!UpTo(s, b[k]) = {b[p] : p \in 1 .. k}
  <2>1. \A j : j \in V!Own!UpTo(s, b[k]) <=>
               j \in 1 .. Len(s) /\ (j = b[k] \/ Precedes(s, j, b[k]))
    BY <1>1, <1>2 DEF V!Own!UpTo
  <2>2. \A p \in 1 .. k : p \in 1 .. Len(b)
    BY <1>1
  <2>3. \A j \in 1 .. Len(s) : \E p \in 1 .. Len(b) : j = b[p]
    BY DEF Members
  <2> QED
    BY <1>1, <1>3, <2>1, <2>2, <2>3
<1>5. k \in 0 .. Len(b)
  BY <1>1
<1> QED
  BY <1>4, <1>5, FirstCounted

\* Vector counts as this module does.
LEMMA SameCount == \A S : V!Own!Cardinality(S) = Cardinality(S)
BY DEF V!Own!Cardinality, Cardinality

\* sort's positions give the stable sort.
LEMMA IndexSorts ==
    ASSUME NEW s, HasKeys(s), Len(s) > 0, NEW b, b = V!Index(s)
    PROVE  /\ b \in [1 .. Len(s) -> 1 .. Len(s)] /\ DOMAIN s = 1 .. Len(s)
           /\ V!Own!StableSort(s) = [i \in DOMAIN s |-> s[b[i]]]
<1>1. IsSorted(s, b) /\ Members(b) = 1 .. Len(s)
  BY IndexIs
<1>2. b \in Seq(1 .. Len(s)) /\ Len(s) \in Nat /\ Len(b) \in Nat /\ DOMAIN s = 1 .. Len(s)
  BY <1>1 DEF IsSorted, HasKeys
<1>3. Len(b) = Len(s)
  <2>1. Cardinality({b[p] : p \in 1 .. Len(b)}) = Len(b)
    BY <1>1, <1>2, FirstCounted
  <2>2. Cardinality(1 .. Len(s)) = Len(s)
    BY <1>2, FS_Interval
  <2> QED
    BY <1>1, <2>1, <2>2 DEF Members
<1>4. b \in [1 .. Len(s) -> 1 .. Len(s)]
  BY <1>2, <1>3
<1>5. ASSUME NEW k \in 1 .. Len(s)
      PROVE  (CHOOSE i \in DOMAIN s : V!Own!Cardinality(V!Own!UpTo(s, i)) = k) = b[k]
  <2>1. Cardinality(V!Own!UpTo(s, b[k])) = k /\ b[k] \in 1 .. Len(s)
    BY <1>1, <1>3, <1>4, PlaceIs
  <2>2. ASSUME NEW i \in 1 .. Len(s), Cardinality(V!Own!UpTo(s, i)) = k
        PROVE  i = b[k]
    <3>1. PICK p \in 1 .. Len(b) : i = b[p]
      BY <1>1 DEF Members
    <3>2. Cardinality(V!Own!UpTo(s, b[p])) = p
      BY <1>1, PlaceIs
    <3> QED
      BY <2>2, <3>1, <3>2
  <2> QED
    BY <1>2, <2>1, <2>2, SameCount
<1>6. V!Own!StableSort(s) = [k \in DOMAIN s |-> s[b[k]]]
  <2> DEFINE place(k) == CHOOSE i \in DOMAIN s : V!Own!Cardinality(V!Own!UpTo(s, i)) = k
  <2>1. V!Own!StableSort(s) = [k \in DOMAIN s |-> s[place(k)]]
    BY DEF V!Own!StableSort
  <2>2. \A k \in DOMAIN s : place(k) = b[k]
    BY <1>2, <1>5
  <2> HIDE DEF place
  <2> QED
    BY <2>1, <2>2
<1> QED
  BY <1>2, <1>4, <1>6

-----------------------------------------------------------------------------
(* The vectors and their storage. *)
VectorRec == [storage : Storages, mCapacity : Nat \ {0}, mItemCount : Nat]
VectorStorage == [refs : Nat, mSize : Nat, cells : Seq(Elements \cup {Raw})]

\* The first n cells are the elements y, and the others are free.
Holds(cells, n, y) ==
    /\ y \in Seq(Elements) /\ Len(y) = n
    /\ cells \in Seq(Elements \cup {Raw}) /\ n <= Len(cells)
    /\ \A i \in 1 .. n : cells[i] = y[i]
    /\ \A i \in n + 1 .. Len(cells) : cells[i] = Raw

VectorIs(v, hp, vc, vl) ==
    IF vc[v] = NULL THEN vl[v] = NULL
    ELSE Holds(hp[vc[v].storage].cells, vc[v].mItemCount, vl[v])

VectorsSound(hp, vc, vl) ==
    /\ IsShare(Vectors, VectorStorage, VectorRec, hp, vc)
    /\ vl = [v \in Vectors |-> vl[v]]
    /\ \A v \in Vectors : VectorIs(v, hp, vc, vl)

\* The vectors other than v keep what they have.
VectorsStay(v, hq, vd) ==
    \A w \in Vectors \ {v} :
        /\ vd[w] = vec[w]
        /\ vec[w] # NULL => hq[vec[w].storage].cells = heap[vec[w].storage].cells

\* Vector v has the record r and the cells c now.
VectorHasNow(v, r, c, hq, vd) ==
    /\ IsShare(Vectors, VectorStorage, VectorRec, hq, vd)
    /\ vd[v] = r /\ hq[r.storage].cells = c
    /\ VectorsStay(v, hq, vd)

\* Elements, and behind them memory without any.
LEMMA FilledHolds ==
    ASSUME NEW y \in Seq(Elements), NEW k \in Int, NEW c, c = y \o V!RawCells(k)
    PROVE  Holds(c, Len(y), y)
<1> DEFINE r == V!RawCells(k)
           m == IF k < 0 THEN 0 ELSE k
<1>1. m \in Nat /\ 1 .. k = 1 .. m
  OBVIOUS
<1>2. r = [i \in 1 .. m |-> Raw]
  BY <1>1 DEF V!RawCells
<1> HIDE DEF m
<1>3. r \in Seq({Raw}) /\ Len(r) = m /\ \A i \in 1 .. m : r[i] = Raw
  BY <1>1, <1>2
<1> HIDE DEF r
<1>4. r \in Seq(Elements \cup {Raw}) /\ y \in Seq(Elements \cup {Raw})
  BY <1>1, <1>3
<1>5. /\ c \in Seq(Elements \cup {Raw}) /\ Len(c) = Len(y) + m
      /\ \A i \in 1 .. Len(y) : c[i] = y[i]
      /\ \A i \in Len(y) + 1 .. Len(y) + m : c[i] = r[i - Len(y)]
  <2>1. c = y \o r
    BY DEF r
  <2> QED
    BY <1>1, <1>3, <1>4, <2>1
<1>6. \A i \in Len(y) + 1 .. Len(y) + m : i - Len(y) \in 1 .. m
  BY <1>1
<1> QED
  BY <1>1, <1>3, <1>5, <1>6 DEF Holds

\* The same in the place of other elements.
LEMMA OverHolds ==
    ASSUME NEW cells, NEW n \in Nat, NEW x, Holds(cells, n, x),
           NEW t, NEW y, Holds(t, Len(y), y), n <= Len(t),
           NEW c, c = V!Over(t, cells)
    PROVE  Holds(c, Len(y), y)
<1> DEFINE E == Elements \cup {Raw}
           u == SubSeq(cells, Len(t) + 1, Len(cells))
<1>1. /\ cells \in Seq(E) /\ Len(cells) \in Nat /\ t \in Seq(E) /\ Len(t) \in Nat
      /\ y \in Seq(Elements) /\ Len(y) \in Nat /\ Len(y) <= Len(t)
      /\ \A i \in 1 .. Len(y) : t[i] = y[i]
      /\ \A i \in Len(y) + 1 .. Len(t) : t[i] = Raw
      /\ \A i \in n + 1 .. Len(cells) : cells[i] = Raw
  BY DEF Holds
<1> HIDE DEF E
<1>2. /\ u \in Seq(E) /\ Len(u) \in Nat
      /\ \A i \in 1 .. Len(u) : u[i] = cells[Len(t) + i] /\ Len(t) + i \in n + 1 .. Len(cells)
  <2>1. CASE Len(t) + 1 <= Len(cells)
    BY <1>1, <2>1
  <2>2. CASE ~(Len(t) + 1 <= Len(cells))
    <3>1. u = <<>>
      BY <1>1, <2>2
    <3>2. <<>> \in Seq(E) /\ Len(<<>>) = 0 /\ 1 .. 0 = {}
      OBVIOUS
    <3> HIDE DEF u
    <3> QED
      BY <3>1, <3>2
  <2> QED
    BY <2>1, <2>2
<1>3. c = t \o u
  BY DEF V!Over
<1> HIDE DEF u
<1>4. /\ c \in Seq(E) /\ Len(c) = Len(t) + Len(u)
      /\ \A i \in 1 .. Len(t) : c[i] = t[i]
      /\ \A i \in Len(t) + 1 .. Len(c) : c[i] = u[i - Len(t)] /\ i - Len(t) \in 1 .. Len(u)
  BY <1>1, <1>2, <1>3
<1>5. \A i \in 1 .. Len(y) : c[i] = y[i]
  BY <1>1, <1>4
<1>6. ASSUME NEW i \in Len(y) + 1 .. Len(c)
      PROVE  c[i] = Raw
  <2>1. CASE i <= Len(t)
    BY <1>1, <1>4, <2>1
  <2>2. CASE ~(i <= Len(t))
    <3>1. i \in Len(t) + 1 .. Len(c)
      BY <1>1, <1>2, <1>4, <2>2
    <3>2. c[i] = u[i - Len(t)] /\ i - Len(t) \in 1 .. Len(u)
      BY <1>4, <3>1
    <3>3. u[i - Len(t)] = cells[Len(t) + (i - Len(t))] /\ Len(t) + (i - Len(t)) \in n + 1 .. Len(cells)
      BY <1>2, <3>2
    <3> QED
      BY <1>1, <3>2, <3>3
  <2> QED
    BY <2>1, <2>2
<1> QED
  BY <1>1, <1>2, <1>4, <1>5, <1>6 DEF Holds, E

\* What a vector has.
LEMMA VectorHas ==
    ASSUME VectorsSound(heap, vec, value), NEW v \in Vectors, vec[v] # NULL
    PROVE  /\ vec[v] \in VectorRec /\ vec[v].storage \in Storages
           /\ vec[v].mCapacity \in Nat \ {0} /\ vec[v].mItemCount \in Nat
           /\ heap[vec[v].storage] \in VectorStorage
           /\ heap[vec[v].storage].refs \in Nat /\ heap[vec[v].storage].refs >= 1
           /\ V!CellsOf(v) = heap[vec[v].storage].cells
           /\ Holds(V!CellsOf(v), vec[v].mItemCount, value[v])
           /\ V!Items(v) = value[v] /\ value[v] \in Seq(Elements)
           /\ Len(value[v]) = vec[v].mItemCount
<1>1. IsShare(Vectors, VectorStorage, VectorRec, heap, vec)
  BY DEF VectorsSound
<1>2. /\ vec[v] \in VectorRec /\ vec[v].storage \in Storages
      /\ heap[vec[v].storage] \in VectorStorage
      /\ heap[vec[v].storage].refs \in Nat /\ heap[vec[v].storage].refs >= 1
  BY <1>1, HolderHas
<1>3. /\ Holds(V!CellsOf(v), vec[v].mItemCount, value[v])
      /\ V!CellsOf(v) = heap[vec[v].storage].cells
  BY DEF VectorsSound, VectorIs, V!CellsOf
<1>4. vec[v].mCapacity \in Nat \ {0} /\ vec[v].mItemCount \in Nat
  BY <1>2 DEF VectorRec
<1> DEFINE c == V!CellsOf(v)
           n == vec[v].mItemCount
           y == value[v]
<1>5. V!Items(v) = SubSeq(c, 1, n)
  BY DEF V!Items
<1>6. n \in Nat /\ Holds(c, n, y)
  BY <1>3, <1>4
<1> HIDE DEF c, n, y
<1>7. /\ y \in Seq(Elements) /\ Len(y) = n /\ c \in Seq(Elements \cup {Raw}) /\ n <= Len(c)
      /\ \A i \in 1 .. n : c[i] = y[i]
  BY <1>6 DEF Holds
<1>8. SubSeq(c, 1, n) = y
  <2> DEFINE z == SubSeq(c, 1, n)
  <2>1. z \in Seq(Elements \cup {Raw}) /\ Len(z) = n /\ \A i \in 1 .. n : z[i] = c[i]
    <3>1. CASE n = 0
      <4>1. z = <<>>
        BY <1>7, <3>1
      <4> QED
        BY <3>1, <4>1
    <3>2. CASE n >= 1
      BY <1>6, <1>7, <3>2
    <3> QED
      BY <1>6, <3>1, <3>2
  <2> HIDE DEF z
  <2>2. y \in Seq(Elements \cup {Raw})
    BY <1>7
  <2>3. z = y
    BY <1>6, <1>7, <2>1, <2>2, SeqEqual
  <2> QED
    BY <2>3 DEF z
<1> QED
  BY <1>2, <1>3, <1>4, <1>5, <1>7, <1>8 DEF c, n, y

\* A step changes one vector.
LEMMA VectorStep ==
    ASSUME VectorsSound(heap, vec, value), NEW v \in Vectors,
           NEW hq, NEW vd, NEW y,
           IsShare(Vectors, VectorStorage, VectorRec, hq, vd), VectorsStay(v, hq, vd),
           NEW vl, vl = [value EXCEPT ![v] = y],
           VectorIs(v, hq, vd, vl)
    PROVE  VectorsSound(hq, vd, vl)
<1>1. value = [w \in Vectors |-> value[w]]
  BY DEF VectorsSound
<1>2. vl = [w \in Vectors |-> vl[w]] /\ \A w \in Vectors \ {v} : vl[w] = value[w]
  BY <1>1
<1>3. ASSUME NEW w \in Vectors \ {v}
      PROVE  VectorIs(w, hq, vd, vl)
  <2>1. VectorIs(w, heap, vec, value)
    BY DEF VectorsSound
  <2> QED
    BY <1>2, <2>1 DEF VectorIs, VectorsStay
<1> QED
  BY <1>2, <1>3 DEF VectorsSound

\* There is storage to move to.
LEMMA FreeForVector ==
    ASSUME VectorsAssumption, IsShare(Vectors, VectorStorage, VectorRec, heap, vec)
    PROVE  V!Free \in Storages /\ heap[V!Free].refs = 0
<1>1. Vectors \in SUBSET Vectors /\ Cardinality(Vectors) < Cardinality(Storages)
  BY DEF VectorsAssumption
<1>2. \E b \in Storages : heap[b].refs = 0
  BY <1>1, StorageIsFree DEF VectorsAssumption
<1> QED
  BY <1>2 DEF V!Free

\* The record that a vector gets.
LEMMA RecordIs ==
    ASSUME NEW b \in Storages, NEW c \in Nat \ {0}, NEW n \in Nat,
           NEW r, r = [storage |-> b, mCapacity |-> c, mItemCount |-> n]
    PROVE  r \in VectorRec /\ r.storage = b /\ r.mCapacity = c /\ r.mItemCount = n
BY DEF VectorRec

\* Vector v has no storage in hr and vd, the others have what they had.
VectorLeft(v, hr, vd) ==
    /\ IsShare(Vectors, VectorStorage, VectorRec, hr, vd)
    /\ vd[v] = NULL /\ \A w \in Vectors \ {v} : vd[w] = vec[w]
    /\ \A c \in Storages : hr[c].refs # 0 => hr[c].cells = heap[c].cells

\* _release: the vector has left its storage to the others.
LEMMA VectorLeaves ==
    ASSUME IsShare(Vectors, VectorStorage, VectorRec, heap, vec),
           NEW v \in Vectors, vec[v] # NULL,
           NEW hr, hr = V!Release(heap, vec[v].storage),
           NEW vd, vd = [vec EXCEPT ![v] = NULL]
    PROVE  /\ VectorLeft(v, hr, vd)
           /\ ~V!IsNotShared(v) => hr[vec[v].storage].refs # 0
<1> DEFINE b == vec[v].storage
<1>1. hr = Released(heap, b)
  BY DEF V!Release, V!Freed, Released, Unused
<1>2. IsShare(Vectors, VectorStorage, VectorRec, hr, vd)
  <2>1. IsShare(Vectors, VectorStorage, VectorRec, Released(heap, vec[v].storage),
                [vec EXCEPT ![v] = NULL])
    BY Leaving
  <2> QED
    BY <1>1, <2>1
<1>3. /\ b \in Storages /\ heap[b] \in VectorStorage
      /\ heap[b].refs \in Nat /\ heap[b].refs >= 1
  BY HolderHas
<1>4. /\ vec \in [Vectors -> VectorRec \cup {NULL}]
      /\ heap \in [Storages -> VectorStorage \cup {Unused}]
  BY DEF IsShare
<1>5. vd[v] = NULL /\ \A w \in Vectors \ {v} : vd[w] = vec[w]
  BY <1>4
<1>6. hr = [heap EXCEPT ![b] = IF heap[b].refs = 1 THEN Unused
                                ELSE [heap[b] EXCEPT !.refs = heap[b].refs - 1]]
  BY <1>1 DEF Released
<1>7. \A c \in Storages : c # b => hr[c] = heap[c]
  BY <1>4, <1>6
<1>8. hr[b] = IF heap[b].refs = 1 THEN Unused
              ELSE [heap[b] EXCEPT !.refs = heap[b].refs - 1]
  BY <1>3, <1>4, <1>6
<1> HIDE DEF b
<1>9. hr[b].refs # 0 => hr[b].cells = heap[b].cells
  BY <1>3, <1>8 DEF VectorStorage, Unused
<1>10. heap[b].refs # 1 => hr[b].refs # 0
  BY <1>3, <1>8 DEF VectorStorage
<1>11. \A c \in Storages : hr[c].refs # 0 => hr[c].cells = heap[c].cells
  BY <1>7, <1>9
<1> QED
  BY <1>2, <1>5, <1>10, <1>11 DEF VectorLeft, b, V!IsNotShared

\* Those others have what they had.
LEMMA OtherVectorsHave ==
    ASSUME NEW v \in Vectors, NEW hr, NEW vd, VectorLeft(v, hr, vd)
    PROVE  /\ VectorsStay(v, hr, vd)
           /\ \A w \in Vectors \ {v} : vec[w] # NULL =>
                vec[w].storage \in Storages /\ hr[vec[w].storage].refs # 0
<1>1. ASSUME NEW w \in Vectors \ {v}, vec[w] # NULL
      PROVE  /\ hr[vec[w].storage].cells = heap[vec[w].storage].cells
             /\ vec[w].storage \in Storages /\ hr[vec[w].storage].refs # 0
  <2>1. vd[w] = vec[w] /\ IsShare(Vectors, VectorStorage, VectorRec, hr, vd)
    BY DEF VectorLeft
  <2>2. /\ vec[w].storage \in Storages
        /\ hr[vec[w].storage].refs \in Nat /\ hr[vec[w].storage].refs >= 1
    BY <1>1, <2>1, HolderHas
  <2> QED
    BY <2>2 DEF VectorLeft
<1> QED
  BY <1>1 DEF VectorLeft, VectorsStay

\* Retained storage: the vector has what its source has.
LEMMA VectorJoins ==
    ASSUME NEW v \in Vectors, NEW hp, NEW vb, VectorLeft(v, hp, vb),
           NEW r \in VectorRec, hp[r.storage].refs # 0,
           NEW hq, hq = [hp EXCEPT ![r.storage].refs = @ + 1],
           NEW vd, vd = [vb EXCEPT ![v] = r]
    PROVE  VectorHasNow(v, r, heap[r.storage].cells, hq, vd)
<1> DEFINE b == r.storage
<1>1. IsShare(Vectors, VectorStorage, VectorRec, hp, vb) /\ vb[v] = NULL /\ b \in Storages
  BY DEF VectorLeft, VectorRec
<1>2. IsShare(Vectors, VectorStorage, VectorRec, hq, vd)
  BY <1>1, Joining
<1>3. /\ vb \in [Vectors -> VectorRec \cup {NULL}]
      /\ hp \in [Storages -> VectorStorage \cup {Unused}]
  BY <1>1 DEF IsShare
<1>4. vd[v] = r /\ \A w \in Vectors \ {v} : vd[w] = vb[w]
  BY <1>3
<1>5. hp[b] \in VectorStorage
  BY <1>1, StorageIs
<1>6. hq[b] = [hp[b] EXCEPT !.refs = hp[b].refs + 1] /\ \A c \in Storages : c # b => hq[c] = hp[c]
  BY <1>1, <1>3
<1> HIDE DEF b
<1>7. hq[b].cells = hp[b].cells
  BY <1>5, <1>6 DEF VectorStorage
<1>8. /\ VectorsStay(v, hp, vb)
      /\ \A w \in Vectors \ {v} : vec[w] # NULL => vec[w].storage \in Storages
  BY OtherVectorsHave
<1>9. ASSUME NEW w \in Vectors \ {v}, vec[w] # NULL
      PROVE  hq[vec[w].storage].cells = heap[vec[w].storage].cells
  <2>1. hp[vec[w].storage].cells = heap[vec[w].storage].cells /\ vec[w].storage \in Storages
    BY <1>8, <1>9 DEF VectorsStay
  <2> QED
    BY <1>6, <1>7, <2>1
<1>10. VectorsStay(v, hq, vd)
  BY <1>4, <1>8, <1>9 DEF VectorsStay
<1>11. hq[b].cells = heap[b].cells
  BY <1>1, <1>7 DEF VectorLeft, b
<1> QED
  BY <1>2, <1>4, <1>10, <1>11 DEF VectorHasNow, b

\* New storage that a vector without any gets.
LEMMA VectorGetsNew ==
    ASSUME NEW v \in Vectors, NEW hp, NEW vb, VectorLeft(v, hp, vb),
           NEW r \in VectorRec, hp[r.storage].refs = 0,
           NEW x \in VectorStorage, x.refs = 1,
           NEW hq, hq = [hp EXCEPT ![r.storage] = x],
           NEW vd, vd = [vb EXCEPT ![v] = r]
    PROVE  VectorHasNow(v, r, x.cells, hq, vd)
<1> DEFINE b == r.storage
<1>1. IsShare(Vectors, VectorStorage, VectorRec, hp, vb) /\ vb[v] = NULL /\ b \in Storages
  BY DEF VectorLeft, VectorRec
<1>2. IsShare(Vectors, VectorStorage, VectorRec, hq, vd)
  BY <1>1, Making
<1>3. /\ vb \in [Vectors -> VectorRec \cup {NULL}]
      /\ hp \in [Storages -> VectorStorage \cup {Unused}]
  BY <1>1 DEF IsShare
<1>4. vd[v] = r /\ \A w \in Vectors \ {v} : vd[w] = vb[w]
  BY <1>3
<1>5. hq[b] = x /\ \A c \in Storages : c # b => hq[c] = hp[c]
  BY <1>1, <1>3
<1>6. b = r.storage
  OBVIOUS
<1> HIDE DEF b
<1>7. /\ VectorsStay(v, hp, vb)
      /\ \A w \in Vectors \ {v} : vec[w] # NULL =>
            vec[w].storage \in Storages /\ hp[vec[w].storage].refs # 0
  BY OtherVectorsHave
<1>8. ASSUME NEW w \in Vectors \ {v}, vec[w] # NULL
      PROVE  hq[vec[w].storage].cells = heap[vec[w].storage].cells
  <2>1. vec[w].storage \in Storages /\ vec[w].storage # b
    BY <1>6, <1>7, <1>8
  <2> QED
    BY <1>5, <1>7, <1>8, <2>1 DEF VectorsStay
<1>9. VectorsStay(v, hq, vd)
  BY <1>4, <1>7, <1>8 DEF VectorsStay
<1> QED
  BY <1>2, <1>4, <1>5, <1>6, <1>9 DEF VectorHasNow

\* A vector that moves to new storage.
LEMMA RelocateIs ==
    ASSUME VectorsAssumption, IsShare(Vectors, VectorStorage, VectorRec, heap, vec),
           NEW v \in Vectors, vec[v] # NULL,
           NEW k \in Nat \ {0}, NEW size \in Nat, NEW y \in Seq(Elements),
           V!Relocate(v, k, size, y, Len(y)),
           NEW r, r = [storage |-> V!Free, mCapacity |-> k, mItemCount |-> Len(y)]
    PROVE  /\ VectorHasNow(v, r, y \o V!RawCells(size - Len(y)), heap', vec')
           /\ r \in VectorRec /\ r.mItemCount = Len(y)
<1> DEFINE b == vec[v].storage
           f == V!Free
           c == y \o V!RawCells(size - Len(y))
           x == [refs |-> 1, mSize |-> size, cells |-> c]
           hr == V!Release(heap, b)
           vb == [vec EXCEPT ![v] = NULL]
<1>1. f \in Storages /\ heap[f].refs = 0
  BY FreeForVector
<1>2. b \in Storages /\ heap[b].refs \in Nat /\ heap[b].refs >= 1
  BY HolderHas
<1>3. /\ vec \in [Vectors -> VectorRec \cup {NULL}]
      /\ heap \in [Storages -> VectorStorage \cup {Unused}]
  BY DEF IsShare
<1>4. heap' = V!Release([heap EXCEPT ![f] = x], b) /\ vec' = [vec EXCEPT ![v] = r]
  BY DEF V!Relocate, V!Create
<1>5. f # b
  BY <1>1, <1>2
<1>6. Len(y) \in Nat /\ size - Len(y) \in Int
  OBVIOUS
<1>7. c \in Seq(Elements \cup {Raw})
  BY <1>6, FilledHolds DEF Holds
<1> HIDE DEF c
<1>8. x \in VectorStorage /\ x.refs = 1 /\ x.cells = c
  BY <1>7 DEF VectorStorage
<1> HIDE DEF x, f, b
<1>9. heap' = [hr EXCEPT ![f] = x]
  <2> DEFINE g == [heap EXCEPT ![f] = x]
             z == IF heap[b].refs = 1 THEN V!Freed ELSE [heap[b] EXCEPT !.refs = heap[b].refs - 1]
  <2>1. g[b] = heap[b]
    BY <1>1, <1>2, <1>3, <1>5
  <2>2. V!Release(g, b) = [g EXCEPT ![b] = z]
    <3> HIDE DEF g
    <3> QED
      BY <2>1 DEF V!Release
  <2>3. hr = [heap EXCEPT ![b] = z]
    BY DEF V!Release
  <2> HIDE DEF z
  <2>4. [g EXCEPT ![b] = z] = [[heap EXCEPT ![b] = z] EXCEPT ![f] = x]
    BY <1>1, <1>2, <1>3, <1>5
  <2> QED
    BY <1>4, <2>2, <2>3, <2>4
<1>10. VectorLeft(v, hr, vb)
  BY VectorLeaves DEF b
<1>11. vec' = [vb EXCEPT ![v] = r]
  BY <1>3, <1>4
<1>12. hr[f].refs = 0
  BY <1>1, <1>2, <1>3, <1>5 DEF V!Release
<1>13. r \in VectorRec /\ r.storage = f /\ r.mItemCount = Len(y)
  BY <1>1, <1>6, RecordIs DEF f
<1> HIDE DEF hr, vb
<1>14. VectorHasNow(v, r, x.cells, heap', vec')
  BY <1>8, <1>9, <1>10, <1>11, <1>12, <1>13, VectorGetsNew
<1> QED
  BY <1>8, <1>13, <1>14 DEF c

\* A vector alone with its storage.
LEMMA OnlySharer ==
    ASSUME IsShare(Vectors, VectorStorage, VectorRec, heap, vec),
           NEW v \in Vectors, vec[v] # NULL, V!IsNotShared(v)
    PROVE  SharersIn(Vectors, vec, vec[v].storage) = {v}
<1>1. /\ vec[v].storage \in Storages
      /\ heap[vec[v].storage].refs = 1 => SharersIn(Vectors, vec, vec[v].storage) = {v}
  BY HolderHas
<1> QED
  BY <1>1 DEF V!IsNotShared

\* It is written there.
LEMMA InPlaceIs ==
    ASSUME IsShare(Vectors, VectorStorage, VectorRec, heap, vec),
           NEW v \in Vectors, vec[v] # NULL, V!IsNotShared(v),
           NEW c \in Seq(Elements \cup {Raw}), NEW n \in Nat, V!InPlace(v, c, n)
    PROVE  /\ VectorHasNow(v, [vec[v] EXCEPT !.mItemCount = n], c, heap', vec')
           /\ [vec[v] EXCEPT !.mItemCount = n] \in VectorRec
           /\ [vec[v] EXCEPT !.mItemCount = n].mItemCount = n
<1> DEFINE b == vec[v].storage
           r == [vec[v] EXCEPT !.mItemCount = n]
<1>1. b \in Storages /\ heap[b] \in VectorStorage /\ vec[v] \in VectorRec
  BY HolderHas
<1>2. SharersIn(Vectors, vec, b) = {v}
  BY OnlySharer
<1>3. /\ vec \in [Vectors -> VectorRec \cup {NULL}] /\ NULL \notin VectorRec
      /\ heap \in [Storages -> VectorStorage \cup {Unused}]
  BY DEF IsShare
<1>4. heap' = [heap EXCEPT ![b].cells = c] /\ vec' = [vec EXCEPT ![v].mItemCount = n]
  BY DEF V!InPlace
<1>5. r \in VectorRec /\ r.storage = b /\ r.mItemCount = n
  BY <1>1 DEF VectorRec
<1>6. vec' \in [Vectors -> VectorRec \cup {NULL}] /\ vec'[v] = r /\ \A w \in Vectors \ {v} : vec'[w] = vec[w]
  BY <1>3, <1>4, <1>5
<1> HIDE DEF r
<1>7. heap'[b] = [heap[b] EXCEPT !.cells = c] /\ \A d \in Storages : d # b => heap'[d] = heap[d]
  BY <1>1, <1>3, <1>4
<1>8. heap' = [d \in Storages |-> heap'[d]]
  BY <1>3, <1>4
<1> HIDE DEF b
<1>9. heap'[b] \in VectorStorage /\ heap'[b].refs = heap[b].refs /\ heap'[b].cells = c
  BY <1>1, <1>7 DEF VectorStorage
<1>10. heap' \in [Storages -> VectorStorage \cup {Unused}]
  <2>1. \A d \in Storages : heap'[d] \in VectorStorage \cup {Unused}
    BY <1>3, <1>7, <1>9
  <2> QED
    BY <1>8, <2>1
<1>11. \A d \in Storages : heap'[d].refs = heap[d].refs
  BY <1>7, <1>9
<1>12. \A d \in Storages : SharersIn(Vectors, vec', d) = SharersIn(Vectors, vec, d)
  BY <1>3, <1>5, <1>6 DEF SharersIn, b
<1>13. IsShare(Vectors, VectorStorage, VectorRec, heap', vec')
  <2>1. SameShares(Vectors, VectorStorage, VectorRec, heap, vec, heap', vec')
    BY <1>6, <1>10, <1>11, <1>12 DEF SameShares
  <2> QED
    BY <2>1, Staying
<1>14. \A w \in Vectors \ {v} : vec[w] # NULL => vec[w].storage # b /\ vec[w].storage \in Storages
  BY <1>2, <1>3 DEF SharersIn, VectorRec
<1>15. VectorsStay(v, heap', vec')
  BY <1>6, <1>7, <1>14 DEF VectorsStay
<1>16. VectorHasNow(v, r, c, heap', vec')
  BY <1>5, <1>6, <1>9, <1>13, <1>15 DEF VectorHasNow
<1> QED
  BY <1>5, <1>16 DEF r

\* The doubling of a capacity comes to an end.
LEMMA DoubledIs ==
    ASSUME NEW c \in Nat \ {0}, NEW n \in Nat
    PROVE  V!Doubled(c, n) \in Nat \ {0}
<1> DEFINE size[k \in 0 .. n] == IF k = 0 THEN c ELSE 2 * size[k - 1]
           G == [k \in 1 .. n |-> [s \in Nat |-> 2 * s]]
<1>1. PICK f : IsRecursive(f, n, Nat, c, G)
  <2>1. G \in [1 .. n -> [Nat -> Nat]]
    OBVIOUS
  <2> HIDE DEF G
  <2> QED
    BY <2>1, Recursion
<1>2. f \in [0 .. n -> Nat] /\ f[0] = c /\ \A k \in 1 .. n : f[k] = 2 * f[k - 1]
  <2>1. f \in [0 .. n -> Nat] /\ f[0] = c /\ \A k \in 1 .. n : f[k] = G[k][f[k - 1]]
    <3> HIDE DEF G
    <3> QED
      BY <1>1 DEF IsRecursive
  <2>2. \A k \in 1 .. n : k - 1 \in 0 .. n /\ f[k - 1] \in Nat
    BY <2>1
  <2> QED
    BY <2>1, <2>2
<1>3. f = [k \in 0 .. n |-> IF k = 0 THEN c ELSE 2 * f[k - 1]]
  <2>1. \A k \in 0 .. n : f[k] = IF k = 0 THEN c ELSE 2 * f[k - 1]
    BY <1>2
  <2> QED
    BY <1>2, <2>1
<1>4. size = [k \in 0 .. n |-> IF k = 0 THEN c ELSE 2 * size[k - 1]]
  BY <1>3
<1> HIDE DEF size
<1>5. size[0] = c /\ \A k \in 1 .. n : size[k] = 2 * size[k - 1]
  BY <1>4
<1> DEFINE P == {k \in 0 .. n : size[k] \in Nat /\ size[k] > k}
<1>6. \A k \in 0 .. n : k \in P
  <2>1. 0 \in P
    BY <1>5
  <2>2. \A k \in 0 .. n - 1 : k \in P => k + 1 \in P
    BY <1>5
  <2> HIDE DEF P
  <2> QED
    BY <2>1, <2>2, InductionUpTo
<1> DEFINE S == {k \in 0 .. n : size[k] >= n}
<1>7. n \in S /\ S \subseteq Nat
  BY <1>6
<1>8. V!Least(S) \in S
  <2>1. \E i \in S : \A j \in S : i <= j
    <3> HIDE DEF S
    <3> QED
      BY <1>7, LeastOf
  <2> HIDE DEF S
  <2> QED
    BY <2>1 DEF V!Least
<1>9. size[V!Least(S)] \in Nat \ {0}
  BY <1>6, <1>8
<1>10. V!Doubled(c, n) = size[V!Least(S)]
  BY DEF V!Doubled, size
<1> QED
  BY <1>9, <1>10

\* n elements of y from position i on give way to s.
LEMMA SpliceIs ==
    ASSUME NEW y \in Seq(Elements), NEW s \in Seq(Elements),
           NEW i \in Nat, NEW n \in Nat, i + n <= Len(y),
           NEW z, z = SubSeq(y, 1, i) \o s \o SubSeq(y, i + n + 1, Len(y))
    PROVE  z \in Seq(Elements) /\ Len(z) = Len(y) - n + Len(s)
<1> DEFINE a == SubSeq(y, 1, i)
           c == SubSeq(y, i + n + 1, Len(y))
<1>1. a \in Seq(Elements) /\ Len(a) = i
  <2>1. CASE i = 0
    <3>1. a = <<>>
      BY <2>1
    <3> HIDE DEF a
    <3> QED
      BY <2>1, <3>1
  <2>2. CASE i # 0
    BY <2>2
  <2> QED
    BY <2>1, <2>2
<1>2. c \in Seq(Elements) /\ Len(c) = Len(y) - (i + n)
  <2>1. CASE i + n = Len(y)
    <3>1. c = <<>>
      BY <2>1
    <3> HIDE DEF c
    <3> QED
      BY <2>1, <3>1
  <2>2. CASE i + n # Len(y)
    BY <2>2
  <2> QED
    BY <2>1, <2>2
<1> HIDE DEF a, c
<1>3. z = a \o s \o c
  BY DEF a, c
<1> DEFINE d == a \o s
<1>4. d \in Seq(Elements) /\ Len(d) = i + Len(s)
  BY <1>1
<1>5. z = d \o c
  BY <1>3
<1> HIDE DEF d
<1>6. Len(d \o c) = Len(d) + Len(c) /\ (d \o c) \in Seq(Elements)
  BY ONLY <1>2, <1>4, ConcatProperties
<1>7. (d \o c) \in Seq(Elements) /\ Len(d \o c) = Len(y) - n + Len(s)
  <2>1. Len(s) \in Nat /\ Len(y) \in Nat /\ i \in Nat /\ n \in Nat
    OBVIOUS
  <2>2. \A p, q, l, r \in Nat : (p + l) + (r - (p + q)) = r - q + l
    OBVIOUS
  <2> QED
    BY ONLY <1>2, <1>4, <1>6, <2>1, <2>2
<1> QED
  BY ONLY <1>5, <1>7

\* Nothing in the place of them.
LEMMA NothingSpliced ==
    ASSUME NEW y \in Seq(Elements), NEW i \in Nat, NEW n \in Nat, i + n <= Len(y)
    PROVE  SubSeq(y, 1, i) \o <<>> \o SubSeq(y, i + n + 1, Len(y)) =
           SubSeq(y, 1, i) \o SubSeq(y, i + n + 1, Len(y))
<1> DEFINE a == SubSeq(y, 1, i)
<1>1. a \in Seq(Elements)
  <2>1. CASE i = 0
    <3>1. a = <<>>
      BY <2>1
    <3> HIDE DEF a
    <3> QED
      BY <3>1
  <2>2. CASE i # 0
    BY <2>2
  <2> QED
    BY <2>1, <2>2
<1> HIDE DEF a
<1>2. a \o <<>> = a
  BY <1>1
<1> QED
  BY <1>2 DEF a

\* One element in the place of another.
LEMMA OneSpliced ==
    ASSUME NEW y \in Seq(Elements), NEW x \in Elements, NEW i \in Nat, i < Len(y)
    PROVE  /\ SubSeq(y, 1, i) \o <<x>> \o SubSeq(y, i + 1 + 1, Len(y)) = [y EXCEPT ![i + 1] = x]
           /\ [y EXCEPT ![i + 1] = x] \in Seq(Elements)
           /\ Len([y EXCEPT ![i + 1] = x]) = Len(y)
<1> DEFINE a == SubSeq(y, 1, i)
           c == SubSeq(y, i + 1 + 1, Len(y))
           z == a \o <<x>> \o c
           w == [y EXCEPT ![i + 1] = x]
<1>1. a \in Seq(Elements) /\ Len(a) = i /\ \A k \in 1 .. i : a[k] = y[k]
  <2>1. CASE i = 0
    <3>1. a = <<>>
      BY <2>1
    <3> HIDE DEF a
    <3> QED
      BY <2>1, <3>1
  <2>2. CASE i # 0
    BY <2>2
  <2> QED
    BY <2>1, <2>2
<1>2. c \in Seq(Elements) /\ Len(c) = Len(y) - i - 1 /\ \A k \in 1 .. Len(c) : c[k] = y[i + 1 + k]
  <2>1. CASE i + 1 = Len(y)
    <3>1. c = <<>>
      BY <2>1
    <3> HIDE DEF c
    <3> QED
      BY <2>1, <3>1
  <2>2. CASE i + 1 # Len(y)
    BY <2>2
  <2> QED
    BY <2>1, <2>2
<1> HIDE DEF a, c
<1> DEFINE d == a \o <<x>>
<1>3. /\ d \in Seq(Elements) /\ Len(d) = i + 1
      /\ d[i + 1] = x /\ \A k \in 1 .. i : d[k] = y[k]
  BY <1>1
<1>8. z = d \o c
  OBVIOUS
<1> HIDE DEF d, z
<1>4. /\ z \in Seq(Elements) /\ Len(z) = Len(y)
      /\ \A k \in 1 .. i + 1 : z[k] = d[k]
      /\ \A k \in i + 2 .. Len(y) : z[k] = c[k - i - 1]
  BY <1>2, <1>3, <1>8
<1>5. w \in Seq(Elements) /\ Len(w) = Len(y) /\ w[i + 1] = x
      /\ \A k \in 1 .. Len(y) : k # i + 1 => w[k] = y[k]
  BY ExceptSeq
<1> HIDE DEF w
<1>6. ASSUME NEW k \in 1 .. Len(y) PROVE z[k] = w[k]
  <2>1. CASE k <= i
    BY <1>3, <1>4, <1>5, <2>1
  <2>2. CASE k = i + 1
    BY <1>3, <1>4, <1>5, <2>2
  <2>3. CASE k > i + 1
    <3>1. k - i - 1 \in 1 .. Len(c) /\ i + 1 + (k - i - 1) = k /\ k \in i + 2 .. Len(y)
      BY <1>2, <2>3
    <3> QED
      BY <1>2, <1>4, <1>5, <2>3, <3>1
  <2> QED
    BY <2>1, <2>2, <2>3
<1>7. z = w
  BY <1>4, <1>5, <1>6, SeqEqual
<1> QED
  BY <1>5, <1>7 DEF z, w, a, c, d

\* Raw cells behind elements.
LEMMA RawBehind ==
    ASSUME NEW y \in Seq(Elements), NEW n \in Nat
    PROVE  Len(y \o V!RawCells(n)) = Len(y) + n
<1> DEFINE r == V!RawCells(n)
<1>1. r \in Seq({Raw}) /\ Len(r) = n
  BY DEF V!RawCells
<1> HIDE DEF r
<1>2. Len(y \o r) = Len(y) + n
  BY <1>1
<1> QED
  BY <1>2 DEF r

\* A vector gets the items y, in its storage or in new storage.
LEMMA ChangeVector ==
    ASSUME VectorsAssumption, VectorsSound(heap, vec, value),
           NEW v \in Vectors, vec[v] # NULL, NEW y \in Seq(Elements),
           NEW t, Holds(t, Len(y), y), vec[v].mItemCount <= Len(t),
           NEW k \in Nat \ {0}, NEW size \in Nat,
           \/ V!IsNotShared(v) /\ V!InPlace(v, V!Over(t, V!CellsOf(v)), Len(y))
           \/ V!Relocate(v, k, size, y, Len(y)),
           value' = [value EXCEPT ![v] = y]
    PROVE  VectorsSound(heap', vec', value')
<1> DEFINE Has(r, c) == /\ VectorHasNow(v, r, c, heap', vec') /\ r \in VectorRec
                        /\ r.mItemCount = Len(y) /\ Holds(c, Len(y), y)
<1>1. IsShare(Vectors, VectorStorage, VectorRec, heap, vec)
  BY DEF VectorsSound
<1>2. \E r, c : Has(r, c)
  <2>1. CASE V!IsNotShared(v) /\ V!InPlace(v, V!Over(t, V!CellsOf(v)), Len(y))
    <3> DEFINE c == V!Over(t, V!CellsOf(v))
               r == [vec[v] EXCEPT !.mItemCount = Len(y)]
    <3>1. Holds(V!CellsOf(v), vec[v].mItemCount, value[v]) /\ vec[v].mItemCount \in Nat
      BY VectorHas
    <3>2. Holds(c, Len(y), y)
      BY <3>1, OverHolds
    <3>3. c \in Seq(Elements \cup {Raw}) /\ Len(y) \in Nat
      BY <3>2 DEF Holds
    <3> HIDE DEF c
    <3>4. VectorHasNow(v, r, c, heap', vec') /\ r \in VectorRec /\ r.mItemCount = Len(y)
      <4>1. V!InPlace(v, c, Len(y))
        BY <2>1 DEF c
      <4> QED
        BY <1>1, <2>1, <3>3, <4>1, InPlaceIs
    <3> HIDE DEF r
    <3> QED
      BY <3>2, <3>4
  <2>2. CASE V!Relocate(v, k, size, y, Len(y))
    <3> DEFINE c == y \o V!RawCells(size - Len(y))
               r == [storage |-> V!Free, mCapacity |-> k, mItemCount |-> Len(y)]
    <3>1. VectorHasNow(v, r, c, heap', vec') /\ r \in VectorRec /\ r.mItemCount = Len(y)
      BY <1>1, <2>2, RelocateIs
    <3>2. size - Len(y) \in Int
      OBVIOUS
    <3>3. Holds(c, Len(y), y)
      BY <3>2, FilledHolds
    <3> HIDE DEF c, r
    <3> QED
      BY <3>1, <3>3
  <2> QED
    BY <2>1, <2>2
<1>3. PICK r, c : Has(r, c)
  BY <1>2
<1>4. value'[v] = y
  BY DEF VectorsSound
<1>5. VectorIs(v, heap', vec', value')
  <2>1. r # NULL
    BY <1>1, <1>3 DEF IsShare
  <2> QED
    BY <1>3, <1>4, <2>1 DEF VectorIs, VectorHasNow
<1> QED
  BY <1>3, <1>5, VectorStep DEF VectorHasNow

\* Elements and nothing behind them.
LEMMA FullHolds ==
    ASSUME NEW y \in Seq(Elements)
    PROVE  Holds(y, Len(y), y)
<1>1. y \in Seq(Elements \cup {Raw}) /\ Len(y) \in Nat
  OBVIOUS
<1> QED
  BY <1>1 DEF Holds

\* One element more.
LEMMA InsertedIs ==
    ASSUME NEW y \in Seq(Elements), NEW x \in Elements, NEW i \in Nat, i <= Len(y),
           NEW z, z = V!With(y, i, x)
    PROVE  z \in Seq(Elements) /\ Len(z) = Len(y) + 1
<1> DEFINE a == SubSeq(y, 1, i)
           c == SubSeq(y, i + 1, Len(y))
           d == a \o <<x>>
<1>1. a \in Seq(Elements) /\ Len(a) = i
  <2>1. CASE i = 0
    <3>1. a = <<>>
      BY <2>1
    <3> HIDE DEF a
    <3> QED
      BY <2>1, <3>1
  <2>2. CASE i # 0
    BY <2>2
  <2> QED
    BY <2>1, <2>2
<1>2. c \in Seq(Elements) /\ Len(c) = Len(y) - i
  <2>1. CASE i = Len(y)
    <3>1. c = <<>>
      BY <2>1
    <3> HIDE DEF c
    <3> QED
      BY <2>1, <3>1
  <2>2. CASE i # Len(y)
    BY <2>2
  <2> QED
    BY <2>1, <2>2
<1> HIDE DEF a, c
<1>3. d \in Seq(Elements) /\ Len(d) = i + 1
  BY <1>1
<1>4. z = d \o c
  BY DEF a, c, V!With
<1> HIDE DEF d
<1>5. (d \o c) \in Seq(Elements) /\ Len(d \o c) = Len(d) + Len(c)
  BY ONLY <1>2, <1>3, ConcatProperties
<1>6. i \in Nat /\ Len(y) \in Nat
  OBVIOUS
<1>7. \A p, l \in Nat : (p + 1) + (l - p) = l + 1
  OBVIOUS
<1> QED
  BY ONLY <1>2, <1>3, <1>4, <1>5, <1>6, <1>7

\* insert keeps the vectors sound.
LEMMA VectorInsert ==
    ASSUME VectorsAssumption, VectorsSound(heap, vec, value),
           NEW v \in Vectors, vec[v] # NULL, NEW i \in 0 .. vec[v].mItemCount, NEW x \in Elements,
           V!Insert(v, i, x), V!Own!Insert(v, i, <<x>>)
    PROVE  VectorsSound(heap', vec', value')
<1> DEFINE y == value[v]
           n == vec[v].mItemCount
           z == SubSeq(y, 1, i) \o <<x>> \o SubSeq(y, i + 0 + 1, Len(y))
           k == V!Doubled(vec[v].mCapacity, n + 1)
<1>1. /\ V!Items(v) = y /\ y \in Seq(Elements) /\ Len(y) = n /\ n \in Nat
      /\ vec[v].mCapacity \in Nat \ {0}
  BY VectorHas
<1>2. i \in Nat /\ i + 0 <= Len(y) /\ <<x>> \in Seq(Elements) /\ Len(<<x>>) = 1 /\ i + 0 + 1 = i + 1
  BY <1>1
<1>3. z \in Seq(Elements) /\ Len(z) = n + 1
  <2>1. z = V!With(y, i, x)
    BY <1>2 DEF V!With
  <2>2. y \in Seq(Elements) /\ i \in Nat /\ i <= Len(y) /\ x \in Elements
    BY <1>1, <1>2
  <2> HIDE DEF y, z
  <2>3. z \in Seq(Elements) /\ Len(z) = Len(y) + 1
    BY ONLY <2>1, <2>2, InsertedIs
  <2> QED
    BY <1>1, <2>3
<1>4. V!With(V!Items(v), i, x) = z
  BY <1>1, <1>2 DEF V!With
<1>5. value' = [value EXCEPT ![v] = z]
  BY DEF V!Own!Insert, V!Own!Splice, V!Own!Become
<1>6. k \in Nat \ {0}
  <2>1. n + 1 \in Nat
    BY <1>1
  <2> HIDE DEF n
  <2> QED
    BY <1>1, <2>1, DoubledIs
<1> HIDE DEF y, z, k
<1>7. \/ V!IsNotShared(v) /\ V!InPlace(v, V!Over(z, V!CellsOf(v)), Len(z))
      \/ V!Relocate(v, k, k, z, Len(z))
  BY <1>3, <1>4 DEF V!Insert, k
<1>8. Holds(z, Len(z), z)
  BY <1>3, FullHolds
<1>9. vec[v].mItemCount <= Len(z)
  BY <1>1, <1>3
<1> QED
  BY <1>3, <1>5, <1>6, <1>7, <1>8, <1>9, ChangeVector

\* Elements are taken out.
LEMMA VectorTakeOut ==
    ASSUME VectorsAssumption, VectorsSound(heap, vec, value),
           NEW v \in Vectors, vec[v] # NULL, NEW i \in Nat, NEW n \in Nat,
           i + n <= vec[v].mItemCount,
           V!TakeOut(v, i, n), V!Own!Erase(v, i, n)
    PROVE  VectorsSound(heap', vec', value')
<1> DEFINE y == value[v]
           z == SubSeq(y, 1, i) \o SubSeq(y, i + n + 1, Len(y))
           t == z \o V!RawCells(n)
           k == vec[v].mCapacity
<1>1. /\ V!Items(v) = y /\ y \in Seq(Elements) /\ Len(y) = vec[v].mItemCount
      /\ vec[v].mItemCount \in Nat /\ k \in Nat \ {0}
  BY VectorHas
<1>2. SubSeq(y, 1, i) \o <<>> \o SubSeq(y, i + n + 1, Len(y)) = z
  <2> HIDE DEF y
  <2> QED
    BY <1>1, NothingSpliced
<1>3. z \in Seq(Elements) /\ Len(z) = Len(y) - n
  <2> DEFINE e == SubSeq(y, 1, i) \o <<>> \o SubSeq(y, i + n + 1, Len(y))
  <2>1. <<>> \in Seq(Elements) /\ Len(<<>>) = 0
    OBVIOUS
  <2>2. e \in Seq(Elements) /\ Len(e) = Len(y) - n + Len(<<>>)
    <3> HIDE DEF y
    <3> QED
      BY <1>1, <2>1, SpliceIs
  <2>3. Len(y) - n + 0 = Len(y) - n
    BY <1>1
  <2> HIDE DEF e
  <2>4. e = z
    BY <1>2 DEF e
  <2> QED
    BY <2>1, <2>2, <2>3, <2>4
<1>4. value' = [value EXCEPT ![v] = z]
  BY <1>2 DEF V!Own!Erase, V!Own!Splice, V!Own!Become
<1>5. Len(z) = vec[v].mItemCount - n /\ (vec[v].mItemCount - n) + n = Len(y)
  BY <1>1, <1>3
<1>6. SubSeq(V!Items(v), 1, i) \o SubSeq(V!Items(v), i + n + 1, (vec[v].mItemCount - n) + n) = z
  BY <1>1, <1>5
<1> HIDE DEF y, z
<1>7. Holds(t, Len(z), z) /\ Len(t) = Len(z) + n
  <2>1. n \in Int
    OBVIOUS
  <2> QED
    BY <1>3, <2>1, FilledHolds, RawBehind
<1>8. \/ V!IsNotShared(v) /\ V!InPlace(v, V!Over(t, V!CellsOf(v)), Len(z))
      \/ V!Relocate(v, k, k, z, Len(z))
  BY <1>5, <1>6 DEF V!TakeOut
<1>9. vec[v].mItemCount <= Len(t)
  BY <1>1, <1>5, <1>7
<1> HIDE DEF t, k
<1> QED
  BY <1>1, <1>3, <1>4, <1>7, <1>8, <1>9, ChangeVector

\* v[pos] = x keeps the vectors sound.
LEMMA VectorWrite ==
    ASSUME VectorsAssumption, VectorsSound(heap, vec, value),
           NEW v \in Vectors, vec[v] # NULL, NEW i \in 0 .. vec[v].mItemCount, NEW x \in Elements,
           V!Write(v, i, x), V!Own!Write(v, i, <<x>>)
    PROVE  VectorsSound(heap', vec', value')
<1> DEFINE y == value[v]
           k == vec[v].mCapacity
           z == [y EXCEPT ![i + 1] = x]
<1>1. /\ V!Items(v) = y /\ y \in Seq(Elements) /\ Len(y) = vec[v].mItemCount
      /\ vec[v].mItemCount \in Nat /\ k \in Nat \ {0}
  BY VectorHas
<1>2. i \in Nat /\ i < Len(y) /\ Len(<<x>>) = 1
  BY <1>1 DEF V!Write
<1>3. /\ SubSeq(y, 1, i) \o <<x>> \o SubSeq(y, i + 1 + 1, Len(y)) = z
      /\ z \in Seq(Elements) /\ Len(z) = Len(y)
  <2> HIDE DEF y
  <2> QED
    BY <1>1, <1>2, OneSpliced
<1>4. value' = [value EXCEPT ![v] = z]
  <2>1. value' = [value EXCEPT ![v] = SubSeq(y, 1, i) \o <<x>> \o SubSeq(y, i + Len(<<x>>) + 1, Len(y))]
    BY DEF V!Own!Write, V!Own!Splice, V!Own!Become
  <2> HIDE DEF z
  <2> QED
    BY <1>2, <1>3, <2>1
<1>5. Len(z) = vec[v].mItemCount /\ vec[v].mItemCount <= Len(z)
  BY <1>1, <1>3
<1>6. \/ V!IsNotShared(v) /\ V!InPlace(v, V!Over(z, V!CellsOf(v)), Len(z))
      \/ V!Relocate(v, k, k, z, Len(z))
  BY <1>1, <1>5 DEF V!Write
<1> HIDE DEF z, k
<1>7. Holds(z, Len(z), z)
  BY <1>3, FullHolds
<1> QED
  BY <1>1, <1>3, <1>4, <1>5, <1>6, <1>7, ChangeVector

\* shrink keeps the vectors sound.
LEMMA VectorShrink ==
    ASSUME VectorsAssumption, VectorsSound(heap, vec, value),
           NEW v \in Vectors, vec[v] # NULL, V!Shrink(v), V!Own!Copy(v, v)
    PROVE  VectorsSound(heap', vec', value')
<1> DEFINE y == value[v]
           k == vec[v].mCapacity
<1>1. /\ V!Items(v) = y /\ y \in Seq(Elements) /\ Len(y) = vec[v].mItemCount
      /\ vec[v].mItemCount \in Nat /\ k \in Nat \ {0}
  BY VectorHas
<1>2. value' = [value EXCEPT ![v] = y]
  BY DEF V!Own!Copy, V!Own!Become
<1>3. V!Relocate(v, k, Len(y), y, Len(y))
  BY <1>1 DEF V!Shrink
<1>4. Len(y) \in Nat /\ vec[v].mItemCount <= Len(y)
  BY <1>1
<1> HIDE DEF y, k
<1>5. Holds(y, Len(y), y)
  BY <1>1, FullHolds
<1> QED
  BY <1>1, <1>2, <1>3, <1>4, <1>5, ChangeVector

\* sort keeps the vectors sound.
LEMMA VectorSort ==
    ASSUME VectorsAssumption, VectorsSound(heap, vec, value),
           NEW v \in Vectors, vec[v] # NULL, V!Sort(v), V!Own!Sort(v)
    PROVE  VectorsSound(heap', vec', value')
<1> DEFINE y == value[v]
           k == vec[v].mCapacity
           index == V!Index(y)
           z == [i \in DOMAIN y |-> y[index[i]]]
<1>1. /\ V!Items(v) = y /\ y \in Seq(Elements) /\ Len(y) = vec[v].mItemCount
      /\ vec[v].mItemCount \in Nat /\ k \in Nat \ {0}
  BY VectorHas
<1>2. Len(y) > 1
  BY <1>1 DEF V!Sort
<1>3. HasKeys(y) /\ Len(y) > 0 /\ Len(y) \in Nat
  BY <1>1, <1>2 DEF HasKeys, VectorsAssumption
<1>4. /\ index \in [1 .. Len(y) -> 1 .. Len(y)] /\ DOMAIN y = 1 .. Len(y)
      /\ V!Own!StableSort(y) = z
  <2> HIDE DEF y
  <2> QED
    BY <1>3, IndexSorts
<1>5. value' = [value EXCEPT ![v] = z]
  BY <1>4 DEF V!Own!Sort, V!Own!Become
<1>6. \/ V!IsNotShared(v) /\ index = [i \in DOMAIN y |-> i] /\ UNCHANGED <<vec, heap>>
      \/ V!Relocate(v, k, k, z, Len(y))
  BY <1>1 DEF V!Sort
<1> HIDE DEF y, k, index
<1>7. z \in Seq(Elements) /\ Len(z) = Len(y)
  <2>1. \A i \in 1 .. Len(y) : index[i] \in 1 .. Len(y) /\ y[index[i]] \in Elements
    BY <1>1, <1>4
  <2>2. z \in [1 .. Len(y) -> Elements]
    BY <1>4, <2>1
  <2> HIDE DEF z
  <2> QED
    BY <1>3, <2>2
<1>8. CASE index = [i \in DOMAIN y |-> i] /\ UNCHANGED <<vec, heap>>
  <2>1. z = y
    <3>1. \A i \in 1 .. Len(y) : z[i] = y[i]
      BY <1>4, <1>8
    <3> HIDE DEF z
    <3> QED
      BY <1>1, <1>7, <3>1, SeqEqual
  <2>2. value = [w \in Vectors |-> value[w]]
    BY DEF VectorsSound
  <2>3. value' = value
    <3> HIDE DEF z
    <3> QED
      BY <1>5, <2>1, <2>2 DEF y
  <2> QED
    BY <1>8, <2>3
<1>9. CASE V!Relocate(v, k, k, z, Len(y))
  <2> HIDE DEF z
  <2>1. Holds(z, Len(z), z) /\ vec[v].mItemCount <= Len(z)
    BY <1>1, <1>7, FullHolds
  <2> QED
    BY <1>1, <1>5, <1>7, <1>9, <2>1, ChangeVector
<1> QED
  BY <1>6, <1>8, <1>9

\* A vector that gets what w has.
LEMMA VectorGets ==
    ASSUME VectorsSound(heap, vec, value), NEW v \in Vectors, NEW w \in Vectors, vec[w] # NULL,
           NEW hq, NEW vd, VectorHasNow(v, vec[w], heap[vec[w].storage].cells, hq, vd),
           NEW vl, vl = [value EXCEPT ![v] = value[w]]
    PROVE  VectorsSound(hq, vd, vl)
<1>1. Holds(heap[vec[w].storage].cells, vec[w].mItemCount, value[w])
  BY DEF VectorsSound, VectorIs
<1>2. vl[v] = value[w]
  BY DEF VectorsSound
<1>3. VectorIs(v, hq, vd, vl)
  BY <1>1, <1>2 DEF VectorIs, VectorHasNow
<1> QED
  BY <1>3, VectorStep DEF VectorHasNow

\* The copy constructor keeps the vectors sound.
LEMMA VectorCopyConstruct ==
    ASSUME VectorsAssumption, VectorsSound(heap, vec, value),
           NEW v \in Vectors, NEW w \in Vectors, V!CopyConstruct(v, w), V!Own!Copy(v, w)
    PROVE  VectorsSound(heap', vec', value')
<1>1. vec[v] = NULL /\ vec[w] # NULL
  BY DEF V!CopyConstruct, V!Exists
<1>2. IsShare(Vectors, VectorStorage, VectorRec, heap, vec)
  BY DEF VectorsSound
<1>3. VectorLeft(v, heap, vec)
  BY <1>1, <1>2 DEF VectorLeft
<1>4. vec[w] \in VectorRec /\ heap[vec[w].storage].refs # 0
  BY <1>1, VectorHas
<1>5. VectorHasNow(v, vec[w], heap[vec[w].storage].cells, heap', vec')
  BY <1>3, <1>4, VectorJoins DEF V!CopyConstruct
<1>6. value' = [value EXCEPT ![v] = value[w]]
  BY DEF V!Own!Copy, V!Own!Become
<1> QED
  BY <1>1, <1>5, <1>6, VectorGets

\* Assignment keeps the vectors sound, of a shared vector to itself too.
LEMMA VectorAssign ==
    ASSUME VectorsAssumption, VectorsSound(heap, vec, value),
           NEW v \in Vectors, NEW w \in Vectors, V!Assign(v, w), V!Own!Copy(v, w)
    PROVE  VectorsSound(heap', vec', value')
<1> DEFINE hr == V!Release(heap, vec[v].storage)
           vb == [vec EXCEPT ![v] = NULL]
<1>1. vec[v] # NULL /\ vec[w] # NULL /\ (v = w => ~V!IsNotShared(v))
  BY DEF V!Assign, V!Exists
<1>2. IsShare(Vectors, VectorStorage, VectorRec, heap, vec)
  BY DEF VectorsSound
<1>3. VectorLeft(v, hr, vb) /\ (~V!IsNotShared(v) => hr[vec[v].storage].refs # 0)
  BY <1>1, <1>2, VectorLeaves
<1>4. heap' = [hr EXCEPT ![vec[w].storage].refs = @ + 1]
  BY DEF V!Assign
<1>5. vec' = [vb EXCEPT ![v] = vec[w]]
  <2>1. vec' = [vec EXCEPT ![v] = vec[w]] /\ vec = [u \in Vectors |-> vec[u]]
    BY <1>2 DEF V!Assign, IsShare
  <2> QED
    BY <2>1
<1> HIDE DEF hr, vb
<1>6. vec[w] \in VectorRec /\ hr[vec[w].storage].refs # 0
  <2>1. vec[w] \in VectorRec
    BY <1>1, VectorHas
  <2>2. CASE v = w
    BY <1>1, <1>3, <2>1, <2>2
  <2>3. CASE v # w
    BY <1>1, <1>3, <2>1, <2>3, OtherVectorsHave
  <2> QED
    BY <2>2, <2>3
<1>7. VectorHasNow(v, vec[w], heap[vec[w].storage].cells, heap', vec')
  BY <1>3, <1>4, <1>5, <1>6, VectorJoins
<1>8. value' = [value EXCEPT ![v] = value[w]]
  BY DEF V!Own!Copy, V!Own!Become
<1> QED
  BY <1>1, <1>7, <1>8, VectorGets

\* The destructor keeps the vectors sound.
LEMMA VectorDestroy ==
    ASSUME VectorsAssumption, VectorsSound(heap, vec, value),
           NEW v \in Vectors, V!Destroy(v), V!Own!Drop(v)
    PROVE  VectorsSound(heap', vec', value')
<1>1. vec[v] # NULL
  BY DEF V!Destroy, V!Exists
<1>2. IsShare(Vectors, VectorStorage, VectorRec, heap, vec)
  BY DEF VectorsSound
<1>3. VectorLeft(v, heap', vec')
  BY <1>1, <1>2, VectorLeaves DEF V!Destroy
<1>4. VectorsStay(v, heap', vec')
  BY <1>3, OtherVectorsHave
<1>5. value' = [value EXCEPT ![v] = NULL]
  BY DEF V!Own!Drop, V!Own!Become
<1>6. VectorIs(v, heap', vec', value')
  <2>1. value'[v] = NULL
    BY <1>5 DEF VectorsSound
  <2> QED
    BY <1>3, <2>1 DEF VectorIs, VectorLeft
<1> QED
  BY <1>3, <1>4, <1>5, <1>6, VectorStep DEF VectorLeft

\* The constructor keeps the vectors sound.
LEMMA VectorConstruct ==
    ASSUME VectorsAssumption, VectorsSound(heap, vec, value),
           NEW v \in Vectors, NEW k \in Capacities, V!Construct(v, k), V!Own!Make(v, <<>>)
    PROVE  VectorsSound(heap', vec', value')
<1> DEFINE f == V!Free
           c == <<>> \o V!RawCells(k - Len(<<>>))
           r == [storage |-> f, mCapacity |-> k, mItemCount |-> 0]
           x == [refs |-> 1, mSize |-> k, cells |-> c]
<1>1. IsShare(Vectors, VectorStorage, VectorRec, heap, vec)
  BY DEF VectorsSound
<1>2. vec[v] = NULL /\ heap' = [heap EXCEPT ![f] = x] /\ vec' = [vec EXCEPT ![v] = r]
  BY DEF V!Construct, V!Create, V!Exists
<1>3. f \in Storages /\ heap[f].refs = 0
  BY <1>1, FreeForVector
<1>4. k \in Nat \ {0}
  BY DEF VectorsAssumption
<1>5. Holds(c, 0, <<>>)
  <2>1. <<>> \in Seq(Elements) /\ Len(<<>>) = 0 /\ k - Len(<<>>) \in Int
    BY <1>4
  <2> QED
    BY <2>1, FilledHolds
<1> HIDE DEF f, c
<1>6. r \in VectorRec /\ r.storage = f /\ r.mItemCount = 0
  BY <1>3, <1>4, RecordIs
<1>7. x \in VectorStorage /\ x.refs = 1 /\ x.cells = c
  BY <1>4, <1>5 DEF VectorStorage, Holds
<1> HIDE DEF r, x
<1>8. VectorLeft(v, heap, vec)
  BY <1>1, <1>2 DEF VectorLeft
<1>9. VectorHasNow(v, r, c, heap', vec')
  <2>1. VectorHasNow(v, r, x.cells, heap', vec')
    BY <1>2, <1>3, <1>6, <1>7, <1>8, VectorGetsNew
  <2> QED
    BY <1>7, <2>1
<1>10. value' = [value EXCEPT ![v] = <<>>]
  BY DEF V!Own!Make, V!Own!Become
<1>11. VectorIs(v, heap', vec', value')
  <2>1. value'[v] = <<>>
    BY <1>10 DEF VectorsSound
  <2>2. r # NULL
    BY <1>1, <1>6 DEF IsShare
  <2> QED
    BY <1>5, <1>6, <1>9, <2>1, <2>2 DEF VectorIs, VectorHasNow
<1> QED
  BY <1>9, <1>10, <1>11, VectorStep DEF VectorHasNow

\* The vectors are sound in the beginning.
LEMMA VectorsStart == ASSUME VectorsAssumption, V!Init
                      PROVE  VectorsSound(heap, vec, value)
<1>1. /\ vec = [v \in Vectors |-> NULL] /\ heap = [b \in Storages |-> Unused]
      /\ value = [v \in Vectors |-> NULL]
  BY DEF V!Init, V!Own!Init, V!Freed, Unused
<1>2. \A b \in Storages : heap[b].refs = 0 /\ SharersIn(Vectors, vec, b) = {}
  BY <1>1 DEF Unused, SharersIn
<1>3. Counted(Vectors, heap, vec)
  BY <1>2, FS_EmptySet DEF Counted
<1>4. IsHeapSet(VectorStorage)
  BY DEF IsHeapSet, VectorStorage
<1>5. IsShare(Vectors, VectorStorage, VectorRec, heap, vec)
  <2>1. NULL \notin VectorRec /\ (\A r \in VectorRec : r.storage \in Storages) /\ IsFiniteSet(Vectors)
    BY DEF VectorsAssumption, VectorRec
  <2> QED
    BY <1>1, <1>3, <1>4, <2>1 DEF IsShare
<1> QED
  BY <1>1, <1>5 DEF VectorsSound, VectorIs

\* Every call keeps the vectors sound.
LEMMA VectorsKeep ==
    ASSUME VectorsAssumption, VectorsSound(heap, vec, value), [V!Next]_(V!vars)
    PROVE  VectorsSound(heap', vec', value')
<1>1. CASE UNCHANGED V!vars
  BY <1>1 DEF V!vars
<1>2. CASE V!Next
  <2>1. PICK v \in Vectors :
            \/ \E c \in Capacities : V!Construct(v, c) /\ V!Own!Make(v, <<>>)
            \/ \E w \in Vectors : (V!CopyConstruct(v, w) \/ V!Assign(v, w)) /\ V!Own!Copy(v, w)
            \/ V!Destroy(v) /\ V!Own!Drop(v)
            \/ /\ V!Exists(v)
               /\ \E i \in 0 .. vec[v].mItemCount :
                    \/ \E x \in Elements : V!Insert(v, i, x) /\ V!Own!Insert(v, i, <<x>>)
                    \/ \E x \in Elements : V!Write(v, i, x) /\ V!Own!Write(v, i, <<x>>)
                    \/ V!EraseOne(v, i) /\ V!Own!Erase(v, i, 1)
                    \/ \E last \in 0 .. vec[v].mItemCount :
                        V!Erase(v, i, last) /\ V!Own!Erase(v, i, last - i + 1)
            \/ V!Exists(v) /\ V!Clear(v) /\ V!Own!Erase(v, 0, vec[v].mItemCount)
            \/ V!Exists(v) /\ V!Shrink(v) /\ V!Own!Copy(v, v)
            \/ V!Exists(v) /\ V!Sort(v) /\ V!Own!Sort(v)
    BY <1>2 DEF V!Next
  <2> DEFINE n == vec[v].mItemCount
             IsTakenOut(i, k) == i \in Nat /\ k \in Nat /\ i + k <= n /\ V!TakeOut(v, i, k) /\ V!Own!Erase(v, i, k)
  <2>2. ASSUME NEW c \in Capacities, V!Construct(v, c), V!Own!Make(v, <<>>)
        PROVE  VectorsSound(heap', vec', value')
    BY <2>2, VectorConstruct
  <2>3. ASSUME NEW w \in Vectors, V!CopyConstruct(v, w) \/ V!Assign(v, w), V!Own!Copy(v, w)
        PROVE  VectorsSound(heap', vec', value')
    BY <2>3, VectorCopyConstruct, VectorAssign
  <2>4. ASSUME V!Destroy(v), V!Own!Drop(v)
        PROVE  VectorsSound(heap', vec', value')
    BY <2>4, VectorDestroy
  <2>5. ASSUME vec[v] # NULL, NEW i, NEW k, IsTakenOut(i, k)
        PROVE  VectorsSound(heap', vec', value')
    BY <2>5, VectorTakeOut
  <2>6. ASSUME vec[v] # NULL, NEW i \in 0 .. n,
               \/ \E x \in Elements : V!Insert(v, i, x) /\ V!Own!Insert(v, i, <<x>>)
               \/ \E x \in Elements : V!Write(v, i, x) /\ V!Own!Write(v, i, <<x>>)
               \/ V!EraseOne(v, i) /\ V!Own!Erase(v, i, 1)
               \/ \E last \in 0 .. n : V!Erase(v, i, last) /\ V!Own!Erase(v, i, last - i + 1)
        PROVE  VectorsSound(heap', vec', value')
    <3>1. n \in Nat /\ i \in Nat
      BY <2>6, VectorHas
    <3>2. ASSUME NEW x \in Elements, V!Insert(v, i, x), V!Own!Insert(v, i, <<x>>)
          PROVE  VectorsSound(heap', vec', value')
      BY <2>6, <3>2, VectorInsert
    <3>3. ASSUME NEW x \in Elements, V!Write(v, i, x), V!Own!Write(v, i, <<x>>)
          PROVE  VectorsSound(heap', vec', value')
      BY <2>6, <3>3, VectorWrite
    <3>4. ASSUME V!EraseOne(v, i), V!Own!Erase(v, i, 1)
          PROVE  VectorsSound(heap', vec', value')
      <4>1. IsTakenOut(i, 1)
        BY <3>1, <3>4 DEF V!EraseOne
      <4> HIDE DEF IsTakenOut
      <4> QED
        BY <2>5, <2>6, <4>1
    <3>5. ASSUME NEW last \in 0 .. n, V!Erase(v, i, last), V!Own!Erase(v, i, last - i + 1)
          PROVE  VectorsSound(heap', vec', value')
      <4>1. i < last /\ last < n /\ V!TakeOut(v, i, last - i + 1)
        BY <3>5 DEF V!Erase
      <4>2. last - i + 1 \in Nat /\ i + (last - i + 1) <= n
        BY <3>1, <4>1
      <4>3. IsTakenOut(i, last - i + 1)
        BY <3>1, <3>5, <4>1, <4>2
      <4> HIDE DEF IsTakenOut
      <4> QED
        BY <2>5, <2>6, <4>3
    <3> HIDE DEF n
    <3> QED
      BY <2>6, <3>2, <3>3, <3>4, <3>5
  <2>7. ASSUME vec[v] # NULL, V!Clear(v), V!Own!Erase(v, 0, n)
        PROVE  VectorsSound(heap', vec', value')
    <3>1. n \in Nat
      BY <2>7, VectorHas
    <3>2. IsTakenOut(0, n)
      BY <2>7, <3>1 DEF V!Clear
    <3> HIDE DEF IsTakenOut
    <3> QED
      BY <2>5, <2>7, <3>2
  <2>8. ASSUME vec[v] # NULL, \/ V!Shrink(v) /\ V!Own!Copy(v, v)
                              \/ V!Sort(v) /\ V!Own!Sort(v)
        PROVE  VectorsSound(heap', vec', value')
    BY <2>8, VectorShrink, VectorSort
  <2> QED
    BY <2>1, <2>2, <2>3, <2>4, <2>6, <2>7, <2>8 DEF V!Exists
<1> QED
  BY <1>1, <1>2

-----------------------------------------------------------------------------

\* Vector counts as this module does.
LEMMA VectorsCount == \A S : V!Cardinality(S) = Cardinality(S)
BY DEF V!Cardinality, Cardinality

\* Sound vectors hold what they should, in live elements and nothing else.
LEMMA SoundVectorsHold ==
    ASSUME VectorsAssumption, VectorsSound(heap, vec, value)
    PROVE  V!HoldsWhatItShould /\ V!ItemsAreAlive
<1>1. ASSUME NEW v \in Vectors
      PROVE  value[v] = IF V!Exists(v) THEN V!Items(v) ELSE NULL
  <2>1. CASE vec[v] = NULL
    BY <2>1 DEF VectorsSound, VectorIs, V!Exists
  <2>2. CASE vec[v] # NULL
    BY <2>2, VectorHas DEF V!Exists
  <2> QED
    BY <2>1, <2>2
<1>2. ASSUME NEW b \in Storages
      PROVE  /\ heap[b].refs = Cardinality(V!Sharers(b))
             /\ V!Sharers(b) = {} <=> Cardinality(V!Sharers(b)) = 0
  <2>1. V!Sharers(b) = SharersIn(Vectors, vec, b)
    BY DEF V!Sharers, V!Exists, SharersIn
  <2>2. heap[b].refs = Cardinality(SharersIn(Vectors, vec, b)) /\ IsFiniteSet(Vectors)
    BY DEF VectorsSound, IsShare, Counted
  <2> QED
    BY <2>1, <2>2, SharersFinite
<1>3. ASSUME NEW b \in Storages, NEW v \in V!Sharers(b), NEW i \in DOMAIN heap[b].cells
      PROVE  heap[b].cells[i] # Raw <=> i <= vec[v].mItemCount
  <2>1. v \in Vectors /\ vec[v] # NULL /\ vec[v].storage = b
    BY <1>3 DEF V!Sharers, V!Exists
  <2> DEFINE c == heap[b].cells
             n == vec[v].mItemCount
             y == value[v]
  <2>2. Holds(c, n, y) /\ n \in Nat
    BY <2>1, VectorHas
  <2>3. i \in DOMAIN c
    OBVIOUS
  <2>4. \A x \in Elements : x # Raw
    BY DEF VectorsAssumption
  <2> HIDE DEF c, n, y
  <2>5. /\ y \in Seq(Elements) /\ Len(y) = n /\ i \in 1 .. Len(c) /\ Len(c) \in Nat
        /\ \A j \in 1 .. n : c[j] = y[j]
        /\ \A j \in n + 1 .. Len(c) : c[j] = Raw
    BY <2>2, <2>3 DEF Holds
  <2>6. CASE i <= n
    <3>1. c[i] = y[i] /\ y[i] \in Elements
      BY <2>2, <2>5, <2>6
    <3>2. c[i] # Raw
      BY <2>4, <3>1
    <3> QED
      BY <2>6, <3>2 DEF c, n
  <2>7. CASE ~(i <= n)
    <3>1. c[i] = Raw
      BY <2>2, <2>5, <2>7
    <3> QED
      BY <2>7, <3>1 DEF c, n
  <2> QED
    BY <2>6, <2>7
<1>4. V!HoldsWhatItShould
  BY <1>1 DEF V!HoldsWhatItShould
<1>5. V!ItemsAreAlive
  BY <1>2, <1>3, VectorsCount DEF V!ItemsAreAlive
<1> QED
  BY <1>4, <1>5

VectorsInv == scenario = "vectors" => VectorsSound(heap, vec, value)

\* Storage counts its vectors, and its first cells hold what each of them
\* should and the others nothing, after any calls of Vector.
THEOREM VectorsInvariance == MCSpec => []VectorsInv
<1>1. MCInit => VectorsInv
  BY VectorsAssumed, VectorsStart DEF MCInit, VectorsInv
<1>2. VectorsInv /\ [MCNext]_MCVars => VectorsInv'
  <2> SUFFICES ASSUME VectorsInv,
                      [MCNext]_MCVars,
                      scenario' = "vectors"
               PROVE  VectorsSound(heap', vec', value')
    BY DEF VectorsInv
  <2>1. CASE MCNext
    <3>1. scenario = "vectors" /\ VectorsSound(heap, vec, value) /\ V!Next
      BY <2>1 DEF MCNext, VectorsInv
    <3> QED
      BY <3>1, VectorsAssumed, VectorsKeep
  <2>2. CASE UNCHANGED MCVars
    BY <2>2 DEF MCVars, VectorsInv
  <2> QED
    BY <2>1, <2>2
<1> QED
  BY <1>1, <1>2, PTL DEF MCSpec

\* A vector holds what was put into it, in the order in which it was put there
\* or sorted, whatever was done to its copies: no element is lost to a copy,
\* read after it was destroyed or left behind the last one.
THEOREM VectorsKeepItems == MCSpec => []VectorsKeepTheirItems
<1>1. VectorsInv => VectorsKeepTheirItems
  BY VectorsAssumed, SoundVectorsHold DEF VectorsInv, VectorsKeepTheirItems
<1> QED
  BY <1>1, VectorsInvariance, PTL
=============================================================================
