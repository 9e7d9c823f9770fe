---------------------------- MODULE SharedBuffer ----------------------------
(***************************************************************************)
(* The copy-on-write buffer (SharedBuffer.h, SharedObject.cpp) under       *)
(* strings and containers.  A holder is a string or a container with its   *)
(* SharedBuffer pointer; one thread at a time uses it, but the buffers     *)
(* behind holders of different threads are shared.  A step is one access   *)
(* to a count, or work on a buffer.                                        *)
(***************************************************************************)
EXTENDS Naturals, Sequences, FiniteSets

CONSTANTS Threads, Handles, Buffers, Values, NULL,
    Junk,       \* what a new buffer contains
    MaxSize

VARIABLES
    owner,      \* the thread that may use the holder
    handle,     \* the buffer of each holder
    mRefs,      \* the count of each buffer
    mData,      \* its content; mSize is the length
    live,       \* buffers allocated
    call        \* the call each thread is in

vars == <<owner, handle, mRefs, mData, live, call>>

Sizes == 1 .. MaxSize
NoCall == [op |-> "none"]

\* Releasing a buffer, and what to do with the holder when that is done.
Release(op, b, next) == [op |-> op, buf |-> b, next |-> next]
\* Editing a holder: the size asked for (0 for edit()), and the write.
Edit(op, h, n, i, x) == [op |-> op, h |-> h, size |-> n, at |-> i, x |-> x]

Edits == {Edit(op, h, n, i, x) : op \in {"test", "testAgain", "copy", "write"},
            h \in Handles, n \in 0 .. MaxSize, i \in Sizes, x \in Values}

Init ==
    /\ owner \in [Handles -> Threads]
    /\ handle = [h \in Handles |-> NULL]
    /\ mRefs = [b \in Buffers |-> 0]
    /\ mData = [b \in Buffers |-> <<>>]
    /\ live = {}
    /\ call = [t \in Threads |-> NoCall]

\* n bytes, the old ones first.
Resized(s, n) == [i \in 1 .. n |-> IF i <= Len(s) THEN s[i] ELSE Junk]

Idle(t, h) == call[t] = NoCall /\ owner[h] = t
At(t, op) == call[t].op = op
Goto(t, c) == call' = [call EXCEPT ![t] = c]
Step(t, op) == Goto(t, [call[t] EXCEPT !.op = op])
(* Mutant: one other holder is overlooked. *)
IsBufferOfTwo(b) == mRefs[b] <= 2
IsBufferNotShared(b) == mRefs[b] <= 1

\* The allocator gives the same address as soon as it is free again.
Free == CHOOSE b \in Buffers : b \notin live

-----------------------------------------------------------------------------

\* Create(allocator, n)
Create(t, h, n) ==
    /\ Idle(t, h) /\ handle[h] = NULL
    /\ live # Buffers
    /\ live' = live \cup {Free}
    /\ handle' = [handle EXCEPT ![h] = Free]
    /\ mRefs' = [mRefs EXCEPT ![Free] = 1]
    /\ mData' = [mData EXCEPT ![Free] = Resized(<<>>, n)]
    /\ UNCHANGED <<owner, call>>

\* A holder is copied.
RetainBuffer(t, g, h) ==
    /\ Idle(t, h) /\ owner[g] = t /\ handle[g] = NULL /\ handle[h] # NULL
    /\ handle' = [handle EXCEPT ![g] = handle[h]]
    /\ mRefs' = [mRefs EXCEPT ![handle[h]] = @ + 1]
    /\ UNCHANGED <<owner, mData, live, call>>

\* A holder is destroyed.
ReleaseBuffer(t, h) ==
    /\ Idle(t, h) /\ handle[h] # NULL
    /\ Goto(t, Release("load", handle[h], NoCall))
    /\ handle' = [handle EXCEPT ![h] = NULL]
    /\ UNCHANGED <<owner, mRefs, mData, live>>

\* A holder is written: edit() or edit(n) first.
BeginEdit(t, h, n, i, x) ==
    /\ Idle(t, h) /\ handle[h] # NULL
    /\ i <= IF n = 0 THEN Len(mData[handle[h]]) ELSE n
    /\ i <= Len(mData[handle[h]]) \/ n # 0
    /\ Goto(t, Edit("test", h, n, i, x))
    /\ UNCHANGED <<owner, handle, mRefs, mData, live>>

\* A holder moves to another thread with the object it is in.
HandOver(t, h, u) ==
    /\ Idle(t, h) /\ u # t /\ handle[h] # NULL
    /\ owner' = [owner EXCEPT ![h] = u]
    /\ UNCHANGED <<handle, mRefs, mData, live, call>>

-----------------------------------------------------------------------------

\* ReleaseObject(true): a count of zero is an error and nothing is done.
ReleaseLoad(t) ==
    /\ At(t, "load")
    /\ IF mRefs[call[t].buf] = 0 THEN Goto(t, call[t].next) ELSE Step(t, "dec")
    /\ UNCHANGED <<owner, handle, mRefs, mData, live>>

ReleaseDec(t) ==
    LET b == call[t].buf IN
    /\ At(t, "dec")
    /\ mRefs' = [mRefs EXCEPT ![b] = @ - 1]
    /\ IF mRefs[b] = 1 THEN Step(t, "deallocate") ELSE Goto(t, call[t].next)
    /\ UNCHANGED <<owner, handle, mData, live>>

Deallocate(t) ==
    /\ At(t, "deallocate")
    /\ live' = live \ {call[t].buf}
    /\ mData' = [mData EXCEPT ![call[t].buf] = <<>>]
    /\ Goto(t, call[t].next)
    /\ UNCHANGED <<owner, handle, mRefs>>

(* Mutant: edit(sz) tests the size alone. *)
EditTestSize(t) ==
    LET b == handle[call[t].h]  n == call[t].size IN
    /\ At(t, "test")
    /\ IF IF n = 0 THEN IsBufferNotShared(b) ELSE n <= Len(mData[b])
       THEN Step(t, "write")
       ELSE Step(t, IF n = 0 THEN "copy" ELSE "testAgain")
    /\ UNCHANGED <<owner, handle, mRefs, mData, live>>

\* if (IsBufferNotShared() [&& sz <= mSize]) return this
EditTest(t) ==
    LET b == handle[call[t].h]  n == call[t].size IN
    /\ At(t, "test")
    /\ IF IsBufferNotShared(b) /\ n <= Len(mData[b])
       THEN Step(t, "write")
       ELSE Step(t, IF n = 0 THEN "copy" ELSE "testAgain")
    /\ UNCHANGED <<owner, handle, mRefs, mData, live>>

\* edit(sz) tests again, and reallocates if the others have gone.
EditTestAgain(t) ==
    LET b == handle[call[t].h] IN
    /\ At(t, "testAgain")
    /\ IF IsBufferNotShared(b)
       THEN /\ mData' = [mData EXCEPT ![b] = Resized(@, call[t].size)]
            /\ Step(t, "write")
       ELSE Step(t, "copy") /\ UNCHANGED mData
    /\ UNCHANGED <<owner, handle, mRefs, live>>

\* A copy of the content; then the old buffer is released.
EditCopy(t) ==
    LET old == handle[call[t].h]
        n == IF call[t].size = 0 THEN Len(mData[old]) ELSE call[t].size IN
    /\ At(t, "copy")
    /\ live # Buffers
    /\ live' = live \cup {Free}
    /\ handle' = [handle EXCEPT ![call[t].h] = Free]
    /\ mRefs' = [mRefs EXCEPT ![Free] = 1]
    /\ mData' = [mData EXCEPT ![Free] = Resized(mData[old], n)]
    /\ Goto(t, Release("load", old, [call[t] EXCEPT !.op = "write"]))
    /\ UNCHANGED owner

\* The client writes to what edit returned.
Write(t) ==
    LET b == handle[call[t].h] IN
    /\ At(t, "write")
    /\ mData' = [mData EXCEPT ![b] = [@ EXCEPT ![call[t].at] = call[t].x]]
    /\ Goto(t, NoCall)
    /\ UNCHANGED <<owner, handle, mRefs, live>>

-----------------------------------------------------------------------------

Next ==
    \E t \in Threads :
        \/ ReleaseLoad(t)
        \/ ReleaseDec(t)
        \/ Deallocate(t)
        \/ EditTest(t)
        \/ EditTestAgain(t)
        \/ EditCopy(t)
        \/ Write(t)
        \/ \E h \in Handles :
            \/ \E n \in Sizes : Create(t, h, n)
            \/ \E g \in Handles : RetainBuffer(t, g, h)
            \/ ReleaseBuffer(t, h)
            \/ \E n \in 0 .. MaxSize, i \in Sizes, x \in Values : BeginEdit(t, h, n, i, x)
            \/ \E u \in Threads : HandOver(t, h, u)

Spec == Init /\ [][Next]_vars

-----------------------------------------------------------------------------

\* The holders of b, and the threads that have not yet given up a reference.
HoldersOf(b) == {h \in Handles : handle[h] = b}
Releasing(b) == {t \in Threads : call[t].op \in {"load", "dec"} /\ call[t].buf = b}
Deallocating(b) == {t \in Threads : At(t, "deallocate") /\ call[t].buf = b}

\* A buffer is allocated as long as somebody holds it, and no longer.
CountsMatch ==
    \A b \in Buffers :
        IF b \in live
        THEN /\ mRefs[b] = Cardinality(HoldersOf(b)) + Cardinality(Releasing(b))
             /\ Cardinality(Deallocating(b)) = IF mRefs[b] = 0 THEN 1 ELSE 0
        ELSE HoldersOf(b) \cup Releasing(b) \cup Deallocating(b) = {}

\* Who is about to write to a buffer is alone with it, although the test was
\* made earlier.
WriterIsAlone == \A t \in Threads : At(t, "write") => mRefs[handle[call[t].h]] = 1

BuffersAreCounted == CountsMatch /\ WriterIsAlone

\* The constants are like this: an absent holder is neither a buffer nor content.
BufferAssumption ==
    /\ IsFiniteSet(Threads) /\ IsFiniteSet(Handles) /\ MaxSize \in Nat
    /\ NULL \notin Buffers /\ NULL \notin Seq(Values \cup {Junk})

\* Every holder has content of its own.
Abstract == INSTANCE OwnedSequences WITH
    Holders <- Handles,
    NoValue <- NULL,
    Fresh <- {Resized(<<>>, n) : n \in Sizes},
    Pieces <- {<<x>> : x \in Values} \cup {Resized(<<>>, n) : n \in Sizes},
    Key <- LAMBDA x : 0,
    value <- [h \in Handles |-> IF handle[h] = NULL THEN NULL ELSE mData[handle[h]]]

KeepsOwnContent == Abstract!Spec
=============================================================================
